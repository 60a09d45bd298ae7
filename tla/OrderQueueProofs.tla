-------------------------- MODULE OrderQueueProofs --------------------------
(***************************************************************************)
(* Theorems about the order queue of hw7, for any orders, processors,      *)
(* worker counts, batch sizes, timeouts, payments and number of faults.    *)
(***************************************************************************)
EXTENDS OrderQueue, FiniteSetTheorems, TLAPS

USE DEF settings, queueVars, taskVars

-----------------------------------------------------------------------------
(* An order leaves the queue only when it is paid.                         *)

\* The functions the property reads.
Shape ==
    /\ queue \in [Orders -> {"unsent", "visible", "hidden", "deleted"}]
    /\ paid \in [Orders -> Nat]

PaidInv == Shape /\ LeavesOnlyPaid

\* Nothing is in the queue, paid or deleted at the start.
LEMMA PaidAtStart == Init => PaidInv
BY DEF Init, PaidInv, Shape, LeavesOnlyPaid

\* The end of processOneMessage pays first, so its deletion is of a paid
\* order.
LEMMA FinishPays ==
    ASSUME NEW p \in Processors, NEW o \in Orders, PaidInv, Finish(p, o)
    PROVE  PaidInv'
<1>1. /\ paid' = [paid EXCEPT ![o] = @ + 1]
      /\ queue' \in {queue, [queue EXCEPT ![o] = "deleted"]}
  BY DEF Finish, Deletions
<1>2. Shape'
  BY <1>1 DEF PaidInv, Shape
<1>3. ASSUME NEW x \in Orders, queue'[x] = "deleted" PROVE paid'[x] > 0
  <2>1. CASE x = o
    BY <1>1, <2>1 DEF PaidInv, Shape
  <2>2. CASE x # o
    BY <1>1, <1>3, <2>2 DEF PaidInv, Shape, LeavesOnlyPaid
  <2> QED BY <2>1, <2>2
<1> QED BY <1>2, <1>3 DEF PaidInv, LeavesOnlyPaid

\* Every other step of the receiver, a processor, SQS or the clock leaves the
\* payments alone or adds one, and deletes nothing.
LEMMA NothingElseDeletes ==
    ASSUME PaidInv,
           queue' \in [Orders -> {"unsent", "visible", "hidden", "deleted"}],
           \A o \in Orders : queue'[o] = "deleted" => queue[o] = "deleted",
           paid' = paid \/ \E o \in Orders : paid' = [paid EXCEPT ![o] = @ + 1]
    PROVE  PaidInv'
<1>1. paid' \in [Orders -> Nat] /\ \A o \in Orders : paid'[o] >= paid[o]
  BY DEF PaidInv, Shape
<1> QED BY <1>1 DEF PaidInv, Shape, LeavesOnlyPaid

LEMMA PaidByStep == PaidInv /\ [Next]_vars => PaidInv'
<1> SUFFICES ASSUME PaidInv, [Next]_vars PROVE PaidInv'
  OBVIOUS
<1> USE DEF PaidInv, Shape
<1>1. ASSUME NEW o \in Orders, Publish(o) PROVE PaidInv'
  BY <1>1, NothingElseDeletes DEF Publish
<1>2. ASSUME NEW o \in Orders, Redeliver(o) PROVE PaidInv'
  BY <1>2, NothingElseDeletes DEF Redeliver
<1>3. ASSUME NEW p \in Processors, Receive(p) PROVE PaidInv'
  BY <1>3, NothingElseDeletes DEF Receive, Hide
<1>r. ASSUME NEW p \in Processors, ReceiveFails(p) PROVE PaidInv'
  BY <1>r, NothingElseDeletes DEF ReceiveFails, Hide
<1>s. ASSUME NEW p \in Processors, NEW o \in Orders, Skip(p, o) PROVE PaidInv'
  BY <1>s, NothingElseDeletes DEF Skip
<1>4. ASSUME NEW p \in Processors, Crash(p) PROVE PaidInv'
  BY <1>4, NothingElseDeletes DEF Crash, queueVars
<1>5. ASSUME NEW p \in Processors, NEW o \in Orders, Start(p, o) PROVE PaidInv'
  BY <1>5, NothingElseDeletes DEF Start, queueVars
<1>6. ASSUME NEW p \in Processors, NEW o \in Orders, Finish(p, o) PROVE PaidInv'
  BY <1>6, FinishPays
<1>7. ASSUME NEW p \in Processors, NEW o \in Orders, DeleteFails(p, o)
      PROVE  PaidInv'
  BY <1>7, NothingElseDeletes DEF DeleteFails, queueVars
<1>8. CASE Tick
  BY <1>8, NothingElseDeletes DEF Tick
<1>9. CASE UNCHANGED vars
  BY <1>9, NothingElseDeletes DEF vars, queueVars
<1> QED
  BY <1>1, <1>2, <1>3, <1>r, <1>s, <1>4, <1>5, <1>6, <1>7, <1>8, <1>9 DEF Next

\* An order leaves the queue only when its payment is complete:
\* processOneMessage deletes the message last, and neither a crash, nor a
\* redelivery, nor an expired receipt removes it.
THEOREM DeletedOrdersArePaid == Spec => []LeavesOnlyPaid
<1>1. PaidInv => LeavesOnlyPaid
  BY DEF PaidInv
<1> QED
  BY PaidAtStart, PaidByStep, <1>1, PTL DEF Spec

-----------------------------------------------------------------------------
(* Types, and the limit on the workers of a processor.                     *)

\* Only finitely many orders are with a processor, and a message is hidden as long
\* as its timeout runs.
TypeInv ==
    /\ TypeOK
    /\ DOMAIN left = Processors
    /\ \A p \in Processors : IsFiniteSet(waiting[p]) /\ IsFiniteSet(Working(p))
    /\ \A o \in Orders : queue[o] = "hidden" <=> hiddenFor[o] > 0

\* The constants, as the proofs use them.
LEMMA Constants ==
    /\ BatchSizes \subseteq Nat \ {0} /\ RetryDelay \in Nat /\ Visibility \in Nat \ {0}
    /\ Payment \in Nat \ {0} /\ Slack \in Nat /\ MaxFaults \in Nat
    /\ WorkerCounts \subseteq Nat \ {0}
BY OrderQueueAssumption DEF OrderQueueAssumption

\* The state of a message and of a processor, as the proofs use them.
LEMMA Facts ==
    ASSUME TypeInv
    PROVE  /\ \A o \in Orders :
                 /\ queue[o] \in {"unsent", "visible", "hidden", "deleted"}
                 /\ hiddenFor[o] \in Nat /\ paid[o] \in Nat
           /\ \A p \in Processors :
                 /\ workers[p] \in Nat \ {0}
                 /\ IsFiniteSet(waiting[p]) /\ IsFiniteSet(Working(p))
                 /\ Cardinality(waiting[p]) \in Nat /\ Cardinality(Working(p)) \in Nat
                 /\ waiting[p] \subseteq Orders /\ Working(p) \subseteq Orders
                 /\ \A o \in Working(p) : o \notin waiting[p] /\ left[p][o] \in Nat
           /\ faults \in Nat /\ asked \in Nat \ {0}
<1>1. \A p \in Processors : workers[p] \in Nat \ {0}
  BY Constants DEF TypeInv, TypeOK
<1>2. \A p \in Processors : Cardinality(waiting[p]) \in Nat /\ Cardinality(Working(p)) \in Nat
  BY FS_CardinalityType DEF TypeInv
<1>3. \A p \in Processors : \A o \in Working(p) :
         o \in Orders /\ o \notin waiting[p] /\ left[p][o] \in Nat
  BY Constants DEF TypeInv, TypeOK
<1> QED BY <1>1, <1>2, <1>3, Constants DEF TypeInv, TypeOK

\* A worker of p takes an order that waits.
LEMMA StartView ==
    ASSUME TypeInv, NEW p \in Processors, NEW o \in Orders, Start(p, o)
    PROVE  /\ o \in waiting[p] /\ o \notin Working(p)
           /\ Cardinality(Working(p)) < workers[p]
           /\ waiting' = [waiting EXCEPT ![p] = @ \ {o}]
           /\ Working(p)' = Working(p) \cup {o} /\ left'[p][o] \in Payment .. Payment + Slack
           /\ \A w \in Working(p) : left'[p][w] = left[p][w]
           /\ DOMAIN left' = Processors
           /\ \A q \in Processors : q # p => left'[q] = left[q]
           /\ UNCHANGED <<asked, workers, queue, hiddenFor, receipt, paid, faults>>
<1>1. /\ o \in waiting[p] /\ o \notin Working(p) /\ Cardinality(Working(p)) < workers[p]
      /\ waiting' = [waiting EXCEPT ![p] = @ \ {o}]
      /\ UNCHANGED <<asked, workers, queue, hiddenFor, receipt, paid, faults>>
  BY Facts DEF Start, WorkerFree, queueVars
<1>2. PICK ticks \in Durations : left' = Starting(p, o, ticks)
  BY DEF Start
<1>3. /\ DOMAIN left' = Processors
      /\ left'[p] = [w \in Working(p) \cup {o} |-> IF w = o THEN ticks ELSE left[p][w]]
      /\ \A q \in Processors : q # p => left'[q] = left[q]
  BY <1>2 DEF Starting, TypeInv
<1> QED BY <1>1, <1>2, <1>3 DEF Working, Durations

\* A worker of p ends.
LEMMA EndView ==
    ASSUME TypeInv, NEW p \in Processors, NEW o \in Working(p), left' = Ending(p, o)
    PROVE  /\ Working(p)' = Working(p) \ {o}
           /\ \A w \in Working(p)' : left'[p][w] = left[p][w]
           /\ DOMAIN left' = Processors
           /\ \A q \in Processors : q # p => left'[q] = left[q]
<1>1. /\ DOMAIN left' = Processors
      /\ left'[p] = [w \in Working(p) \ {o} |-> left[p][w]]
      /\ \A q \in Processors : q # p => left'[q] = left[q]
  BY DEF Ending, Restrict, TypeInv
<1> QED BY <1>1 DEF Working

\* The message of o is deleted with its receipt, or nothing happens to it.
LEMMA DeletionView ==
    ASSUME TypeInv, NEW p \in Processors, NEW o \in Orders, Finish(p, o)
    PROVE  \/ /\ queue' = [queue EXCEPT ![o] = "deleted"]
              /\ hiddenFor' = [hiddenFor EXCEPT ![o] = 0]
              /\ receipt' = [receipt EXCEPT ![o] = {}]
           \/ receipt[o] # {p} /\ UNCHANGED <<queue, hiddenFor, receipt>>
<1>1. CASE queue' = queue /\ queue[o] = "deleted"
  <2>1. queue = [queue EXCEPT ![o] = "deleted"]
    BY <1>1 DEF TypeInv, TypeOK
  <2> QED BY <1>1, <2>1 DEF Finish, Forget
<1>2. CASE ~(queue' = queue /\ queue[o] = "deleted")
  BY <1>2 DEF Finish, Forget, Deletions, TypeInv, TypeOK
<1> QED BY <1>1, <1>2

\* A second goes by; no payment was at its end.
LEMMA TickView ==
    ASSUME TypeInv, Tick
    PROVE  /\ \A p \in Processors :
                 /\ waiting[p] # {} => Cardinality(Working(p)) = workers[p]
                 /\ Working(p)' = Working(p)
                 /\ \A o \in Working(p) : left[p][o] > 0 /\ left'[p][o] = left[p][o] - 1
           /\ \A o \in Orders :
                 /\ hiddenFor'[o] = IF hiddenFor[o] > 0 THEN hiddenFor[o] - 1 ELSE 0
                 /\ queue'[o] = IF hiddenFor[o] = 1 THEN "visible" ELSE queue[o]
           /\ DOMAIN left' = Processors
           /\ UNCHANGED <<asked, workers, receipt, waiting, paid, faults>>
<1>1. \A p \in Processors : waiting[p] # {} => Cardinality(Working(p)) = workers[p]
  <2>1. \A p \in Processors : waiting[p] # {} => ~(Cardinality(Working(p)) < workers[p])
    BY DEF Tick, Busy, WorkerFree
  <2> QED BY <2>1, Facts DEF TypeInv, TypeOK
<1>2. \A p \in Processors : \A o \in Working(p) : left[p][o] > 0
  <2>1. \A p \in Processors : \A o \in Working(p) : left[p][o] # 0
    BY DEF Tick, Busy
  <2> QED BY <2>1, Facts
<1>3. /\ DOMAIN left' = Processors
      /\ \A p \in Processors : left'[p] = [o \in Working(p) |-> left[p][o] - 1]
  BY DEF Tick
<1>4. \A p \in Processors : Working(p)' = Working(p)
  BY <1>3 DEF Working
<1> QED BY <1>1, <1>2, <1>3, <1>4 DEF Tick

\* A call hands out messages that are visible, to p or to nobody.
LEMMA HideView ==
    ASSUME TypeInv, NEW batch \in Batches, NEW holder, Hide(batch, holder)
    PROVE  /\ batch \subseteq Orders /\ IsFiniteSet(batch)
           /\ Cardinality(batch) \in Nat /\ Cardinality(batch) <= asked
           /\ \A o \in Orders :
                 /\ queue'[o] = IF o \in batch THEN "hidden" ELSE queue[o]
                 /\ hiddenFor'[o] = IF o \in batch THEN Visibility ELSE hiddenFor[o]
                 /\ receipt'[o] = IF o \in batch THEN holder ELSE receipt[o]
           /\ queue' = [o \in Orders |-> queue'[o]]
           /\ hiddenFor' = [o \in Orders |-> hiddenFor'[o]]
           /\ receipt' = [o \in Orders |-> receipt'[o]]
           /\ \A o \in batch : queue[o] = "visible"
<1>1. /\ batch \subseteq Orders /\ IsFiniteSet(batch)
      /\ Cardinality(batch) \in 1 .. asked /\ asked \in Nat
      /\ \A o \in batch : queue[o] = "visible"
  BY Facts DEF Batches, In
<1> QED BY <1>1 DEF Hide

\* Before the receiver publishes anything nobody holds an order.
LEMMA TypeAtStart == Init => TypeInv
<1> SUFFICES ASSUME Init PROVE TypeInv
  OBVIOUS
<1>1. \A p \in Processors : waiting[p] = {} /\ Working(p) = {}
  BY DEF Init, Working
<1>2. \A p \in Processors :
         /\ IsFiniteSet(waiting[p]) /\ IsFiniteSet(Working(p))
         /\ Cardinality(Working(p)) = 0 /\ workers[p] \in Nat
  BY <1>1, FS_EmptySet, Constants DEF Init
<1>3. \A p \in Processors :
         /\ Working(p) \subseteq Orders \ waiting[p]
         /\ Cardinality(Working(p)) <= workers[p]
         /\ \A o \in Working(p) : left[p][o] \in 0 .. Payment + Slack
  BY <1>1, <1>2
<1>4. /\ queue \in [Orders -> {"unsent", "visible", "hidden", "deleted"}]
      /\ hiddenFor \in [Orders -> 0 .. Visibility] /\ receipt \in [Orders -> SUBSET Processors]
      /\ \A o \in Orders : queue[o] = "hidden" <=> hiddenFor[o] > 0
  BY Constants DEF Init
<1>5. /\ workers \in [Processors -> WorkerCounts] /\ waiting \in [Processors -> SUBSET Orders]
      /\ paid \in [Orders -> Nat] /\ faults \in 0 .. MaxFaults /\ DOMAIN left = Processors
      /\ asked \in BatchSizes /\ pause \in [Processors -> 0 .. RetryDelay]
  BY Constants DEF Init
<1> QED BY <1>2, <1>3, <1>4, <1>5 DEF TypeInv, TypeOK

\* What a step does not touch at a processor keeps its type.
ProcessorTyped(p) ==
    /\ waiting[p] \subseteq Orders /\ IsFiniteSet(waiting[p])
    /\ Working(p) \subseteq Orders \ waiting[p] /\ IsFiniteSet(Working(p))
    /\ Cardinality(Working(p)) <= workers[p]
    /\ \A o \in Working(p) : left[p][o] \in 0 .. Payment + Slack

MessageTyped(o) ==
    /\ queue[o] \in {"unsent", "visible", "hidden", "deleted"}
    /\ hiddenFor[o] \in 0 .. Visibility /\ receipt[o] \in SUBSET Processors
    /\ paid[o] \in Nat
    /\ queue[o] = "hidden" <=> hiddenFor[o] > 0

LEMMA TypeParts ==
    ASSUME TypeInv
    PROVE  /\ \A p \in Processors : ProcessorTyped(p)
           /\ \A o \in Orders : MessageTyped(o)
BY DEF TypeInv, TypeOK, ProcessorTyped, MessageTyped

LEMMA ProcessorKept ==
    ASSUME NEW p \in Processors, ProcessorTyped(p),
           UNCHANGED workers, waiting'[p] = waiting[p], left'[p] = left[p]
    PROVE  ProcessorTyped(p)'
BY DEF ProcessorTyped, Working

LEMMA MessageKept ==
    ASSUME NEW o \in Orders, MessageTyped(o), queue'[o] = queue[o],
           hiddenFor'[o] = hiddenFor[o], receipt'[o] = receipt[o], paid'[o] = paid[o]
    PROVE  MessageTyped(o)'
BY DEF MessageTyped

\* A processor pauses for RetryDelay or less.
LEMMA PauseStep ==
    ASSUME TypeInv, [Next]_vars
    PROVE  pause' \in [Processors -> 0 .. RetryDelay]
<1>1. pause \in [Processors -> 0 .. RetryDelay] /\ RetryDelay \in Nat
  BY Constants DEF TypeInv, TypeOK
<1>2. CASE UNCHANGED pause
  BY <1>1, <1>2
<1>3. ASSUME NEW p \in Processors, NEW ticks \in {0, RetryDelay},
             pause' = [pause EXCEPT ![p] = ticks]
      PROVE  pause' \in [Processors -> 0 .. RetryDelay]
  BY <1>1, <1>3
<1>4. CASE Tick
  <2>1. pause' = [p \in Processors |-> IF pause[p] > 0 THEN pause[p] - 1 ELSE 0]
    BY <1>4 DEF Tick
  <2> QED BY <1>1, <2>1
<1>5. ASSUME NEW p \in Processors, ReceiveFails(p) \/ Crash(p)
      PROVE  pause' \in [Processors -> 0 .. RetryDelay]
  BY <1>3, <1>5 DEF ReceiveFails, Crash
<1>6. ASSUME NEW o \in Orders, Publish(o) \/ Redeliver(o)
      PROVE  UNCHANGED pause
  BY <1>6 DEF Publish, Redeliver
<1>7. ASSUME NEW p \in Processors, Receive(p)
      PROVE  UNCHANGED pause
  BY <1>7 DEF Receive
<1>8. ASSUME NEW p \in Processors, NEW o \in Orders,
             Start(p, o) \/ Skip(p, o) \/ Finish(p, o) \/ DeleteFails(p, o)
      PROVE  UNCHANGED pause
  BY <1>8 DEF Start, Skip, Finish, DeleteFails
<1>9. CASE UNCHANGED vars
  BY <1>2, <1>9 DEF vars
<1> QED BY <1>2, <1>4, <1>5, <1>6, <1>7, <1>8, <1>9 DEF Next

\* From the shape of the tables and their rows back to the invariant.
LEMMA TypeTogether ==
    ASSUME TypeInv, [Next]_vars, UNCHANGED <<asked, workers>>, faults' \in 0 .. MaxFaults,
           queue' = [o \in Orders |-> queue'[o]],
           hiddenFor' = [o \in Orders |-> hiddenFor'[o]],
           receipt' = [o \in Orders |-> receipt'[o]],
           paid' = [o \in Orders |-> paid'[o]],
           waiting' = [p \in Processors |-> waiting'[p]], DOMAIN left' = Processors,
           \A p \in Processors : ProcessorTyped(p)', \A o \in Orders : MessageTyped(o)'
    PROVE  TypeInv'
<1>1. /\ queue' \in [Orders -> {"unsent", "visible", "hidden", "deleted"}]
      /\ hiddenFor' \in [Orders -> 0 .. Visibility]
      /\ receipt' \in [Orders -> SUBSET Processors]
      /\ paid' \in [Orders -> Nat]
      /\ \A o \in Orders : queue'[o] = "hidden" <=> hiddenFor'[o] > 0
  BY DEF MessageTyped
<1>2. /\ waiting' \in [Processors -> SUBSET Orders]
      /\ \A p \in Processors :
            /\ IsFiniteSet(waiting'[p]) /\ IsFiniteSet(Working(p)')
            /\ Working(p)' \subseteq Orders \ waiting'[p]
            /\ Cardinality(Working(p)') <= workers[p]
            /\ \A o \in Working(p)' : left'[p][o] \in 0 .. Payment + Slack
  BY DEF ProcessorTyped
<1> QED BY <1>1, <1>2, PauseStep DEF TypeInv, TypeOK

\* Receiver, processors, SQS and the clock keep the types.
LEMMA TypeStep == TypeInv /\ [Next]_vars => TypeInv'
<1> SUFFICES ASSUME TypeInv, [Next]_vars PROVE TypeInv'
  OBVIOUS
<1>a. /\ \A p \in Processors : ProcessorTyped(p)
      /\ \A o \in Orders : MessageTyped(o)
      /\ faults \in 0 .. MaxFaults /\ MaxFaults \in Nat /\ DOMAIN left = Processors
  BY TypeParts, Constants DEF TypeInv, TypeOK
<1>b. /\ queue = [o \in Orders |-> queue[o]] /\ hiddenFor = [o \in Orders |-> hiddenFor[o]]
      /\ receipt = [o \in Orders |-> receipt[o]] /\ paid = [o \in Orders |-> paid[o]]
      /\ waiting = [p \in Processors |-> waiting[p]]
  BY DEF TypeInv, TypeOK
<1>1. ASSUME NEW o \in Orders, Publish(o)
      PROVE  TypeInv'
  <2>1. /\ queue' = [queue EXCEPT ![o] = "visible"] /\ queue[o] = "unsent"
        /\ UNCHANGED <<asked, workers, hiddenFor, receipt, waiting, left, paid, faults>>
    BY <1>1 DEF Publish, taskVars
  <2>2. \A p \in Processors : ProcessorTyped(p)'
    BY <1>a, <2>1, ProcessorKept
  <2>3. \A x \in Orders : MessageTyped(x)'
    BY <1>a, <1>b, <2>1 DEF MessageTyped
  <2> QED BY <1>a, <1>b, <2>1, <2>2, <2>3, TypeTogether
<1>2. ASSUME NEW o \in Orders, Redeliver(o)
      PROVE  TypeInv'
  <2>1. /\ queue' = [queue EXCEPT ![o] = "visible"] /\ hiddenFor' = [hiddenFor EXCEPT ![o] = 0]
        /\ UNCHANGED <<asked, workers, receipt, waiting, left, paid>>
        /\ faults' \in 0 .. MaxFaults
    BY <1>a, <1>2 DEF Redeliver, Fault, taskVars
  <2>2. \A p \in Processors : ProcessorTyped(p)'
    BY <1>a, <2>1, ProcessorKept
  <2>3. \A x \in Orders : MessageTyped(x)'
    <3> SUFFICES ASSUME NEW x \in Orders PROVE MessageTyped(x)'
      OBVIOUS
    <3>1. CASE x = o
      <4>1. queue'[x] = "visible" /\ hiddenFor'[x] = 0
        BY <1>b, <2>1, <3>1
      <4> QED BY <1>a, <2>1, <4>1, Constants DEF MessageTyped
    <3>2. CASE x # o
      <4>1. queue'[x] = queue[x] /\ hiddenFor'[x] = hiddenFor[x]
        BY <1>b, <2>1, <3>2
      <4> QED BY <1>a, <2>1, <4>1, MessageKept
    <3> QED BY <3>1, <3>2
  <2> QED BY <1>a, <1>b, <2>1, <2>2, <2>3, TypeTogether
<1>3. ASSUME NEW p \in Processors, Receive(p)
      PROVE  TypeInv'
  <2>1. PICK batch \in Batches :
           Hide(batch, {p}) /\ waiting' = [waiting EXCEPT ![p] = batch]
    BY <1>3 DEF Receive
  <2>2. Working(p) = {} /\ UNCHANGED <<asked, workers, left, paid, faults>>
    BY <1>3 DEF Receive, Ready, Idle
  <2>3. \A x \in Orders : MessageTyped(x)'
    BY <1>a, <2>1, <2>2, HideView, Constants DEF MessageTyped
  <2>4. ProcessorTyped(p)'
    BY <1>a, <1>b, <2>1, <2>2, HideView DEF ProcessorTyped, Working
  <2>5. \A q \in Processors : q # p => ProcessorTyped(q)'
    BY <1>a, <1>b, <2>1, <2>2, ProcessorKept
  <2> QED BY <1>a, <1>b, <2>1, <2>2, <2>3, <2>4, <2>5, HideView, TypeTogether
<1>r. ASSUME NEW p \in Processors, ReceiveFails(p)
      PROVE  TypeInv'
  <2>1. UNCHANGED <<asked, workers, waiting, left, paid>>
    BY <1>r DEF ReceiveFails
  <2>2. faults' \in 0 .. MaxFaults
    BY <1>a, <1>r DEF ReceiveFails, Fault
  <2>3. \A q \in Processors : ProcessorTyped(q)'
    BY <1>a, <2>1, ProcessorKept
  <2>4. CASE UNCHANGED queueVars
    <3>1. \A x \in Orders : MessageTyped(x)'
      BY <1>a, <2>1, <2>4, MessageKept
    <3> QED BY <1>a, <1>b, <2>1, <2>2, <2>3, <2>4, <3>1, TypeTogether
  <2>5. ASSUME NEW batch \in Batches, Hide(batch, {})
        PROVE  TypeInv'
    <3>1. \A x \in Orders : MessageTyped(x)'
      BY <1>a, <2>1, <2>5, HideView, Constants DEF MessageTyped
    <3> QED BY <1>a, <1>b, <2>1, <2>2, <2>3, <2>5, <3>1, HideView, TypeTogether
  <2> QED BY <1>r, <2>4, <2>5 DEF ReceiveFails
<1>s. ASSUME NEW p \in Processors, NEW o \in Orders, Skip(p, o)
      PROVE  TypeInv'
  <2>1. /\ waiting' = [waiting EXCEPT ![p] = @ \ {o}]
        /\ UNCHANGED <<asked, workers, queue, hiddenFor, receipt, left, paid, faults>>
    BY <1>s DEF Skip
  <2>2. ProcessorTyped(p)'
    <3>1. waiting'[p] = waiting[p] \ {o} /\ Working(p)' = Working(p)
      BY <1>b, <2>1 DEF Working
    <3>2. IsFiniteSet(waiting'[p])
      BY <3>1, Facts, FS_Subset
    <3> QED BY <1>a, <2>1, <3>1, <3>2 DEF ProcessorTyped
  <2>3. \A q \in Processors : q # p => ProcessorTyped(q)'
    BY <1>a, <1>b, <2>1, ProcessorKept
  <2>4. \A x \in Orders : MessageTyped(x)'
    BY <1>a, <2>1, MessageKept
  <2> QED BY <1>a, <1>b, <2>1, <2>2, <2>3, <2>4, TypeTogether
<1>4. ASSUME NEW p \in Processors, Crash(p)
      PROVE  TypeInv'
  <2>1. /\ waiting' = [waiting EXCEPT ![p] = {}] /\ left' = [left EXCEPT ![p] = <<>>]
        /\ UNCHANGED <<asked, workers, queue, hiddenFor, receipt, paid>>
        /\ faults' \in 0 .. MaxFaults
    BY <1>a, <1>4 DEF Crash, Fault, queueVars
  <2>2. waiting'[p] = {} /\ Working(p)' = {}
    BY <1>a, <1>b, <2>1 DEF Working
  <2>3. ProcessorTyped(p)'
    <3>1. /\ IsFiniteSet(waiting'[p]) /\ IsFiniteSet(Working(p)')
          /\ Cardinality(Working(p)') = 0
      BY <2>2, FS_EmptySet
    <3>2. workers'[p] \in Nat
      BY <2>1, Facts
    <3> QED BY <2>2, <3>1, <3>2 DEF ProcessorTyped
  <2>4. \A q \in Processors : q # p => ProcessorTyped(q)'
    BY <1>a, <1>b, <2>1, ProcessorKept
  <2>5. \A x \in Orders : MessageTyped(x)'
    BY <1>a, <2>1, MessageKept
  <2> QED BY <1>a, <1>b, <2>1, <2>3, <2>4, <2>5, TypeTogether
<1>5. ASSUME NEW p \in Processors, NEW o \in Orders, Start(p, o)
      PROVE  TypeInv'
  <2>1. ProcessorTyped(p)'
    <3>1. waiting'[p] = waiting[p] \ {o}
      BY <1>b, <1>5, StartView
    <3>2. IsFiniteSet(waiting'[p]) /\ IsFiniteSet(Working(p)')
      BY <1>5, <3>1, StartView, Facts, FS_Subset, FS_AddElement
    <3>3. Cardinality(Working(p)') = Cardinality(Working(p)) + 1
      BY <1>5, StartView, Facts, FS_AddElement
    <3>4. Cardinality(Working(p)') <= workers'[p]
      BY <1>5, <3>3, StartView, Facts
    <3>5. \A w \in Working(p)' : left'[p][w] \in 0 .. Payment + Slack
      BY <1>a, <1>5, StartView, Constants DEF ProcessorTyped
    <3> QED BY <1>a, <1>5, <3>1, <3>2, <3>4, <3>5, StartView DEF ProcessorTyped
  <2>2. \A q \in Processors : q # p => ProcessorTyped(q)'
    BY <1>a, <1>b, <1>5, StartView, ProcessorKept
  <2>3. \A x \in Orders : MessageTyped(x)'
    BY <1>a, <1>5, StartView, MessageKept
  <2> QED BY <1>a, <1>b, <1>5, <2>1, <2>2, <2>3, StartView, TypeTogether
<1>6. ASSUME NEW p \in Processors, NEW o \in Working(p), left' = Ending(p, o),
             UNCHANGED <<asked, workers, waiting>>, NEW q \in Processors
      PROVE  ProcessorTyped(q)'
  <2>1. CASE q = p
    <3>1. IsFiniteSet(Working(p)') /\ Cardinality(Working(p)') <= Cardinality(Working(p))
      BY <1>6, EndView, Facts, FS_Subset
    <3>2. Cardinality(Working(p)') <= workers'[p]
      <4>1. Cardinality(Working(p)') \in Nat /\ Cardinality(Working(p)) <= workers[p]
        BY <1>a, <3>1, FS_CardinalityType DEF ProcessorTyped
      <4> QED BY <1>6, <3>1, <4>1, Facts
    <3> QED BY <1>a, <1>6, <2>1, <3>1, <3>2, EndView DEF ProcessorTyped
  <2>2. CASE q # p
    BY <1>a, <1>6, <2>2, EndView, ProcessorKept
  <2> QED BY <2>1, <2>2
<1>7. ASSUME NEW p \in Processors, NEW o \in Orders, Finish(p, o)
      PROVE  TypeInv'
  <2>1. /\ o \in Working(p) /\ left' = Ending(p, o) /\ paid' = [paid EXCEPT ![o] = @ + 1]
        /\ UNCHANGED <<asked, workers, waiting, faults>>
    BY <1>7 DEF Finish
  <2>2. \A x \in Orders : MessageTyped(x)'
    BY <1>a, <1>b, <1>7, <2>1, DeletionView, Constants DEF MessageTyped
  <2>3. /\ queue' = [x \in Orders |-> queue'[x]] /\ hiddenFor' = [x \in Orders |-> hiddenFor'[x]]
        /\ receipt' = [x \in Orders |-> receipt'[x]]
    BY <1>b, <1>7, DeletionView
  <2> QED BY <1>a, <1>b, <1>6, <2>1, <2>2, <2>3, EndView, TypeTogether
<1>8. ASSUME NEW p \in Processors, NEW o \in Orders, DeleteFails(p, o)
      PROVE  TypeInv'
  <2>1. /\ o \in Working(p) /\ left' = Ending(p, o) /\ paid' = [paid EXCEPT ![o] = @ + 1]
        /\ UNCHANGED <<asked, workers, queue, hiddenFor, receipt, waiting>>
        /\ faults' \in 0 .. MaxFaults
    BY <1>a, <1>8 DEF DeleteFails, Fault, queueVars
  <2>2. \A x \in Orders : MessageTyped(x)'
    BY <1>a, <1>b, <2>1 DEF MessageTyped
  <2> QED BY <1>a, <1>b, <1>6, <2>1, <2>2, EndView, TypeTogether
<1>9. CASE Tick
  <2>1. /\ hiddenFor' = [o \in Orders |-> hiddenFor'[o]]
        /\ queue' = [o \in Orders |-> queue'[o]]
    BY <1>9 DEF Tick
  <2>2. \A x \in Orders : MessageTyped(x)'
    BY <1>a, <1>9, TickView, Constants DEF MessageTyped
  <2>3. \A p \in Processors : ProcessorTyped(p)'
    BY <1>a, <1>9, TickView, Constants DEF ProcessorTyped
  <2> QED BY <1>a, <1>b, <1>9, <2>1, <2>2, <2>3, TickView, TypeTogether
<1>10. CASE UNCHANGED vars
  <2>1. UNCHANGED <<asked, workers, queue, hiddenFor, receipt, pause, waiting, left, paid, faults>>
    BY <1>10 DEF vars, queueVars, taskVars
  <2> QED BY <2>1 DEF TypeInv, TypeOK, Working
<1> QED
  BY <1>1, <1>2, <1>3, <1>r, <1>s, <1>4, <1>5, <1>7, <1>8, <1>9, <1>10 DEF Next

\* The states have their shapes, and a processor never pays more orders at once
\* than WORKER_COUNT: the channel workerLimiter has that many places.
THEOREM TypeCorrect == Spec => []TypeOK
<1>1. TypeInv => TypeOK
  BY DEF TypeInv
<1> QED BY TypeAtStart, TypeStep, <1>1, PTL DEF Spec

-----------------------------------------------------------------------------
(* Payments and their causes.                                              *)

\* What a processor has received and not ended, and who has an order.
Held(p) == waiting[p] \cup Working(p)
Holders(o) == {p \in Processors : o \in Held(p)}

\* p has the newest receipt of an order it holds, and the order is still hidden.
Current(p, o) == queue[o] = "hidden" /\ receipt[o] = {p} /\ o \in Held(p)

\* The batch of p will be worked off in the given ticks: the payments under way,
\* and the orders that wait.  Of its workers, the late ones, which have more left
\* than the rest of this round, pay one order less than there are rounds.
OnTime(p, ticks) ==
    /\ \A o \in Working(p) : left[p][o] <= ticks
    /\ waiting[p] # {} =>
          \E rounds \in Nat \ {0}, rest \in 0 .. Payment + Slack, Late \in SUBSET Working(p) :
              /\ rounds * (Payment + Slack) + rest <= ticks
              /\ \A o \in Working(p) \ Late : left[p][o] <= rest
              /\ Cardinality(waiting[p]) + Cardinality(Late) <= workers[p] * rounds

AllTimely == \A p \in Processors : Timely(p)

\* A processor ends what it holds before the receipts run out.
TimeInv ==
    AllTimely => \A p \in Processors, o \in Orders :
        Current(p, o) => OnTime(p, hiddenFor[o] - 1)

\* Nobody is about to pay the order by its newest receipt, and it is not deleted:
\* somebody will receive it.
Spare(o) ==
    \/ queue[o] \in {"unsent", "visible"}
    \/ queue[o] = "hidden" /\ \A p \in Processors : ~Current(p, o)

\* The payments of an order that were made, that will be made by those who hold
\* it, and one by who is still to receive it, are one and one for each fault.
CostInv ==
    /\ \A o \in Orders : IsFiniteSet(Holders(o))
    /\ AllTimely => \A o \in Orders :
          paid[o] + Cardinality(Holders(o)) + (IF Spare(o) THEN 1 ELSE 0) <= 1 + faults

\* What division rounds off is less than the divisor.
LEMMA Division ==
    ASSUME NEW a \in Nat, NEW k \in Nat \ {0}
    PROVE  a \div k \in Int /\ k * (a \div k) <= a /\ a < k * (a \div k) + k
OBVIOUS

\* So many rounds are enough for a batch.
LEMMA RoundsAreEnough ==
    ASSUME TypeInv, NEW p \in Processors
    PROVE  Rounds(p) \in Nat \ {0} /\ asked <= workers[p] * Rounds(p)
<1>1. PICK k \in Nat \ {0} : k = workers[p]
  BY Facts
<1>2. PICK b \in Nat \ {0} : b = asked
  BY Facts
<1>3. PICK r : r = (b + k - 1) \div k
  OBVIOUS
<1>4. r \in Int /\ k * r <= b + k - 1 /\ b + k - 1 < k * r + k
  <2>1. PICK a \in Nat : a = b + k - 1
    BY <1>1, <1>2
  <2> QED BY <1>1, <1>3, <2>1, Division
<1>5. b <= k * r
  BY <1>1, <1>2, <1>4
<1>6. r > 0
  <2>1. r <= 0 => k * r <= 0
    BY <1>1, <1>4
  <2> QED BY <1>2, <1>4, <1>5, <2>1
<1> QED BY <1>1, <1>2, <1>3, <1>4, <1>5, <1>6 DEF Rounds

\* A processor nothing happened to is on time as before.
LEMMA OnTimeKept ==
    ASSUME NEW p \in Processors, NEW ticks, OnTime(p, ticks),
           workers' = workers, waiting'[p] = waiting[p], left'[p] = left[p]
    PROVE  OnTime(p, ticks)'
BY DEF OnTime, Working

\* With a fresh batch a processor has the visibility timeout before it.
LEMMA OnTimeReceiving ==
    ASSUME TypeInv, NEW p \in Processors, Timely(p), workers' = workers,
           Working(p)' = {}, IsFiniteSet(waiting'[p]), Cardinality(waiting'[p]) <= asked
    PROVE  OnTime(p, Visibility - 1)'
<1>1. PICK r \in Nat \ {0} : r = Rounds(p)
  BY RoundsAreEnough
<1>2. r * (Payment + Slack) + 0 <= Visibility - 1 /\ 0 \in 0 .. Payment + Slack
  BY <1>1, Constants DEF Timely
<1>3. Cardinality(waiting'[p]) + Cardinality({}) <= workers'[p] * r
  BY <1>1, RoundsAreEnough, FS_EmptySet, FS_CardinalityType, Constants, Facts
<1>4. {} \in SUBSET Working(p)' /\ \A o \in Working(p)' \ {} : left'[p][o] <= 0
  OBVIOUS
<1> QED BY <1>2, <1>3, <1>4 DEF OnTime

\* An order that is started makes its worker a late one.
LEMMA OnTimeStarting ==
    ASSUME TypeInv, NEW p \in Processors, NEW o \in Orders, Start(p, o),
           NEW ticks \in Nat, OnTime(p, ticks)
    PROVE  OnTime(p, ticks)'
<1>1. /\ o \in waiting[p] /\ o \notin Working(p) /\ Working(p)' = Working(p) \cup {o}
      /\ waiting'[p] = waiting[p] \ {o} /\ workers' = workers
      /\ left'[p][o] \in 0 .. Payment + Slack
      /\ \A w \in Working(p) : left'[p][w] = left[p][w]
  BY StartView, Constants DEF TypeInv, TypeOK
<1>2. PICK rounds \in Nat \ {0}, rest \in 0 .. Payment + Slack, Late \in SUBSET Working(p) :
         /\ rounds * (Payment + Slack) + rest <= ticks
         /\ \A w \in Working(p) \ Late : left[p][w] <= rest
         /\ Cardinality(waiting[p]) + Cardinality(Late) <= workers[p] * rounds
  BY <1>1 DEF OnTime
<1>3. left'[p][o] <= ticks
  <2>1. Payment + Slack <= rounds * (Payment + Slack)
    BY <1>2, Constants
  <2> QED BY <1>1, <1>2, <2>1, Constants
<1>4. \A w \in Working(p)' : left'[p][w] <= ticks
  BY <1>1, <1>3 DEF OnTime
<1>5. Late \cup {o} \in SUBSET Working(p)'
  BY <1>1, <1>2
<1>6. \A w \in Working(p)' \ (Late \cup {o}) : left'[p][w] <= rest
  BY <1>1, <1>2
<1>7. Cardinality(waiting'[p]) + Cardinality(Late \cup {o}) <= workers'[p] * rounds
  <2>1. Cardinality(waiting'[p]) = Cardinality(waiting[p]) - 1
    <3>1. IsFiniteSet(waiting[p])
      BY Facts
    <3>2. o \in waiting[p] /\ waiting'[p] = waiting[p] \ {o}
      BY <1>1
    <3>3. Cardinality(waiting[p] \ {o}) = Cardinality(waiting[p]) - 1
      BY <3>1, <3>2, FS_RemoveElement
    <3> QED BY <3>2, <3>3
  <2>2. IsFiniteSet(Late) /\ o \notin Late
    BY <1>1, <1>2, Facts, FS_Subset
  <2>3. Cardinality(Late \cup {o}) = Cardinality(Late) + 1
    BY <2>2, FS_AddElement
  <2>4. Cardinality(waiting[p]) \in Nat /\ Cardinality(Late) \in Nat
    BY <2>2, FS_CardinalityType, Facts
  <2> QED BY <1>1, <1>2, <2>1, <2>3, <2>4, Facts
<1> QED BY <1>2, <1>4, <1>5, <1>6, <1>7 DEF OnTime

\* A message that is skipped takes no worker's time.
LEMMA OnTimeSkipping ==
    ASSUME TypeInv, NEW p \in Processors, NEW o \in waiting[p], left' = left,
           workers' = workers, waiting'[p] = waiting[p] \ {o}, NEW ticks \in Nat, OnTime(p, ticks)
    PROVE  OnTime(p, ticks)'
<1>1. PICK rounds \in Nat \ {0}, rest \in 0 .. Payment + Slack, Late \in SUBSET Working(p) :
         /\ rounds * (Payment + Slack) + rest <= ticks
         /\ \A w \in Working(p) \ Late : left[p][w] <= rest
         /\ Cardinality(waiting[p]) + Cardinality(Late) <= workers[p] * rounds
  BY DEF OnTime
<1>2. Working(p)' = Working(p)
  BY DEF Working
<1>3. Cardinality(waiting[p] \ {o}) = Cardinality(waiting[p]) - 1
  BY Facts, FS_RemoveElement
<1>4. Cardinality(waiting[p]) \in Nat /\ Cardinality(Late) \in Nat /\ workers[p] * rounds \in Nat
  <2>1. IsFiniteSet(Late)
    BY <1>1, Facts, FS_Subset
  <2>2. workers[p] * rounds \in Nat
    BY <1>1, Facts
  <2> QED BY <2>1, <2>2, Facts, FS_CardinalityType
<1>5. Cardinality(waiting'[p]) + Cardinality(Late) <= workers'[p] * rounds
  BY <1>1, <1>3, <1>4
<1>6. \A w \in Working(p)' : left'[p][w] <= ticks
  BY <1>2 DEF OnTime
<1>7. \A w \in Working(p)' \ Late : left'[p][w] <= rest
  BY <1>1, <1>2
<1>8. Late \in SUBSET Working(p)'
  BY <1>1, <1>2
<1> QED BY <1>1, <1>5, <1>6, <1>7, <1>8 DEF OnTime

\* A worker that ends is free for the next order.
LEMMA OnTimeEnding ==
    ASSUME TypeInv, NEW p \in Processors, NEW o \in Working(p), left' = Ending(p, o),
           workers' = workers, waiting' = waiting, NEW ticks \in Nat, OnTime(p, ticks)
    PROVE  OnTime(p, ticks)'
<1>1. /\ Working(p)' = Working(p) \ {o}
      /\ \A w \in Working(p)' : left'[p][w] = left[p][w]
  BY EndView
<1>2. \A w \in Working(p)' : left'[p][w] <= ticks
  BY <1>1 DEF OnTime
<1>3. CASE waiting[p] = {}
  BY <1>2, <1>3 DEF OnTime
<1>4. CASE waiting[p] # {}
  <2>1. PICK rounds \in Nat \ {0}, rest \in 0 .. Payment + Slack, Late \in SUBSET Working(p) :
           /\ rounds * (Payment + Slack) + rest <= ticks
           /\ \A w \in Working(p) \ Late : left[p][w] <= rest
           /\ Cardinality(waiting[p]) + Cardinality(Late) <= workers[p] * rounds
    BY <1>4 DEF OnTime
  <2>2. Late \ {o} \in SUBSET Working(p)'
    BY <1>1, <2>1
  <2>3. \A w \in Working(p)' \ (Late \ {o}) : left'[p][w] <= rest
    BY <1>1, <2>1
  <2>4. IsFiniteSet(Late) /\ Cardinality(Late) \in Nat /\ Cardinality(waiting[p]) \in Nat
    BY <2>1, Facts, FS_Subset, FS_CardinalityType
  <2>5. Cardinality(Late \ {o}) <= Cardinality(Late) /\ Cardinality(Late \ {o}) \in Nat
    BY <2>4, FS_Subset, FS_CardinalityType
  <2>6. Cardinality(waiting'[p]) + Cardinality(Late \ {o}) <= workers'[p] * rounds
    <3>1. workers[p] * rounds \in Nat
      BY <2>1, Facts
    <3> QED BY <2>1, <2>4, <2>5, <3>1
  <2> QED BY <1>2, <2>1, <2>2, <2>3, <2>6 DEF OnTime
<1> QED BY <1>3, <1>4

\* A second goes by: the round has one less left, or the next one has begun, in
\* which all workers are early again.
LEMMA OnTimeTicking ==
    ASSUME TypeInv, NEW p \in Processors, Tick, NEW ticks \in Nat \ {0}, OnTime(p, ticks)
    PROVE  OnTime(p, ticks - 1)'
<1>1. /\ waiting[p] # {} => Cardinality(Working(p)) = workers[p]
      /\ Working(p)' = Working(p) /\ waiting' = waiting /\ workers' = workers
      /\ \A o \in Working(p) : left[p][o] > 0 /\ left'[p][o] = left[p][o] - 1
  BY TickView
<1>2. \A o \in Working(p) : left[p][o] \in Nat /\ left[p][o] <= Payment + Slack
  BY Constants DEF TypeInv, TypeOK
<1>3. \A o \in Working(p)' : left'[p][o] <= ticks - 1
  BY <1>1, <1>2 DEF OnTime
<1>4. CASE waiting[p] = {}
  BY <1>1, <1>3, <1>4 DEF OnTime
<1>5. CASE waiting[p] # {}
  <2>1. PICK rounds \in Nat \ {0}, rest \in 0 .. Payment + Slack, Late \in SUBSET Working(p) :
           /\ rounds * (Payment + Slack) + rest <= ticks
           /\ \A o \in Working(p) \ Late : left[p][o] <= rest
           /\ Cardinality(waiting[p]) + Cardinality(Late) <= workers[p] * rounds
    BY <1>5 DEF OnTime
  <2>2. rest \in Nat /\ rounds * (Payment + Slack) \in Nat /\ Payment + Slack \in Nat \ {0}
    BY <2>1, Constants
  <2>3. CASE rest > 0
    <3>1. /\ rest - 1 \in 0 .. Payment + Slack
          /\ rounds * (Payment + Slack) + (rest - 1) <= ticks - 1
      BY <2>1, <2>2, <2>3
    <3>2. \A o \in Working(p)' \ Late : left'[p][o] <= rest - 1
      BY <1>1, <1>2, <2>1, <2>2
    <3> QED BY <1>1, <1>3, <2>1, <3>1, <3>2 DEF OnTime
  <2>4. CASE rest = 0
    <3>1. Late = Working(p)
      <4>1. \A o \in Working(p) : o \in Late
        BY <1>1, <1>2, <2>1, <2>4
      <4> QED BY <2>1, <4>1
    <3>2. PICK n \in Nat \ {0} : n = Cardinality(waiting[p])
      BY <1>5, Facts, FS_EmptySet
    <3>3. PICK k \in Nat \ {0} : k = workers[p]
      BY Facts
    <3>4. n + k <= k * rounds
      BY <1>1, <1>5, <2>1, <3>1, <3>2, <3>3
    <3>5. k * (rounds - 1) = k * rounds - k
      BY <2>1, <3>3
    <3>6. n <= k * (rounds - 1) /\ rounds - 1 \in Nat
      BY <2>1, <3>2, <3>3, <3>4, <3>5
    <3>7. rounds - 1 # 0
      BY <3>2, <3>3, <3>6
    <3>8. Cardinality(waiting'[p]) + Cardinality({}) <= workers'[p] * (rounds - 1)
      BY <1>1, <3>2, <3>3, <3>6, FS_EmptySet
    <3>9. PICK d \in Nat \ {0} : d = Payment + Slack
      BY Constants
    <3>10. (rounds - 1) * d + (d - 1) <= ticks - 1
      <4>1. (rounds - 1) * d = rounds * d - d
        BY <2>1, <3>9
      <4>2. rounds * d \in Nat /\ rounds * d <= ticks
        BY <2>1, <2>4, <3>9
      <4> QED BY <4>1, <4>2, <3>9
    <3>11. d - 1 \in 0 .. d
      BY <3>9
    <3>12. \A o \in Working(p)' \ {} : left'[p][o] <= d - 1
      BY <1>1, <1>2, <3>9
    <3> QED
      BY <1>3, <3>6, <3>7, <3>8, <3>9, <3>10, <3>11, <3>12 DEF OnTime
  <2> QED BY <2>2, <2>3, <2>4
<1> QED BY <1>4, <1>5

\* WORKER_COUNT is read once, and MaxNumberOfMessages is what it is.
LEMMA WorkersKept ==
    [Next]_vars => asked' = asked /\ workers' = workers /\ AllTimely' = AllTimely
<1> SUFFICES ASSUME [Next]_vars
             PROVE  asked' = asked /\ workers' = workers /\ AllTimely' = AllTimely
  OBVIOUS
<1>1. asked' = asked /\ workers' = workers
  BY DEF Next, vars, Publish, Redeliver, Receive, ReceiveFails, Crash, Start, Skip, Finish,
         DeleteFails, Tick
<1> QED BY <1>1 DEF AllTimely, Timely, Rounds

\* Receipts are newest only for a fresh batch; time is lost only to the clock.
LEMMA TimeStep == TypeInv /\ TimeInv /\ [Next]_vars => TimeInv'
<1> SUFFICES ASSUME TypeInv, TimeInv, [Next]_vars, AllTimely,
                    NEW q \in Processors, NEW x \in Orders, Current(q, x)'
             PROVE  OnTime(q, hiddenFor[x] - 1)'
  BY WorkersKept DEF TimeInv
<1> SUFFICES ASSUME NEW rest, rest = hiddenFor'[x] - 1
             PROVE  OnTime(q, rest)'
  BY DEF OnTime
<1>a. /\ queue'[x] = "hidden" /\ receipt'[x] = {q} /\ x \in waiting'[q] \cup Working(q)'
      /\ workers' = workers
  BY WorkersKept DEF Current, Held
<1>b. Current(q, x) => /\ hiddenFor[x] \in Nat \ {0}
                       /\ OnTime(q, hiddenFor[x] - 1)
  BY DEF TimeInv, Current, TypeInv, TypeOK
<1>c. ASSUME Current(q, x), hiddenFor'[x] = hiddenFor[x]
      PROVE  rest \in Nat /\ OnTime(q, rest)
  BY <1>b, <1>c
<1>1. ASSUME NEW o \in Orders, Publish(o) \/ Redeliver(o)
      PROVE  OnTime(q, rest)'
  <2>1. /\ UNCHANGED <<receipt, waiting, left>> /\ queue' = [queue EXCEPT ![o] = "visible"]
        /\ \A y \in Orders : y # o => hiddenFor'[y] = hiddenFor[y]
    BY <1>1 DEF Publish, Redeliver, taskVars, TypeInv, TypeOK
  <2>2. x # o
    BY <1>a, <2>1 DEF TypeInv, TypeOK
  <2>3. Current(q, x) /\ hiddenFor'[x] = hiddenFor[x]
    BY <1>a, <2>1, <2>2 DEF Current, Held, Working, TypeInv, TypeOK
  <2> QED BY <1>a, <1>c, <2>1, <2>3, OnTimeKept
<1>2. ASSUME NEW p \in Processors, Receive(p)
      PROVE  OnTime(q, rest)'
  <2>1. PICK batch \in Batches :
           Hide(batch, {p}) /\ waiting' = [waiting EXCEPT ![p] = batch]
    BY <1>2 DEF Receive
  <2>2. Working(p) = {} /\ waiting[p] = {} /\ UNCHANGED left
    BY <1>2 DEF Receive, Ready, Idle
  <2>a. /\ queue'[x] = IF x \in batch THEN "hidden" ELSE queue[x]
        /\ hiddenFor'[x] = IF x \in batch THEN Visibility ELSE hiddenFor[x]
        /\ receipt'[x] = IF x \in batch THEN {p} ELSE receipt[x]
        /\ IsFiniteSet(batch) /\ Cardinality(batch) <= asked
    BY <2>1, HideView
  <2>3. CASE q = p
    <3>1. waiting'[q] = batch /\ Working(q)' = {}
      BY <2>1, <2>2, <2>3 DEF Working, TypeInv, TypeOK
    <3>2. x \in batch
      BY <1>a, <3>1
    <3>3. rest = Visibility - 1
      BY <2>a, <3>2
    <3>4. IsFiniteSet(waiting'[q]) /\ Cardinality(waiting'[q]) <= asked
      BY <2>a, <3>1
    <3> QED BY <1>a, <3>1, <3>3, <3>4, OnTimeReceiving DEF AllTimely
  <2>4. CASE q # p
    <3>1. x \notin batch
      BY <1>a, <2>a, <2>4
    <3>2. waiting'[q] = waiting[q] /\ left'[q] = left[q]
      BY <2>1, <2>2, <2>4 DEF TypeInv, TypeOK
    <3>3. Current(q, x) /\ hiddenFor'[x] = hiddenFor[x]
      BY <1>a, <2>a, <3>1, <3>2 DEF Current, Held, Working
    <3> QED BY <1>a, <1>c, <3>2, <3>3, OnTimeKept
  <2> QED BY <2>3, <2>4
<1>r. ASSUME NEW p \in Processors, ReceiveFails(p)
      PROVE  OnTime(q, rest)'
  <2>1. UNCHANGED <<waiting, left>>
    BY <1>r DEF ReceiveFails
  <2>2. queue'[x] = queue[x] /\ hiddenFor'[x] = hiddenFor[x] /\ receipt'[x] = receipt[x]
    <3>1. CASE UNCHANGED queueVars
      BY <3>1
    <3>2. ASSUME NEW batch \in Batches, Hide(batch, {})
          PROVE  queue'[x] = queue[x] /\ hiddenFor'[x] = hiddenFor[x] /\ receipt'[x] = receipt[x]
      <4>1. x \notin batch
        BY <1>a, <3>2, HideView
      <4> QED BY <3>2, <4>1, HideView
    <3> QED BY <1>r, <3>1, <3>2 DEF ReceiveFails
  <2>3. Current(q, x) /\ hiddenFor'[x] = hiddenFor[x]
    BY <1>a, <2>1, <2>2 DEF Current, Held, Working
  <2> QED BY <1>a, <1>c, <2>1, <2>3, OnTimeKept
<1>3. ASSUME NEW p \in Processors, Crash(p)
      PROVE  OnTime(q, rest)'
  <2>1. /\ waiting' = [waiting EXCEPT ![p] = {}] /\ left' = [left EXCEPT ![p] = <<>>]
        /\ UNCHANGED <<queue, hiddenFor, receipt>>
    BY <1>3 DEF Crash, queueVars
  <2>2. q # p
    <3>1. waiting'[p] = {} /\ Working(p)' = {}
      BY <2>1 DEF Working, TypeInv, TypeOK
    <3> QED BY <1>a, <3>1
  <2>3. waiting'[q] = waiting[q] /\ left'[q] = left[q]
    BY <2>1, <2>2 DEF TypeInv, TypeOK
  <2>4. Current(q, x) /\ hiddenFor'[x] = hiddenFor[x]
    BY <1>a, <2>1, <2>3 DEF Current, Held, Working
  <2> QED BY <1>a, <1>c, <2>3, <2>4, OnTimeKept
<1>4. ASSUME NEW p \in Processors, NEW o \in Orders, Start(p, o)
      PROVE  OnTime(q, rest)'
  <2>1. /\ UNCHANGED <<queue, hiddenFor, receipt>>
        /\ o \in waiting[p] /\ waiting'[p] = waiting[p] \ {o} /\ Working(p)' = Working(p) \cup {o}
        /\ q # p => waiting'[q] = waiting[q] /\ left'[q] = left[q]
    BY <1>4, StartView DEF TypeInv, TypeOK
  <2>2. Current(q, x) /\ hiddenFor'[x] = hiddenFor[x]
    BY <1>a, <2>1 DEF Current, Held, Working
  <2>3. CASE q = p
    BY <1>4, <1>c, <2>2, <2>3, OnTimeStarting
  <2>4. CASE q # p
    BY <1>a, <1>c, <2>1, <2>2, <2>4, OnTimeKept
  <2> QED BY <2>3, <2>4
<1>s. ASSUME NEW p \in Processors, NEW o \in Orders, Skip(p, o)
      PROVE  OnTime(q, rest)'
  <2>1. /\ waiting' = [waiting EXCEPT ![p] = @ \ {o}] /\ o \in waiting[p]
        /\ UNCHANGED <<left, queue, hiddenFor, receipt>>
    BY <1>s DEF Skip
  <2>2. Current(q, x) /\ hiddenFor'[x] = hiddenFor[x] /\ Working(q)' = Working(q)
    BY <1>a, <2>1 DEF Current, Held, Working, TypeInv, TypeOK
  <2>3. CASE q = p
    <3>1. waiting'[p] = waiting[p] \ {o}
      BY <2>1 DEF TypeInv, TypeOK
    <3> QED BY <1>a, <1>c, <2>1, <2>2, <2>3, <3>1, OnTimeSkipping
  <2>4. CASE q # p
    <3>1. waiting'[q] = waiting[q] /\ left'[q] = left[q]
      BY <2>1, <2>4 DEF TypeInv, TypeOK
    <3> QED BY <1>a, <1>c, <2>2, <3>1, OnTimeKept
  <2> QED BY <2>3, <2>4
<1>5. ASSUME NEW p \in Processors, NEW o \in Working(p), left' = Ending(p, o), waiting' = waiting,
             queue'[x] = queue[x], hiddenFor'[x] = hiddenFor[x], receipt'[x] = receipt[x]
      PROVE  OnTime(q, rest)'
  <2>1. Working(p)' = Working(p) \ {o} /\ (q # p => left'[q] = left[q])
    BY <1>5, EndView
  <2>2. Current(q, x)
    BY <1>a, <1>5, <2>1 DEF Current, Held, Working
  <2>3. CASE q = p
    BY <1>a, <1>5, <1>c, <2>2, <2>3, OnTimeEnding
  <2>4. CASE q # p
    BY <1>a, <1>5, <1>c, <2>1, <2>2, <2>4, OnTimeKept
  <2> QED BY <2>3, <2>4
<1>6. ASSUME NEW p \in Processors, NEW o \in Orders, Finish(p, o)
      PROVE  OnTime(q, rest)'
  <2>1. o \in Working(p) /\ left' = Ending(p, o) /\ waiting' = waiting
    BY <1>6 DEF Finish
  <2>2. queue'[x] = queue[x] /\ hiddenFor'[x] = hiddenFor[x] /\ receipt'[x] = receipt[x]
    BY <1>a, <1>6, DeletionView DEF TypeInv, TypeOK
  <2> QED BY <1>5, <2>1, <2>2
<1>7. ASSUME NEW p \in Processors, NEW o \in Orders, DeleteFails(p, o)
      PROVE  OnTime(q, rest)'
  <2>1. /\ o \in Working(p) /\ left' = Ending(p, o) /\ waiting' = waiting
        /\ UNCHANGED <<queue, hiddenFor, receipt>>
    BY <1>7 DEF DeleteFails, queueVars
  <2> QED BY <1>5, <2>1
<1>8. CASE Tick
  <2>1. /\ queue'[x] = IF hiddenFor[x] = 1 THEN "visible" ELSE queue[x]
        /\ hiddenFor'[x] = IF hiddenFor[x] > 0 THEN hiddenFor[x] - 1 ELSE 0
        /\ receipt' = receipt /\ waiting' = waiting /\ Working(q)' = Working(q)
    BY <1>8, TickView
  <2>2. Current(q, x) /\ hiddenFor[x] # 1
    BY <1>a, <2>1 DEF Current, Held
  <2>3. PICK ticks \in Nat \ {0} : ticks = hiddenFor[x] - 1
    BY <1>b, <2>2
  <2>4. OnTime(q, ticks) /\ rest = ticks - 1
    BY <1>b, <2>1, <2>2, <2>3
  <2> QED BY <1>8, <2>4, OnTimeTicking
<1>9. CASE UNCHANGED vars
  <2>1. UNCHANGED <<workers, queue, hiddenFor, receipt, waiting, left>>
    BY <1>9 DEF vars, queueVars, taskVars
  <2>2. Current(q, x)
    BY <1>a, <2>1 DEF Current, Held, Working
  <2> QED BY <1>c, <2>1, <2>2, OnTimeKept
<1> QED
  BY <1>1, <1>2, <1>r, <1>3, <1>4, <1>s, <1>6, <1>7, <1>8, <1>9 DEF Next

\* The cost of an order for which nothing was paid for or taken.
CostOf(o) ==
    /\ IsFiniteSet(Holders(o))
    /\ AllTimely =>
          paid[o] + Cardinality(Holders(o)) + (IF Spare(o) THEN 1 ELSE 0) <= 1 + faults

LEMMA CostKept ==
    ASSUME TypeInv, NEW x \in Orders, CostOf(x), [Next]_vars,
           paid'[x] = paid[x], faults' \in Nat, faults' >= faults,
           \A q \in Processors : x \in Held(q)' <=> x \in Held(q),
           queue'[x] = queue[x], receipt'[x] = receipt[x]
    PROVE  CostOf(x)'
<1>1. Holders(x)' = Holders(x)
  BY DEF Holders
<1>2. Spare(x)' = Spare(x)
  BY DEF Spare, Current
<1>3. PICK h : h = Cardinality(Holders(x))
  OBVIOUS
<1>4. IsFiniteSet(Holders(x)) /\ h \in Nat
  BY <1>3, FS_CardinalityType DEF CostOf
<1>5. AllTimely => paid[x] + h + (IF Spare(x) THEN 1 ELSE 0) <= 1 + faults
  BY <1>3 DEF CostOf
<1>6. paid[x] \in Nat /\ faults \in Nat
  BY Facts
<1>7. AllTimely' => paid'[x] + h + (IF Spare(x) THEN 1 ELSE 0) <= 1 + faults'
  <2>1. PICK due \in {0, 1} : due = IF Spare(x) THEN 1 ELSE 0
    OBVIOUS
  <2>2. AllTimely' => paid[x] + h + due <= 1 + faults
    BY <1>5, <2>1, WorkersKept
  <2> QED BY <1>4, <1>6, <2>1, <2>2
<1>8. IsFiniteSet(Holders(x))' /\ Cardinality(Holders(x))' = h
  BY <1>1, <1>3, <1>4
<1> QED BY <1>2, <1>7, <1>8 DEF CostOf

\* p lets go of x: at most one payment was made and at most one is due again, and
\* both only for a fault.  If none was made, one may be due.
LEMMA CostLetGo ==
    ASSUME TypeInv, NEW x \in Orders, CostOf(x), [Next]_vars, NEW p \in Processors,
           x \in Held(p), x \notin Held(p)',
           \A q \in Processors : q # p => (x \in Held(q)' <=> x \in Held(q)),
           faults' \in Nat, paid'[x] \in {paid[x], paid[x] + 1},
           \/ faults' = faults + 1
           \/ faults' = faults /\ (Spare(x)' => Spare(x))
           \/ faults' = faults /\ paid'[x] = paid[x]
    PROVE  CostOf(x)'
<1>1. Holders(x)' = Holders(x) \ {p} /\ p \in Holders(x)
  BY DEF Holders
<1>2. PICK h : h = Cardinality(Holders(x))
  OBVIOUS
<1>3. IsFiniteSet(Holders(x)) /\ h \in Nat
  BY <1>2, FS_CardinalityType DEF CostOf
<1>4. IsFiniteSet(Holders(x) \ {p}) /\ Cardinality(Holders(x) \ {p}) = h - 1
  BY <1>1, <1>2, <1>3, FS_RemoveElement
<1>5. IsFiniteSet(Holders(x))' /\ Cardinality(Holders(x))' = h - 1
  BY <1>1, <1>4
<1>6. AllTimely => paid[x] + h + (IF Spare(x) THEN 1 ELSE 0) <= 1 + faults
  BY <1>2 DEF CostOf
<1>7. paid[x] \in Nat /\ faults \in Nat
  BY Facts
<1>8. AllTimely' => paid'[x] + (h - 1) + (IF Spare(x)' THEN 1 ELSE 0) <= 1 + faults'
  <2>1. PICK new \in {0, 1} : new = IF Spare(x)' THEN 1 ELSE 0
    OBVIOUS
  <2>2. PICK old \in {0, 1} : old = IF Spare(x) THEN 1 ELSE 0
    OBVIOUS
  <2>3. AllTimely' => paid[x] + h + old <= 1 + faults
    BY <1>6, <2>2, WorkersKept
  <2>4. \/ faults' = faults + 1
        \/ faults' = faults /\ new <= old
        \/ faults' = faults /\ paid'[x] = paid[x]
    BY <2>1, <2>2
  <2>5. AllTimely' => paid'[x] + (h - 1) + new <= 1 + faults'
    BY <1>3, <1>7, <2>3, <2>4
  <2> QED BY <2>1, <2>5
<1> QED BY <1>5, <1>8 DEF CostOf

\* Every payment of an order beyond the first is charged to a fault of its own.
LEMMA CostStep == TypeInv /\ TimeInv /\ CostInv /\ [Next]_vars => CostInv'
<1> SUFFICES ASSUME TypeInv, TimeInv, CostInv, [Next]_vars, NEW x \in Orders
             PROVE  CostOf(x)'
  BY DEF CostInv, CostOf
<1>a. CostOf(x) /\ faults \in Nat /\ paid[x] \in Nat
  BY Facts DEF CostInv, CostOf
<1>1. ASSUME NEW o \in Orders, Publish(o)
      PROVE  CostOf(x)'
  <2>1. /\ UNCHANGED <<receipt, waiting, left, paid, faults>> /\ queue[o] = "unsent"
        /\ queue' = [queue EXCEPT ![o] = "visible"]
    BY <1>1 DEF Publish, taskVars
  <2>2. \A q \in Processors : Held(q)' = Held(q)
    BY <2>1 DEF Held, Working
  <2>3. CASE x # o
    <3>1. queue'[x] = queue[x]
      BY <2>1, <2>3 DEF TypeInv, TypeOK
    <3> QED BY <1>a, <2>1, <2>2, <3>1, CostKept
  <2>4. CASE x = o
    <3>1. Spare(x) /\ Spare(x)'
      BY <2>1, <2>4 DEF Spare, TypeInv, TypeOK
    <3>2. Holders(x)' = Holders(x)
      BY <2>2 DEF Holders
    <3> QED BY <1>a, <2>1, <3>1, <3>2, WorkersKept DEF CostOf
  <2> QED BY <2>3, <2>4
<1>2. ASSUME NEW o \in Orders, Redeliver(o)
      PROVE  CostOf(x)'
  <2>1. /\ UNCHANGED <<receipt, waiting, left, paid>> /\ faults' = faults + 1
        /\ queue' = [queue EXCEPT ![o] = "visible"]
    BY <1>2 DEF Redeliver, Fault, taskVars
  <2>2. \A q \in Processors : Held(q)' = Held(q)
    BY <2>1 DEF Held, Working
  <2>3. CASE x # o
    <3>1. queue'[x] = queue[x]
      BY <2>1, <2>3 DEF TypeInv, TypeOK
    <3> QED BY <1>a, <2>1, <2>2, <3>1, CostKept
  <2>4. CASE x = o
    <3>1. Holders(x)' = Holders(x)
      BY <2>2 DEF Holders
    <3>2. PICK h \in Nat : h = Cardinality(Holders(x))
      BY <1>a, FS_CardinalityType DEF CostOf
    <3>3. AllTimely => paid[x] + h <= 1 + faults
      BY <1>a, <3>2 DEF CostOf
    <3>4. AllTimely' => paid'[x] + h + (IF Spare(x)' THEN 1 ELSE 0) <= 1 + faults'
      <4>1. PICK due \in {0, 1} : due = IF Spare(x)' THEN 1 ELSE 0
        OBVIOUS
      <4>2. AllTimely' => paid[x] + h <= 1 + faults
        BY <3>3, WorkersKept
      <4>3. AllTimely' => paid[x] + h + due <= 1 + faults'
        BY <1>a, <2>1, <3>2, <4>2
      <4> QED BY <2>1, <4>1, <4>3
    <3> QED BY <1>a, <3>1, <3>2, <3>4 DEF CostOf
  <2> QED BY <2>3, <2>4
<1>3. ASSUME NEW p \in Processors, Receive(p)
      PROVE  CostOf(x)'
  <2>a. PICK batch \in Batches :
           Hide(batch, {p}) /\ waiting' = [waiting EXCEPT ![p] = batch]
    BY <1>3 DEF Receive
  <2>1. /\ queue'[x] = IF x \in batch THEN "hidden" ELSE queue[x]
        /\ receipt'[x] = IF x \in batch THEN {p} ELSE receipt[x]
        /\ x \in batch => queue[x] = "visible"
    BY <2>a, HideView
  <2>2. /\ Held(p) = {} /\ Held(p)' = batch /\ UNCHANGED <<paid, faults>>
        /\ \A q \in Processors : q # p => Held(q)' = Held(q)
    BY <1>3, <2>a DEF Receive, Ready, Idle, Held, Working, TypeInv, TypeOK
  <2>3. CASE x \notin batch
    <3>1. queue'[x] = queue[x] /\ receipt'[x] = receipt[x]
      BY <2>1, <2>3
    <3>2. \A q \in Processors : x \in Held(q)' <=> x \in Held(q)
      BY <2>2, <2>3
    <3> QED BY <1>a, <2>2, <3>1, <3>2, CostKept
  <2>4. CASE x \in batch
    <3>1. Spare(x)
      BY <2>1, <2>4 DEF Spare
    <3>2. ~Spare(x)'
      <4>1. queue'[x] = "hidden" /\ receipt'[x] = {p} /\ x \in Held(p)'
        BY <2>1, <2>2, <2>4
      <4>2. Current(p, x)'
        BY <4>1 DEF Current
      <4> QED BY <4>1, <4>2 DEF Spare
    <3>3. Holders(x)' = Holders(x) \cup {p} /\ p \notin Holders(x)
      BY <2>2, <2>4 DEF Holders
    <3>4. PICK h \in Nat : h = Cardinality(Holders(x))
      BY <1>a, FS_CardinalityType DEF CostOf
    <3>5. IsFiniteSet(Holders(x) \cup {p}) /\ Cardinality(Holders(x) \cup {p}) = h + 1
      BY <1>a, <3>3, <3>4, FS_AddElement DEF CostOf
    <3>6. AllTimely => paid[x] + h + 1 <= 1 + faults
      BY <1>a, <3>1, <3>4 DEF CostOf
    <3>7. AllTimely' => paid'[x] + (h + 1) + 0 <= 1 + faults'
      <4>1. AllTimely' => paid[x] + h + 1 <= 1 + faults
        BY <3>6, WorkersKept
      <4> QED BY <1>a, <2>2, <3>4, <4>1
    <3>8. IsFiniteSet(Holders(x))' /\ Cardinality(Holders(x))' = h + 1
      BY <3>3, <3>5
    <3> QED BY <3>2, <3>7, <3>8 DEF CostOf
  <2> QED BY <2>3, <2>4
<1>r. ASSUME NEW p \in Processors, ReceiveFails(p)
      PROVE  CostOf(x)'
  <2>1. /\ UNCHANGED <<waiting, left, paid>> /\ faults' \in Nat /\ faults' >= faults
        /\ \A q \in Processors : Held(q)' = Held(q)
    BY <1>a, <1>r DEF ReceiveFails, Fault, Held, Working
  <2>2. CASE queue'[x] = queue[x] /\ receipt'[x] = receipt[x]
    BY <1>a, <2>1, <2>2, CostKept
  <2>3. ASSUME NEW batch \in Batches, Hide(batch, {}), x \in batch
        PROVE  CostOf(x)'
    <3>1. queue[x] = "visible" /\ queue'[x] = "hidden" /\ receipt'[x] = {}
      BY <2>3, HideView
    <3>2. Spare(x) /\ Spare(x)'
      BY <3>1 DEF Spare, Current
    <3>3. Holders(x)' = Holders(x)
      BY <2>1 DEF Holders
    <3>4. PICK h \in Nat : h = Cardinality(Holders(x))
      BY <1>a, FS_CardinalityType DEF CostOf
    <3>5. AllTimely => paid[x] + h + 1 <= 1 + faults
      BY <1>a, <3>2, <3>4 DEF CostOf
    <3>6. AllTimely' => paid'[x] + h + 1 <= 1 + faults'
      <4>1. AllTimely' => paid[x] + h + 1 <= 1 + faults
        BY <3>5, WorkersKept
      <4> QED BY <1>a, <2>1, <3>4, <4>1
    <3> QED BY <1>a, <3>2, <3>3, <3>4, <3>6 DEF CostOf
  <2>4. ASSUME NEW batch \in Batches, Hide(batch, {}), x \notin batch
        PROVE  queue'[x] = queue[x] /\ receipt'[x] = receipt[x]
    BY <2>4, HideView
  <2> QED BY <1>r, <2>2, <2>3, <2>4 DEF ReceiveFails
<1>s. ASSUME NEW p \in Processors, NEW o \in Orders, Skip(p, o)
      PROVE  CostOf(x)'
  <2>1. /\ waiting' = [waiting EXCEPT ![p] = @ \ {o}] /\ o \in waiting[p]
        /\ UNCHANGED <<queue, receipt, left, paid, faults>>
    BY <1>s DEF Skip
  <2>2. /\ o \in Held(p) /\ Held(p)' = Held(p) \ {o}
        /\ \A q \in Processors : q # p => Held(q)' = Held(q)
    BY <2>1, Facts DEF Held, Working, TypeInv, TypeOK
  <2>3. CASE x = o
    BY <1>a, <2>1, <2>2, <2>3, CostLetGo
  <2>4. CASE x # o
    <3>1. \A q \in Processors : x \in Held(q)' <=> x \in Held(q)
      BY <2>2, <2>4
    <3> QED BY <1>a, <2>1, <3>1, CostKept
  <2> QED BY <2>3, <2>4
<1>4. ASSUME NEW p \in Processors, Crash(p)
      PROVE  CostOf(x)'
  <2>1. /\ waiting' = [waiting EXCEPT ![p] = {}] /\ left' = [left EXCEPT ![p] = <<>>]
        /\ UNCHANGED <<queue, receipt, paid>> /\ faults' = faults + 1
    BY <1>4 DEF Crash, Fault, queueVars
  <2>2. Held(p)' = {} /\ \A q \in Processors : q # p => Held(q)' = Held(q)
    BY <2>1 DEF Held, Working, TypeInv, TypeOK
  <2>3. CASE x \in Held(p)
    BY <1>a, <2>1, <2>2, <2>3, CostLetGo
  <2>4. CASE x \notin Held(p)
    <3>1. \A q \in Processors : x \in Held(q)' <=> x \in Held(q)
      BY <2>2, <2>4
    <3> QED BY <1>a, <2>1, <3>1, CostKept
  <2> QED BY <2>3, <2>4
<1>5. ASSUME NEW p \in Processors, NEW o \in Orders, Start(p, o)
      PROVE  CostOf(x)'
  <2>1. UNCHANGED <<queue, receipt, paid, faults>>
    BY <1>5, StartView
  <2>2. \A q \in Processors : Held(q)' = Held(q)
    BY <1>5, StartView DEF Held, Working, TypeInv, TypeOK
  <2> QED BY <1>a, <2>1, <2>2, CostKept
<1>6. ASSUME NEW p \in Processors, NEW o \in Working(p), left' = Ending(p, o), waiting' = waiting
      PROVE  /\ o \in Held(p) /\ o \in Orders /\ Held(p)' = Held(p) \ {o}
             /\ \A q \in Processors : q # p => Held(q)' = Held(q)
  BY <1>6, EndView, Facts DEF Held, Working
<1>7. ASSUME NEW p \in Processors, NEW o \in Orders, Finish(p, o)
      PROVE  CostOf(x)'
  <2>1. /\ o \in Working(p) /\ left' = Ending(p, o) /\ UNCHANGED <<waiting, faults>>
        /\ paid' = [paid EXCEPT ![o] = @ + 1]
    BY <1>7 DEF Finish
  <2>2. /\ o \in Held(p) /\ Held(p)' = Held(p) \ {o}
        /\ \A q \in Processors : q # p => Held(q)' = Held(q)
    BY <1>6, <2>1
  <2>3. CASE x = o
    <3>1. Spare(x)' => Spare(x)
      <4>1. CASE queue'[x] = "deleted"
        BY <4>1 DEF Spare
      <4>2. CASE receipt[x] # {p} /\ UNCHANGED <<queue, receipt>>
        <5>1. \A q \in Processors : Current(q, x) => Current(q, x)'
          BY <2>2, <4>2 DEF Current
        <5> QED BY <4>2, <5>1 DEF Spare
      <4> QED BY <1>7, <2>3, <4>1, <4>2, DeletionView DEF TypeInv, TypeOK
    <3>2. paid'[x] = paid[x] + 1
      BY <2>1, <2>3 DEF TypeInv, TypeOK
    <3> QED BY <1>a, <2>1, <2>2, <2>3, <3>1, <3>2, CostLetGo
  <2>4. CASE x # o
    <3>1. queue'[x] = queue[x] /\ receipt'[x] = receipt[x] /\ paid'[x] = paid[x]
      BY <1>7, <2>1, <2>4, DeletionView DEF TypeInv, TypeOK
    <3>2. \A q \in Processors : x \in Held(q)' <=> x \in Held(q)
      BY <2>2, <2>4
    <3> QED BY <1>a, <2>1, <3>1, <3>2, CostKept
  <2> QED BY <2>3, <2>4
<1>8. ASSUME NEW p \in Processors, NEW o \in Orders, DeleteFails(p, o)
      PROVE  CostOf(x)'
  <2>1. /\ o \in Working(p) /\ left' = Ending(p, o) /\ UNCHANGED <<queue, receipt, waiting>>
        /\ paid' = [paid EXCEPT ![o] = @ + 1] /\ faults' = faults + 1
    BY <1>8 DEF DeleteFails, Fault, queueVars
  <2>2. /\ o \in Held(p) /\ Held(p)' = Held(p) \ {o}
        /\ \A q \in Processors : q # p => Held(q)' = Held(q)
    BY <1>6, <2>1
  <2>3. CASE x = o
    <3>1. paid'[x] = paid[x] + 1
      BY <2>1, <2>3 DEF TypeInv, TypeOK
    <3> QED BY <1>a, <2>1, <2>2, <2>3, <3>1, CostLetGo
  <2>4. CASE x # o
    <3>1. paid'[x] = paid[x]
      BY <2>1, <2>4 DEF TypeInv, TypeOK
    <3>2. \A q \in Processors : x \in Held(q)' <=> x \in Held(q)
      BY <2>2, <2>4
    <3> QED BY <1>a, <2>1, <3>1, <3>2, CostKept
  <2> QED BY <2>3, <2>4
<1>9. CASE Tick
  <2>1. /\ \A q \in Processors : Held(q)' = Held(q)
        /\ queue'[x] = IF hiddenFor[x] = 1 THEN "visible" ELSE queue[x]
        /\ UNCHANGED <<receipt, paid, faults>>
    BY <1>9, TickView DEF Held
  <2>2. CASE hiddenFor[x] # 1
    BY <1>a, <2>1, <2>2, CostKept
  <2>3. CASE hiddenFor[x] = 1
    <3>1. queue[x] = "hidden" /\ queue'[x] = "visible"
      BY <2>1, <2>3 DEF TypeInv
    <3>2. AllTimely => \A q \in Processors : ~Current(q, x)
      <4> SUFFICES ASSUME AllTimely, NEW q \in Processors, Current(q, x)
                   PROVE  FALSE
        OBVIOUS
      <4>1. OnTime(q, 0)
        BY <2>3 DEF TimeInv
      <4>2. CASE x \in Working(q)
        <5>1. left[q][x] > 0 /\ left[q][x] \in Nat
          BY <1>9, <4>2, TickView, Facts
        <5> QED BY <4>1, <4>2, <5>1 DEF OnTime
      <4>3. CASE x \in waiting[q]
        <5>1. PICK rounds \in Nat \ {0}, rest \in 0 .. Payment + Slack :
                 rounds * (Payment + Slack) + rest <= 0
          BY <4>1, <4>3 DEF OnTime
        <5>2. PICK d \in Nat \ {0} : d = Payment + Slack
          BY Constants
        <5>3. rounds * d > 0
          BY <5>1, <5>2
        <5> QED BY <5>1, <5>2, <5>3
      <4> QED BY <4>2, <4>3 DEF Current, Held
    <3>3. AllTimely => Spare(x)
      BY <3>1, <3>2 DEF Spare
    <3>4. Spare(x)'
      BY <3>1 DEF Spare
    <3>5. Holders(x)' = Holders(x)
      BY <2>1 DEF Holders
    <3> QED BY <1>a, <2>1, <3>3, <3>4, <3>5, WorkersKept DEF CostOf
  <2> QED BY <2>2, <2>3
<1>10. CASE UNCHANGED vars
  <2>1. UNCHANGED <<queue, receipt, waiting, left, paid, faults>>
    BY <1>10 DEF vars, queueVars, taskVars
  <2>2. \A q \in Processors : Held(q)' = Held(q)
    BY <2>1 DEF Held, Working
  <2> QED BY <1>a, <2>1, <2>2, CostKept
<1> QED
  BY <1>1, <1>2, <1>3, <1>r, <1>s, <1>4, <1>5, <1>7, <1>8, <1>9, <1>10 DEF Next

\* Nothing is received or paid at the start, and one payment of each order is due.
LEMMA CostAtStart == Init => TimeInv /\ CostInv
<1> SUFFICES ASSUME Init PROVE TimeInv /\ CostInv
  OBVIOUS
<1>1. \A o \in Orders : queue[o] = "unsent" /\ paid[o] = 0 /\ faults = 0
  BY DEF Init
<1>2. \A o \in Orders : Holders(o) = {}
  BY DEF Init, Holders, Held, Working
<1>3. \A o \in Orders : IsFiniteSet(Holders(o)) /\ Cardinality(Holders(o)) = 0
  BY <1>2, FS_EmptySet
<1>4. TimeInv
  BY <1>1 DEF TimeInv, Current
<1> QED BY <1>1, <1>3, <1>4 DEF CostInv

\* When every processor can pay a full batch within the visibility timeout, an
\* order is paid a second time only for a failed deletion, a crash or an early
\* redelivery, each of which costs one payment at most.
THEOREM PaymentsAreCaused == Spec => []PaymentsHaveCause
<1> DEFINE IInv == TypeInv /\ TimeInv /\ CostInv
<1>1. Init => IInv
  BY TypeAtStart, CostAtStart
<1>2. IInv /\ [Next]_vars => IInv'
  BY TypeStep, TimeStep, CostStep
<1>3. IInv => PaymentsHaveCause
  <2> SUFFICES ASSUME IInv, AllTimely, NEW o \in Orders
               PROVE  paid[o] <= 1 + faults
    BY DEF PaymentsHaveCause, AllTimely
  <2>1. PICK h \in Nat : h = Cardinality(Holders(o))
    BY FS_CardinalityType DEF CostInv
  <2>2. paid[o] + h + (IF Spare(o) THEN 1 ELSE 0) <= 1 + faults
    BY <2>1 DEF CostInv
  <2>3. paid[o] \in Nat /\ faults \in Nat
    BY Facts
  <2> QED BY <2>2, <2>3
<1> HIDE DEF IInv
<1> QED BY <1>1, <1>2, <1>3, PTL DEF Spec

-----------------------------------------------------------------------------
(* What is asked for and not granted.                                      *)

\* The second half of EveryOrderLeaves, for one order: nothing comes of it.
Untouched(o) == queue[o] \in {"unsent", "visible"} /\ paid[o] = 0

\* Then no processor has anything, and nothing is hidden or paid.
RefusedInv ==
    ~Granted => /\ \A p \in Processors : Idle(p)
                /\ \A o \in Orders : Untouched(o)

LEMMA RefusedStep == TypeInv /\ RefusedInv /\ [Next]_vars => RefusedInv'
<1> SUFFICES ASSUME TypeInv, RefusedInv, [Next]_vars, ~Granted'
             PROVE  /\ \A p \in Processors : Idle(p)'
                    /\ \A o \in Orders : Untouched(o)'
  BY DEF RefusedInv
<1>a. /\ ~Granted
      /\ \A p \in Processors : waiting[p] = {} /\ Working(p) = {}
      /\ \A o \in Orders : queue[o] \in {"unsent", "visible"} /\ paid[o] = 0
  BY WorkersKept DEF Granted, RefusedInv, Idle, Untouched
<1>b. ASSUME UNCHANGED <<waiting, left, paid>>,
             \A o \in Orders : queue'[o] \in {queue[o], "visible"}
      PROVE  /\ \A p \in Processors : Idle(p)'
             /\ \A o \in Orders : Untouched(o)'
  BY <1>a, <1>b DEF Idle, Untouched, Working
<1>1. ASSUME NEW o \in Orders, Publish(o) \/ Redeliver(o)
      PROVE  UNCHANGED <<waiting, left, paid>> /\ \A x \in Orders : queue'[x] \in {queue[x], "visible"}
  BY <1>1 DEF Publish, Redeliver, TypeInv, TypeOK
<1>2. ASSUME NEW p \in Processors, Receive(p)
      PROVE  FALSE
  BY <1>a, <1>2 DEF Receive
<1>3. ASSUME NEW p \in Processors, ReceiveFails(p)
      PROVE  UNCHANGED <<waiting, left, paid, queue>>
  BY <1>a, <1>3 DEF ReceiveFails
<1>4. ASSUME NEW p \in Processors, Crash(p)
      PROVE  /\ \A q \in Processors : Idle(q)'
             /\ \A o \in Orders : Untouched(o)'
  <2>1. /\ waiting' = [waiting EXCEPT ![p] = {}] /\ left' = [left EXCEPT ![p] = <<>>]
        /\ UNCHANGED <<queue, paid>>
    BY <1>4 DEF Crash
  <2> QED BY <1>a, <2>1 DEF Idle, Untouched, Working, TypeInv, TypeOK
<1>5. ASSUME NEW p \in Processors, NEW o \in Orders,
             Start(p, o) \/ Skip(p, o) \/ Finish(p, o) \/ DeleteFails(p, o)
      PROVE  FALSE
  BY <1>a, <1>5 DEF Start, Skip, Finish, DeleteFails
<1>6. CASE Tick
  <2>1. \A o \in Orders : queue'[o] \in {queue[o], "visible"}
    BY <1>6, TickView
  <2>2. \A p \in Processors : waiting'[p] = {} /\ Working(p)' = {}
    BY <1>a, <1>6, TickView
  <2>3. UNCHANGED paid
    BY <1>6, TickView
  <2> QED BY <1>a, <2>1, <2>2, <2>3 DEF Idle, Untouched
<1>7. CASE UNCHANGED vars
  BY <1>b, <1>7 DEF vars
<1> QED BY <1>b, <1>1, <1>2, <1>3, <1>4, <1>5, <1>6, <1>7 DEF Next

\* A processor that asks SQS for more messages than it accepts, as the source does,
\* receives none: whatever is published stays in the queue, and no order is paid.
THEOREM RefusedReceivesNothing ==
    Spec => [](~Granted => \A o \in Orders : queue[o] \in {"unsent", "visible"} /\ paid[o] = 0)
<1> DEFINE Goal == ~Granted => \A o \in Orders : queue[o] \in {"unsent", "visible"} /\ paid[o] = 0
<1>1. Init => RefusedInv
  BY DEF Init, RefusedInv, Idle, Untouched, Working
<1>2. TypeInv /\ RefusedInv /\ [Next]_vars => RefusedInv'
  BY RefusedStep
<1>3. RefusedInv => Goal
  BY DEF RefusedInv, Untouched
<1> HIDE DEF Goal
<1>4. Spec => []Goal
  BY TypeAtStart, TypeStep, <1>1, <1>2, <1>3, PTL DEF Spec
<1> QED BY <1>4 DEF Goal
=============================================================================
