---------------------------- MODULE ExperimentHost ----------------------------
(***************************************************************************)
(* What the experiment drivers of the notification service                 *)
(* (experiment/run_exp*.py) have in common: the ECS services they change,  *)
(* the Locust they start on the load generator (or, experiment A's first   *)
(* script, beside themselves), the thread that samples the consumer lag,   *)
(* and the way an exception takes through their two finally blocks.        *)
(*                                                                         *)
(* One invocation runs at a time; each is one of Scripts.  pc is the call  *)
(* of the driver that comes next, and time is counted in sample intervals  *)
(* since start_time.                                                       *)
(***************************************************************************)
EXTENDS LagRecovery, FiniteSets

CONSTANTS
    FixedReplicas,      \* experiment A: REPLICAS_TO_TEST
    BurstReplicas,      \* experiment B: EMAIL_WORKER_REPLICAS
    IsolationRounds,    \* experiment C: EXPERIMENT_ROUNDS, their latencies
    DefaultLatency,     \* the latencies of the deployment
    LagValues,          \* the consumer lags that may be measured
    MaxDelay,           \* intervals from start_time to Locust's own start
    Agenda,             \* the scripts each invocation may run
    MaxFailures, MaxSignals

MaxInvocations == Len(Agenda)

Services == {"email", "inapp"}
FixedScripts == {"fixed", "fixed_local"}
Scripts == FixedScripts \cup {"burst", "isolation"}

\* Experiment A's first script runs Locust as a child on the same machine.
IsLocal(s) == s = "fixed_local"

RoundsOf(s) ==
    CASE s \in FixedScripts -> Len(FixedReplicas)
      [] s = "burst" -> 1
      [] OTHER -> Len(IsolationRounds)

ModeOf(s) == IF s = "burst" THEN "burst" ELSE "steady"

\* There is something to measure, in every experiment; the bounds are numbers.
ASSUME HostAssumption ==
    /\ FixedReplicas \in Seq(Nat) /\ FixedReplicas # <<>>
    /\ BurstReplicas \in Nat
    /\ IsolationRounds \in Seq([Services -> Nat]) /\ IsolationRounds # <<>>
    /\ DefaultLatency \in [Services -> Nat]
    /\ LagValues \subseteq Nat /\ MaxDelay \in Nat
    /\ Agenda \in Seq(SUBSET Scripts) /\ MaxFailures \in Nat /\ MaxSignals \in Nat

Defaults == [s \in Services |-> [count |-> 1, latency |-> DefaultLatency[s]]]

VARIABLES
    desired,        \* desired[s]: replicas and latency ECS is to run service s with
    running,        \* running[s]: those it runs it with
    invocation,     \* number of the invocation
    script,         \* what it runs
    pc,             \* the call that comes next; "ended" between invocations
    round,          \* the round of its loop
    restoring,      \* it is in the finally block that restores the services
    raised,         \* the exception on its way: "none", "error", "interrupt"
    load,           \* its Locust: "none", "on", then its end: at the end of its shape
                    \* ("exit0", "exit1"), "stopped0", "stopped1" or "broken"
    elapsed,        \* intervals since start_time
    began,          \* and how many of them had passed when Locust began
    anyFailure,     \* a request of this load has failed
    orphans,        \* invocations whose Locust goes on without them
    sampling,       \* the sampler thread: "off", "on", "hung"
    samples,        \* the rows of its file
    rows,           \* summary_rows
    aggregated,     \* summary.csv is written
    measured,       \* history: configurations running during this load
    spoilt,         \* history: dimensions whose last restoration was cut short
    failures, signals

cluster == <<desired, running>>
control == <<pc, round, restoring, raised>>
process == <<invocation, script>>
generator == <<load, elapsed, began, anyFailure, orphans>>
lag == <<sampling, samples>>
results == <<rows, aggregated>>
counters == <<failures, signals>>
vars == <<cluster, control, process, generator, lag, results, measured, spoilt, counters>>

Init ==
    /\ desired = Defaults /\ running = Defaults
    /\ invocation = 0 /\ script = "fixed"
    /\ pc = "ended" /\ round = 1 /\ restoring = FALSE /\ raised = "none"
    /\ load = "none" /\ elapsed = 0 /\ began = 0 /\ anyFailure = FALSE
    /\ orphans = {}
    /\ sampling = "off" /\ samples = <<>>
    /\ rows = <<>> /\ aggregated = FALSE
    /\ measured = {} /\ spoilt = {}
    /\ failures = 0 /\ signals = 0

\* Someone starts a driver: its results directory is a new one.
Start(s) ==
    /\ pc = "ended" /\ invocation < MaxInvocations
    /\ s \in Agenda[invocation + 1]
    /\ invocation' = invocation + 1 /\ script' = s
    /\ pc' = "prepare" /\ round' = 1 /\ restoring' = FALSE /\ raised' = "none"
    /\ load' = "none" /\ elapsed' = 0 /\ began' = 0 /\ anyFailure' = FALSE
    /\ sampling' = "off" /\ samples' = <<>>
    /\ rows' = <<>> /\ aggregated' = FALSE /\ measured' = {}
    /\ UNCHANGED <<cluster, orphans, spoilt, counters>>

-----------------------------------------------------------------------------
(* Control                                                                 *)

GoTo(next) == pc' = next /\ UNCHANGED <<round, restoring, raised>>

\* The first call of a configuration, in a round or in the finally block.
FirstCall == IF script = "isolation" THEN "register" ELSE "scale"

EnterFinally == pc' = FirstCall /\ restoring' = TRUE /\ UNCHANGED round

\* What the driver changes is restored by its finally block.
Dimensions(s) == IF s = "isolation" THEN {"count", "latency"} ELSE {"count"}

\* Behind the finally block: an exception goes on; else A and C aggregate.
Leave ==
    /\ pc' = IF raised = "none" /\ script # "burst" THEN "aggregate" ELSE "ended"
    /\ restoring' = FALSE
    /\ UNCHANGED <<round, raised>>

\* An exception in the finally block itself: "except Exception" keeps an error,
\* and lets a KeyboardInterrupt through.
RaiseWhileRestoring(kind) ==
    /\ spoilt' = spoilt \cup Dimensions(script)
    /\ IF kind = "error" THEN Leave
       ELSE pc' = "ended" /\ raised' = kind /\ UNCHANGED <<round, restoring>>

\* An exception anywhere else: nothing is caught before the loop and after it,
\* run_remote_locust is in a try of its own, the rest in the outer one.
RaiseInBody(kind) ==
    /\ raised' = kind
    /\ IF pc \in {"prepare", "aggregate"} THEN pc' = "ended" /\ UNCHANGED <<round, restoring>>
       ELSE IF pc \in {"load", "drain", "copy"} THEN pc' = "join" /\ UNCHANGED <<round, restoring>>
       ELSE EnterFinally
    /\ UNCHANGED spoilt

\* Fault: an exception ends the driver without its finally block.
Raise_NotRestored(kind) ==
    /\ IF pc \in {"prepare", "aggregate", "load", "drain", "copy"} THEN RaiseInBody(kind)
       ELSE pc' = "ended" /\ raised' = kind /\ UNCHANGED <<round, restoring, spoilt>>

Raise(kind) == IF restoring THEN RaiseWhileRestoring(kind) ELSE RaiseInBody(kind)

\* What belongs to a round is gone when it is left.
LeaveRound ==
    /\ load' = "none" /\ elapsed' = 0 /\ began' = 0 /\ anyFailure' = FALSE
    /\ samples' = <<>> /\ measured' = {}

KeepRound == UNCHANGED <<load, elapsed, began, anyFailure, samples, measured>>

\* run: a command that exits with an error raises RuntimeError, whether or not
\* it had its effect (an effect first is the call itself and then this).
CommandFails ==
    /\ pc \notin {"ended", "drain", "join", "aggregate"} /\ failures < MaxFailures
    /\ pc = "load" => load = "none" /\ sampling # "off"
    /\ Raise("error")
    /\ IF pc = "report" THEN LeaveRound ELSE KeepRound
    /\ failures' = failures + 1
    /\ UNCHANGED <<cluster, process, orphans, sampling, results, signals>>

\* get_instance_public_ip and prepare_loadgen: the addresses are resolved, SSH
\* answers, Locust is installed and the locustfile copied.
prepare_loadgen ==
    /\ pc = "prepare"
    /\ GoTo(FirstCall)
    /\ UNCHANGED <<cluster, process, generator, lag, results, measured, spoilt, counters>>

-----------------------------------------------------------------------------
(* The ECS services                                                        *)

\* aws ecs update-service, which answers before the tasks are replaced.
UpdateService(s, change, next) ==
    /\ desired' = [desired EXCEPT ![s] = change]
    /\ GoTo(next)
    /\ UNCHANGED <<running, process, generator, lag, results, measured, spoilt, counters>>

\* ECS replaces the tasks of a service.
Deploy(s) ==
    /\ running[s] # desired[s]
    /\ running' = [running EXCEPT ![s] = desired[s]]
    /\ measured' = IF load = "on" THEN measured \cup {running'} ELSE measured
    /\ UNCHANGED <<desired, control, process, generator, lag, results, spoilt, counters>>

\* Fault: the next step does not wait for the deployment.
WaitForServicesStable_Skipped(waited) ==
    /\ pc = "wait"
    /\ IF restoring THEN spoilt' = spoilt \ Dimensions(script) /\ Leave
       ELSE GoTo(IF script = "burst" THEN "capture" ELSE "load") /\ UNCHANGED spoilt
    /\ UNCHANGED <<cluster, process, generator, lag, results, measured, counters>>

\* aws ecs wait services-stable, and STABILIZE_SEC more.
WaitForServicesStable(waited) ==
    /\ pc = "wait"
    /\ \A s \in waited : running[s] = desired[s]
    /\ IF restoring THEN spoilt' = spoilt \ Dimensions(script) /\ Leave
       ELSE GoTo(IF script = "burst" THEN "capture" ELSE "load") /\ UNCHANGED spoilt
    /\ UNCHANGED <<cluster, process, generator, lag, results, measured, counters>>
=============================================================================
