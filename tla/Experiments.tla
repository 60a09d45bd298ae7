----------------------------- MODULE Experiments -----------------------------
(***************************************************************************)
(* The experiments on the notification service, one after the other on the *)
(* same deployment, with signals, failing commands and lost connections.   *)
(***************************************************************************)
EXTENDS BurstExperiment, IsolationExperiment

\* What every main does alike.
Measure ==
    \/ StartSampling \/ StartLocust \/ run_locust \/ CopyResults
    \/ AwaitProcess \/ JoinSampler

Driver == prepare_loadgen \/ Measure \/ FixedLoadMain \/ BurstMain \/ IsolationMain

Next ==
    \/ \E s \in Scripts : Start(s)
    \/ Driver
    \/ CommandFails \/ Interrupt \/ InterruptGroup \/ Terminate \/ TerminateAgain
    \/ lag_sampler \/ lag_sampler_Fails \/ lag_sampler_Hangs
    \/ Tick \/ create_notification \/ LocustEnds \/ LocustStops \/ LocustLost
    \/ \E i \in 1 .. MaxInvocations : OrphanEnds(i)
    \/ \E s \in Services : Deploy(s)

Spec == Init /\ [][Next]_vars

\* Nobody reads the output of a local Locust any more: it may block on it.
Unread == pc = "drain" /\ IsLocal(script)

\* A driver takes its next step, ECS replaces tasks, time goes by and Locust
\* ends when its shape does.  The sampler's command may hang for ever.
Fairness ==
    /\ WF_vars(Driver)
    /\ \A s \in Services : WF_vars(Deploy(s))
    /\ WF_vars(Tick)
    /\ WF_vars(~Unread /\ LocustEnds)

FairSpec == Spec /\ Fairness

-----------------------------------------------------------------------------
(* Properties                                                              *)

Configuration == [Services -> [count : Nat, latency : Nat]]

TypeOK ==
    /\ desired \in Configuration /\ running \in Configuration
    /\ invocation \in 0 .. MaxInvocations /\ script \in Scripts
    /\ pc \in {"ended", "prepare", "scale", "register", "updateEmail", "updateInapp",
               "wait", "capture", "load", "drain", "copy", "join", "report", "aggregate"}
    /\ round \in 1 .. RoundsOf(script)
    /\ restoring \in BOOLEAN
    /\ raised \in {"none", "error", "interrupt"}
    /\ load \in {"none", "on", "exit0", "exit1", "stopped0", "stopped1", "broken"}
    /\ elapsed \in Nat /\ began \in 0 .. MaxDelay /\ anyFailure \in BOOLEAN
    /\ orphans \subseteq 1 .. MaxInvocations
    /\ sampling \in {"off", "on", "hung"}
    /\ samples \in Seq([at : Nat, lag : Nat, genuine : BOOLEAN])
    /\ aggregated \in BOOLEAN
    /\ spoilt \subseteq {"count", "latency"}
    /\ failures \in 0 .. MaxFailures /\ signals \in 0 .. MaxSignals

\* Each row of a summary was measured with the configuration it names, from the
\* first request to the last, although tasks are replaced behind the driver's
\* back.  Only a latency that a cut-short restoration of experiment C left
\* behind is carried into rows of A and B, which do not set it.
MeasuredAsLabelled ==
    \A i \in DOMAIN rows : \A c \in rows[i].measured :
        \/ c = rows[i].label
        \/ /\ "latency" \in spoilt /\ script # "isolation"
           /\ c["email"].count = rows[i].label["email"].count

\* No row stands for a load that a signal to the driver, a lost connection or a
\* killed Locust cut short.  Only a Locust that was terminated or crashed with an
\* exit code its driver takes for a success leaves a row of half a load: 0 in
\* A, 0 or 1 in B and C.  After an exception there is no summary.csv, and one
\* that is written has a row for every round.
SummariesAreWhole ==
    /\ \A i \in DOMAIN rows :
          \/ rows[i].whole
          \/ rows[i].ended = "stopped0"
          \/ rows[i].ended = "stopped1" /\ script \notin FixedScripts
    /\ aggregated => Len(rows) = RoundsOf(script)

\* The rounds of one invocation never load the service two at a time: a driver
\* that lost sight of its Locust starts no other.
OneLoadPerInvocation == load = "on" => invocation \notin orphans

\* Between invocations the services are as they are deployed, whatever exception
\* or handled signal (SIGINT, SIGTERM) ended the last one and wherever, unless
\* its finally block was cut short as well.  A driver that is killed outright has
\* no finally block and is outside the model.
DefaultsRestored ==
    pc = "ended" =>
        \A s \in Services :
            /\ desired[s].count = Defaults[s].count \/ "count" \in spoilt
            /\ desired[s].latency = Defaults[s].latency \/ "latency" \in spoilt

\* Every invocation ends, whatever fails, also when the sampler's command hangs.
\* The exception is a local Locust whose output is not read any more.
EveryRunEnds == pc # "ended" ~> pc = "ended" \/ Unread

\* The low samples in a row that end at place i, of those after the spike.
LowRun(i) ==
    {j \in PostSpike(samples) :
        /\ j <= i
        /\ \A l \in PostSpike(samples) :
              j <= l /\ l <= i => samples[l].lag <= RecoveryThreshold(samples)}

\* The recovery that is reported after a rise in lag is the end of the first
\* RECOVERY_CONSECUTIVE_SAMPLES low samples in a row after the spike; with fewer
\* failed commands than that, low lag was really measured among them.  Where
\* failed commands hide the rise itself, the end of the spike is reported, and
\* nothing is said of it here.
RecoveryIsSustained ==
    LET recovered == summarize_lag_recovery(samples)
        after == PostSpike(samples)
        Ends(i) == Cardinality(LowRun(i)) >= RECOVERY_CONSECUTIVE_SAMPLES
    IN  pc = "report" /\ script = "burst" /\ HasRise(samples) =>
            IF recovered = None THEN \A i \in after : ~Ends(i)
            ELSE \E i \in after :
                    /\ samples[i].at = recovered
                    /\ Ends(i) /\ \A j \in after : j < i => ~Ends(j)
                    /\ failures < RECOVERY_CONSECUTIVE_SAMPLES =>
                          \E j \in LowRun(i) : samples[j].genuine

\* The phases of the history are those of Locust's own shape, row by row, as
\* both tables are written apart; where Locust began late, a row it wrote in one
\* phase may be counted in the next one, and in no other.  The clocks of the
\* driver and of the load generator are taken to agree.
PhasesAgree ==
    LET order == <<"baseline", "spike", "recovery", "none">>
        Number(phase) == CHOOSE i \in DOMAIN order : order[i] = phase
        ahead == Number(HistoryPhase(elapsed)) - Number(Phase)
    IN  load = "on" /\ script = "burst" /\ Phase # "over" =>
            ahead = 0 \/ (began > 0 /\ ahead = 1)
=============================================================================
