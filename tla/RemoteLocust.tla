----------------------------- MODULE RemoteLocust -----------------------------
(***************************************************************************)
(* The measured part of a round: the sampler thread, run_remote_locust     *)
(* with its child process, and the signals that may hit it.  A driver      *)
(* stopped from its terminal (SIGINT) loses the children of its process    *)
(* group too; SIGTERM is for the driver alone.                             *)
(***************************************************************************)
EXTENDS ExperimentHost

\* Locust's own time: its shape is asked with the intervals since it began.
Phase == tick(ModeOf(script), elapsed - began)

\* lag_stop, lag_thread.start and start_time, before run_remote_locust.
StartSampling ==
    /\ pc = "load" /\ sampling = "off" /\ load = "none"
    /\ sampling' = "on" /\ samples' = <<>>
    /\ elapsed' = 0
    /\ UNCHANGED <<cluster, control, process, load, began, anyFailure, orphans, results,
                   measured, spoilt, counters>>

\* The remote directory is made and Locust starts.
StartLocust ==
    /\ pc = "load" /\ sampling # "off" /\ load = "none"
    /\ load' = "on" /\ began' = elapsed /\ anyFailure' = FALSE
    /\ measured' = {running}
    /\ UNCHANGED <<cluster, control, process, elapsed, orphans, lag, results, spoilt, counters>>

\* The clock, for as long as the driver is about its Locust.
Tick ==
    /\ \/ pc = "load" /\ sampling # "off" /\ load = "none" /\ elapsed < MaxDelay
       \/ pc \in {"load", "drain"} /\ load = "on" /\ Phase # "over"
    /\ elapsed' = elapsed + 1
    /\ UNCHANGED <<cluster, control, process, load, began, anyFailure, orphans, lag,
                   results, measured, spoilt, counters>>

\* create_notification: some answer is not a success.
create_notification ==
    /\ load = "on" /\ ~anyFailure
    /\ \E status \in {202, 500}, body \in {"hasId", "noId"} :
          Outcome([status |-> status, body |-> body]) = "failure"
    /\ anyFailure' = TRUE
    /\ UNCHANGED <<cluster, control, process, load, elapsed, began, orphans, lag, results,
                   measured, spoilt, counters>>

\* lag_sampler, once round its loop: at most one row in an interval, none while
\* a command takes longer.  A and C only put figures over all rows in their
\* summary: B's rows are kept.
WriteSample(sample) ==
    /\ sampling = "on" /\ pc \in {"load", "drain", "copy"}
    /\ \A i \in DOMAIN samples : samples[i].at < elapsed
    /\ samples' = IF script = "burst" THEN Append(samples, sample) ELSE samples
    /\ UNCHANGED <<cluster, control, process, generator, sampling, results, measured,
                   spoilt, signals>>

\* parse_total_lag of what kafka-consumer-groups prints.
lag_sampler ==
    \E value \in LagValues :
        /\ WriteSample([at |-> elapsed, lag |-> value, genuine |-> TRUE])
        /\ UNCHANGED failures

\* With check=False a command that fails is a lag of 0.
lag_sampler_Fails ==
    /\ failures < MaxFailures
    /\ WriteSample([at |-> elapsed, lag |-> 0, genuine |-> FALSE])
    /\ failures' = failures + 1

\* Its command never comes back.
lag_sampler_Hangs ==
    /\ sampling = "on" /\ pc \in {"load", "drain", "copy"} /\ failures < MaxFailures
    /\ sampling' = "hung"
    /\ failures' = failures + 1
    /\ UNCHANGED <<cluster, control, process, generator, samples, results, measured,
                   spoilt, signals>>

\* Locust comes to the end of its shape: exit code 1 if a request failed.
LocustEnds ==
    /\ load = "on" /\ Phase = "over"
    /\ load' = IF anyFailure THEN "exit1" ELSE "exit0"
    /\ UNCHANGED <<cluster, control, process, elapsed, began, anyFailure, orphans, lag,
                   results, measured, spoilt, counters>>

\* Locust stops before that: on SIGTERM it exits as it does at the end of its
\* shape, on an uncaught exception with 1.
LocustStops ==
    /\ load = "on" /\ Phase # "over" /\ failures < MaxFailures
    /\ load' \in {IF anyFailure THEN "stopped1" ELSE "stopped0", "stopped1"}
    /\ failures' = failures + 1
    /\ UNCHANGED <<cluster, control, process, elapsed, began, anyFailure, orphans, lag,
                   results, measured, spoilt, signals>>

\* Locust is killed, or the connection of ssh breaks and Locust goes on without it.
LocustLost ==
    /\ load = "on" /\ failures < MaxFailures
    /\ load' = "broken"
    /\ orphans' \in {orphans} \cup (IF IsLocal(script) THEN {} ELSE {orphans \cup {invocation}})
    /\ failures' = failures + 1
    /\ UNCHANGED <<cluster, control, process, elapsed, began, anyFailure, lag, results,
                   measured, spoilt, signals>>

\* A Locust left behind comes to its end.
OrphanEnds(i) ==
    /\ orphans' = orphans \ {i}
    /\ i \in orphans
    /\ UNCHANGED <<cluster, control, process, load, elapsed, began, anyFailure, lag, results,
                   measured, spoilt, counters>>

Over == load \notin {"none", "on"}

\* All that a driver sees of how its Locust ended (255 is that of a lost ssh).
ExitCode ==
    CASE load \in {"exit0", "stopped0"} -> 0
      [] load \in {"exit1", "stopped1"} -> 1
      [] OTHER -> 255

\* The output has been read to its end.  Experiment A looks at the exit code
\* first: a single failed request is an error there.
run_locust ==
    /\ pc = "load" /\ Over
    /\ IF script \in FixedScripts /\ ExitCode # 0 THEN Raise("error")
       ELSE GoTo(IF IsLocal(script) THEN "join" ELSE "copy") /\ UNCHANGED spoilt
    /\ UNCHANGED <<cluster, process, generator, lag, results, measured, counters>>

\* Fault: any exit code will do.
CopyResults_AnyExit ==
    /\ pc = "copy"
    /\ GoTo("join")
    /\ UNCHANGED <<cluster, process, generator, lag, results, measured, spoilt, counters>>

\* The result files are copied from the load generator; B and C
\* look at the exit code now, and take 1 for a success.
CopyResults ==
    /\ pc = "copy"
    /\ IF ExitCode \notin {0, 1} THEN Raise("error") ELSE GoTo("join") /\ UNCHANGED spoilt
    /\ UNCHANGED <<cluster, process, generator, lag, results, measured, counters>>

\* "finally: proc.wait()" after an interrupt, with nobody reading the output.
AwaitProcess ==
    /\ pc = "drain" /\ load # "on"
    /\ GoTo("join")
    /\ UNCHANGED <<cluster, process, generator, lag, results, measured, spoilt, counters>>

\* Fault: the finally block loses the exception.
JoinSampler_Swallows ==
    /\ pc = "join"
    /\ sampling' = "off"
    /\ GoTo("report") /\ KeepRound
    /\ UNCHANGED <<cluster, process, orphans, results, spoilt, counters>>

\* Fault: join without a timeout.
JoinSampler_Waits ==
    /\ pc = "join" /\ sampling # "hung"
    /\ sampling' = "off"
    /\ IF raised = "none" THEN GoTo("report") /\ KeepRound
       ELSE EnterFinally /\ LeaveRound /\ UNCHANGED raised
    /\ UNCHANGED <<cluster, process, orphans, results, spoilt, counters>>

\* lag_stop.set and join(timeout=20): a sampler that is still in its command is
\* left alone, and writes at most one more row, which nobody reads.
JoinSampler ==
    /\ pc = "join"
    /\ sampling' = "off"
    /\ IF raised = "none" THEN GoTo("report") /\ KeepRound
       ELSE EnterFinally /\ LeaveRound /\ UNCHANGED raised
    /\ UNCHANGED <<cluster, process, orphans, results, spoilt, counters>>

-----------------------------------------------------------------------------
(* Signals                                                                 *)

Signal ==
    /\ pc # "ended" /\ signals < MaxSignals
    /\ signals' = signals + 1

\* handle_interrupt where no Locust of this driver is running.
Interrupt ==
    /\ Signal
    /\ load # "on"
    /\ Raise("interrupt")
    /\ IF pc \in {"join", "report"} THEN LeaveRound ELSE KeepRound
    /\ UNCHANGED <<cluster, process, orphans, sampling, results, failures>>

\* SIGINT while Locust runs: ssh dies with the driver's wait, its Locust may go
\* on; a local Locust stops by itself.
InterruptGroup ==
    /\ Signal
    /\ load = "on"
    /\ load' = "broken"
    /\ orphans' \in {orphans} \cup (IF IsLocal(script) THEN {} ELSE {orphans \cup {invocation}})
    /\ Raise("interrupt")
    /\ UNCHANGED <<cluster, process, elapsed, began, anyFailure, lag, results, measured,
                   failures>>

\* SIGTERM while the driver reads: it waits for the end of Locust.
Terminate ==
    /\ Signal
    /\ load = "on" /\ pc = "load"
    /\ raised' = "interrupt" /\ pc' = "drain"
    /\ UNCHANGED <<cluster, process, round, restoring, generator, lag, results, measured,
                   spoilt, failures>>

\* A second one ends that wait and leaves Locust behind.
TerminateAgain ==
    /\ Signal
    /\ load = "on" /\ pc = "drain"
    /\ load' = "broken" /\ orphans' = orphans \cup {invocation}
    /\ Raise("interrupt")
    /\ UNCHANGED <<cluster, process, elapsed, began, anyFailure, lag, results, measured,
                   failures>>
=============================================================================
