----------------------------- MODULE LagRecovery -----------------------------
(***************************************************************************)
(* What experiment B reads out of its lag samples                          *)
(* (experiment/run_expB_email_burst_ec2.py).  A sample is a record of the  *)
(* interval it was taken in, counted from start_time, and the lag that was *)
(* written; genuine tells (for the properties only) whether the lag was    *)
(* measured or is the 0 of a command that failed.                          *)
(***************************************************************************)
EXTENDS NotificationLoad, FiniteSetsExt

CONSTANTS
    BASELINE_STEADY_WINDOW,
    RECOVERY_CONSECUTIVE_SAMPLES

ASSUME RecoveryAssumption ==
    /\ BASELINE_STEADY_WINDOW \in Nat \ {0}
    /\ RECOVERY_CONSECUTIVE_SAMPLES \in Nat \ {0}

None == -1

\* The lags of the samples at some places of the file.
Lags(samples, places) == {samples[i].lag : i \in places}

\* The samples of the last BASELINE_STEADY_WINDOW before the spike or, without
\* any, of the whole baseline.
BaselineSamples(samples) ==
    LET Since(t) == {i \in DOMAIN samples : t <= samples[i].at /\ samples[i].at < SpikeStart}
        window == Since(SpikeStart - BASELINE_STEADY_WINDOW)
    IN  IF window # {} THEN window ELSE Since(0)

\* max(5, ceil(baseline_max + 5)), where baseline_max is 0 without samples.
RecoveryThreshold(samples) ==
    Max({5, Max(Lags(samples, BaselineSamples(samples)) \cup {0}) + 5})

\* The first sample after the baseline above the threshold, or none.
HasRise(samples) ==
    \E i \in DOMAIN samples :
        samples[i].at >= SpikeStart /\ samples[i].lag > RecoveryThreshold(samples)

PostSpike(samples) == {i \in DOMAIN samples : samples[i].at >= SpikeEnd}

\* The local variables of the loop, as long as it has found nothing.
Counting(consecutive) == [consecutive |-> consecutive, recovered |-> None]

\* Fault: a sample above the threshold does not start the count again.
RecoveryStep_KeepsCounting(samples, acc, i) ==
    IF \/ i \notin PostSpike(samples) \/ acc.recovered # None
       \/ samples[i].lag > RecoveryThreshold(samples) THEN acc
    ELSE IF acc.consecutive + 1 >= RECOVERY_CONSECUTIVE_SAMPLES
    THEN [acc EXCEPT !.recovered = samples[i].at]
    ELSE Counting(acc.consecutive + 1)

\* The loop's body for one sample after the spike; its break leaves the rest alone.
RecoveryStep(samples, acc, i) ==
    IF i \notin PostSpike(samples) \/ acc.recovered # None THEN acc
    ELSE IF samples[i].lag > RecoveryThreshold(samples) THEN Counting(0)
    ELSE IF acc.consecutive + 1 >= RECOVERY_CONSECUTIVE_SAMPLES
    THEN [acc EXCEPT !.recovered = samples[i].at]
    ELSE Counting(acc.consecutive + 1)

\* The loop over the samples, from the first to the last.
RecoveryLoop(samples) ==
    LET after[i \in 0 .. Len(samples)] ==
            IF i = 0 THEN Counting(0) ELSE RecoveryStep(samples, after[i - 1], i)
    IN  after[Len(samples)]

\* summarize_lag_recovery: the interval that is reported as recovered_time,
\* or None.  Lag that never rose has recovered when the spike ended.
summarize_lag_recovery(samples) ==
    IF samples = <<>> THEN None
    ELSE IF ~HasRise(samples) THEN SpikeEnd
    ELSE RecoveryLoop(samples).recovered

\* summarize_locust_history: the phase a history row is counted in, from its
\* offset to start_time; rows outside every phase are not counted.
HistoryPhase(offset) ==
    LET phases == [baseline |-> <<0, BASELINE_DURATION>>,
                   spike    |-> <<SpikeStart, SpikeStart + SPIKE_DURATION>>,
                   recovery |-> <<SpikeEnd, SpikeEnd + RECOVERY_DURATION>>]
        Within(phase) == phases[phase][1] <= offset /\ offset < phases[phase][2]
    IN  IF \E phase \in DOMAIN phases : Within(phase)
        THEN CHOOSE phase \in DOMAIN phases : Within(phase) ELSE "none"
=============================================================================
