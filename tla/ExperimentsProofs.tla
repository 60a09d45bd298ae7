--------------------------- MODULE ExperimentsProofs ---------------------------
(***************************************************************************)
(* Theorems about Experiments, for any list of rounds, any latencies and   *)
(* durations, any agenda and any number of failures and signals.           *)
(***************************************************************************)
EXTENDS Experiments, FiniteSetTheorems, WellFoundedInduction, TLAPS

\* Invocations are numbered, and only those that have begun leave a Locust.
NumberInv == invocation \in Nat /\ \A i \in orphans : i \in Nat /\ i <= invocation

\* Where a driver can be, and when a Locust of its own is running.
ControlInv ==
    /\ restoring \in BOOLEAN
    /\ restoring => pc \in {"scale", "register", "updateEmail", "updateInapp", "wait", "ended"}
    /\ load = "on" => pc \in {"load", "drain"}
    /\ pc = "drain" => raised # "none"

\* A driver that has lost sight of its Locust is on its way out of its loop.
OrphanInv ==
    invocation \in orphans =>
        \/ load = "broken" /\ pc \in {"load", "drain", "copy"}
        \/ load = "broken" /\ pc = "join" /\ raised # "none"
        \/ restoring \/ pc \in {"aggregate", "ended"}

\* A new invocation gets the next number; a lost Locust keeps the one it has.
LEMMA NumberStep ==
    ASSUME NumberInv, [Next]_vars PROVE NumberInv'
<1> USE DEF NumberInv, cluster, control, process, generator, lag, results, counters
<1>1. ASSUME NEW s \in Scripts, Start(s) PROVE NumberInv'
  BY <1>1 DEF Start
<1>2. CASE prepare_loadgen
  BY <1>2 DEF prepare_loadgen, GoTo, FirstCall
<1>3. CASE StartSampling
  BY <1>3 DEF StartSampling
<1>4. CASE StartLocust
  BY <1>4 DEF StartLocust
<1>5. CASE run_locust
  BY <1>5
  DEF run_locust, GoTo, Over, ExitCode, IsLocal, FixedScripts, Raise, RaiseInBody,
      RaiseWhileRestoring, EnterFinally, FirstCall, Leave
<1>6. CASE CopyResults
  BY <1>6
  DEF CopyResults, ExitCode, GoTo, Raise, RaiseInBody, RaiseWhileRestoring, EnterFinally,
      FirstCall, Leave
<1>7. CASE AwaitProcess
  BY <1>7 DEF AwaitProcess, GoTo
<1>8. CASE JoinSampler
  BY <1>8 DEF JoinSampler, GoTo, EnterFinally, FirstCall, LeaveRound, KeepRound
<1>9. ASSUME NEW n, scale_email_workers(n) PROVE NumberInv'
  BY <1>9 DEF scale_email_workers, UpdateService, GoTo
<1>10. ASSUME NEW waited, WaitForServicesStable(waited) PROVE NumberInv'
  BY <1>10 DEF WaitForServicesStable, GoTo, Leave
<1>11. CASE Capture
  BY <1>11 DEF Capture, GoTo
<1>12. ASSUME NEW row, NEW aggregate, Summarise(row, aggregate) PROVE NumberInv'
  BY <1>12 DEF Summarise, NextRound, EnterFinally, FirstCall, LeaveRound
<1>13. CASE write_aggregate_csv
  BY <1>13 DEF write_aggregate_csv, GoTo
<1>14. CASE register_task_definition_with_env
  BY <1>14 DEF register_task_definition_with_env, GoTo
<1>15. ASSUME NEW s, NEW c, pc = "updateEmail" /\ UpdateService(s, c, "updateInapp")
      PROVE  NumberInv'
  BY <1>15 DEF UpdateService, GoTo
<1>16. ASSUME NEW s, NEW c, pc = "updateInapp" /\ UpdateService(s, c, "wait")
      PROVE  NumberInv'
  BY <1>16 DEF UpdateService, GoTo
<1>17. CASE CommandFails
  BY <1>17
  DEF CommandFails, LeaveRound, KeepRound, Raise, RaiseInBody, RaiseWhileRestoring,
      EnterFinally, FirstCall, Leave
<1>18. CASE Interrupt
  BY <1>18
  DEF Interrupt, Signal, LeaveRound, KeepRound, Raise, RaiseInBody,
      RaiseWhileRestoring, EnterFinally, FirstCall, Leave
<1>19. CASE InterruptGroup
  BY <1>19
  DEF InterruptGroup, Signal, Raise, RaiseInBody, RaiseWhileRestoring, EnterFinally,
      FirstCall, Leave
<1>20. CASE Terminate
  BY <1>20 DEF Terminate, Signal
<1>21. CASE TerminateAgain
  BY <1>21
  DEF TerminateAgain, Signal, Raise, RaiseInBody, RaiseWhileRestoring, EnterFinally,
      FirstCall, Leave
<1>22. ASSUME NEW sample, WriteSample(sample) PROVE NumberInv'
  BY <1>22 DEF WriteSample
<1>23. CASE lag_sampler_Hangs
  BY <1>23 DEF lag_sampler_Hangs
<1>24. CASE Tick \/ create_notification
  BY <1>24 DEF Tick, create_notification
<1>25. CASE LocustEnds
  BY <1>25 DEF LocustEnds
<1>26. CASE LocustStops \/ LocustLost
  BY <1>26 DEF LocustStops, LocustLost
<1>27. ASSUME NEW i, OrphanEnds(i) PROVE NumberInv'
  BY <1>27 DEF OrphanEnds
<1>28. ASSUME NEW s, Deploy(s) PROVE NumberInv'
  BY <1>28 DEF Deploy
<1>29. CASE UNCHANGED vars
  BY <1>29 DEF vars
<1> QED
  BY <1>1, <1>2, <1>3, <1>4, <1>5, <1>6, <1>7, <1>8, <1>9, <1>10, <1>11, <1>12,
     <1>13, <1>14, <1>15, <1>16, <1>17, <1>18, <1>19, <1>20, <1>21, <1>22, <1>23,
     <1>24, <1>25, <1>26, <1>27, <1>28, <1>29
  DEF Next, Driver, Measure, FixedLoadMain, BurstMain, IsolationMain, configure_worker_latencies,
      lag_sampler, lag_sampler_Fails

\* Each call leads where the control flow of main and its finally blocks allows.
LEMMA ControlStep ==
    ASSUME ControlInv, [Next]_vars PROVE ControlInv'
<1> USE DEF ControlInv, cluster, control, process, generator, lag, results, counters
<1>1. ASSUME NEW s \in Scripts, Start(s) PROVE ControlInv'
  BY <1>1 DEF Start
<1>2. CASE prepare_loadgen
  BY <1>2 DEF prepare_loadgen, GoTo, FirstCall
<1>3. CASE StartSampling
  BY <1>3 DEF StartSampling
<1>4. CASE StartLocust
  BY <1>4 DEF StartLocust
<1>5. CASE run_locust
  BY <1>5
  DEF run_locust, GoTo, Over, ExitCode, IsLocal, FixedScripts, Raise, RaiseInBody,
      RaiseWhileRestoring, EnterFinally, FirstCall, Leave
<1>6. CASE CopyResults
  BY <1>6
  DEF CopyResults, ExitCode, GoTo, Raise, RaiseInBody, RaiseWhileRestoring, EnterFinally,
      FirstCall, Leave
<1>7. CASE AwaitProcess
  BY <1>7 DEF AwaitProcess, GoTo
<1>8. CASE JoinSampler
  BY <1>8 DEF JoinSampler, GoTo, EnterFinally, FirstCall, LeaveRound, KeepRound
<1>9. ASSUME NEW n, scale_email_workers(n) PROVE ControlInv'
  BY <1>9 DEF scale_email_workers, UpdateService, GoTo
<1>10. ASSUME NEW waited, WaitForServicesStable(waited) PROVE ControlInv'
  BY <1>10 DEF WaitForServicesStable, GoTo, Leave
<1>11. CASE Capture
  BY <1>11 DEF Capture, GoTo
<1>12. ASSUME NEW row, NEW aggregate, Summarise(row, aggregate) PROVE ControlInv'
  BY <1>12 DEF Summarise, NextRound, EnterFinally, FirstCall, LeaveRound
<1>13. CASE write_aggregate_csv
  BY <1>13 DEF write_aggregate_csv, GoTo
<1>14. CASE register_task_definition_with_env
  BY <1>14 DEF register_task_definition_with_env, GoTo
<1>15. ASSUME NEW s, NEW c, pc = "updateEmail" /\ UpdateService(s, c, "updateInapp")
      PROVE  ControlInv'
  BY <1>15 DEF UpdateService, GoTo
<1>16. ASSUME NEW s, NEW c, pc = "updateInapp" /\ UpdateService(s, c, "wait")
      PROVE  ControlInv'
  BY <1>16 DEF UpdateService, GoTo
<1>17. CASE CommandFails
  BY <1>17
  DEF CommandFails, LeaveRound, KeepRound, Raise, RaiseInBody, RaiseWhileRestoring,
      EnterFinally, FirstCall, Leave
<1>18. CASE Interrupt
  BY <1>18
  DEF Interrupt, Signal, LeaveRound, KeepRound, Raise, RaiseInBody,
      RaiseWhileRestoring, EnterFinally, FirstCall, Leave
<1>19. CASE InterruptGroup
  BY <1>19
  DEF InterruptGroup, Signal, Raise, RaiseInBody, RaiseWhileRestoring, EnterFinally,
      FirstCall, Leave
<1>20. CASE Terminate
  BY <1>20 DEF Terminate, Signal
<1>21. CASE TerminateAgain
  BY <1>21
  DEF TerminateAgain, Signal, Raise, RaiseInBody, RaiseWhileRestoring, EnterFinally,
      FirstCall, Leave
<1>22. ASSUME NEW sample, WriteSample(sample) PROVE ControlInv'
  BY <1>22 DEF WriteSample
<1>23. CASE lag_sampler_Hangs
  BY <1>23 DEF lag_sampler_Hangs
<1>24. CASE Tick \/ create_notification
  BY <1>24 DEF Tick, create_notification
<1>25. CASE LocustEnds
  BY <1>25 DEF LocustEnds
<1>26. CASE LocustStops \/ LocustLost
  BY <1>26 DEF LocustStops, LocustLost
<1>27. ASSUME NEW i, OrphanEnds(i) PROVE ControlInv'
  BY <1>27 DEF OrphanEnds
<1>28. ASSUME NEW s, Deploy(s) PROVE ControlInv'
  BY <1>28 DEF Deploy
<1>29. CASE UNCHANGED vars
  BY <1>29 DEF vars
<1> QED
  BY <1>1, <1>2, <1>3, <1>4, <1>5, <1>6, <1>7, <1>8, <1>9, <1>10, <1>11, <1>12,
     <1>13, <1>14, <1>15, <1>16, <1>17, <1>18, <1>19, <1>20, <1>21, <1>22, <1>23,
     <1>24, <1>25, <1>26, <1>27, <1>28, <1>29
  DEF Next, Driver, Measure, FixedLoadMain, BurstMain, IsolationMain, configure_worker_latencies,
      lag_sampler, lag_sampler_Fails

\* A Locust is lost with the connection or the driver's read, and from there on the
\* loop is left: only a new invocation, with a number of its own, starts another.
LEMMA OrphanStep ==
    ASSUME NumberInv, ControlInv, OrphanInv, [Next]_vars PROVE OrphanInv'
<1> USE DEF NumberInv, ControlInv, OrphanInv, cluster, control, process, generator,
            lag, results, counters
<1>1. ASSUME NEW s \in Scripts, Start(s) PROVE OrphanInv'
  BY <1>1 DEF Start
<1>2. CASE prepare_loadgen
  BY <1>2 DEF prepare_loadgen, GoTo, FirstCall
<1>3. CASE StartSampling
  BY <1>3 DEF StartSampling
<1>4. CASE StartLocust
  BY <1>4 DEF StartLocust
<1>5. CASE run_locust
  BY <1>5
  DEF run_locust, GoTo, Over, ExitCode, IsLocal, FixedScripts, Raise, RaiseInBody,
      RaiseWhileRestoring, EnterFinally, FirstCall, Leave
<1>6. CASE CopyResults
  BY <1>6
  DEF CopyResults, ExitCode, GoTo, Raise, RaiseInBody, RaiseWhileRestoring, EnterFinally,
      FirstCall, Leave
<1>7. CASE AwaitProcess
  BY <1>7 DEF AwaitProcess, GoTo
<1>8. CASE JoinSampler
  BY <1>8 DEF JoinSampler, GoTo, EnterFinally, FirstCall, LeaveRound, KeepRound
<1>9. ASSUME NEW n, scale_email_workers(n) PROVE OrphanInv'
  BY <1>9 DEF scale_email_workers, UpdateService, GoTo
<1>10. ASSUME NEW waited, WaitForServicesStable(waited) PROVE OrphanInv'
  BY <1>10 DEF WaitForServicesStable, GoTo, Leave
<1>11. CASE Capture
  BY <1>11 DEF Capture, GoTo
<1>12. ASSUME NEW row, NEW aggregate, Summarise(row, aggregate) PROVE OrphanInv'
  BY <1>12 DEF Summarise, NextRound, EnterFinally, FirstCall, LeaveRound
<1>13. CASE write_aggregate_csv
  BY <1>13 DEF write_aggregate_csv, GoTo
<1>14. CASE register_task_definition_with_env
  BY <1>14 DEF register_task_definition_with_env, GoTo
<1>15. ASSUME NEW s, NEW c, pc = "updateEmail" /\ UpdateService(s, c, "updateInapp")
      PROVE  OrphanInv'
  BY <1>15 DEF UpdateService, GoTo
<1>16. ASSUME NEW s, NEW c, pc = "updateInapp" /\ UpdateService(s, c, "wait")
      PROVE  OrphanInv'
  BY <1>16 DEF UpdateService, GoTo
<1>17. CASE CommandFails
  BY <1>17
  DEF CommandFails, LeaveRound, KeepRound, Raise, RaiseInBody, RaiseWhileRestoring,
      EnterFinally, FirstCall, Leave
<1>18. CASE Interrupt
  BY <1>18
  DEF Interrupt, Signal, LeaveRound, KeepRound, Raise, RaiseInBody,
      RaiseWhileRestoring, EnterFinally, FirstCall, Leave
<1>19. CASE InterruptGroup
  BY <1>19
  DEF InterruptGroup, Signal, Raise, RaiseInBody, RaiseWhileRestoring, EnterFinally,
      FirstCall, Leave
<1>20. CASE Terminate
  BY <1>20 DEF Terminate, Signal
<1>21. CASE TerminateAgain
  BY <1>21
  DEF TerminateAgain, Signal, Raise, RaiseInBody, RaiseWhileRestoring, EnterFinally,
      FirstCall, Leave
<1>22. ASSUME NEW sample, WriteSample(sample) PROVE OrphanInv'
  BY <1>22 DEF WriteSample
<1>23. CASE lag_sampler_Hangs
  BY <1>23 DEF lag_sampler_Hangs
<1>24. CASE Tick \/ create_notification
  BY <1>24 DEF Tick, create_notification
<1>25. CASE LocustEnds
  BY <1>25 DEF LocustEnds
<1>26. CASE LocustStops \/ LocustLost
  BY <1>26 DEF LocustStops, LocustLost
<1>27. ASSUME NEW i, OrphanEnds(i) PROVE OrphanInv'
  BY <1>27 DEF OrphanEnds
<1>28. ASSUME NEW s, Deploy(s) PROVE OrphanInv'
  BY <1>28 DEF Deploy
<1>29. CASE UNCHANGED vars
  BY <1>29 DEF vars
<1> QED
  BY <1>1, <1>2, <1>3, <1>4, <1>5, <1>6, <1>7, <1>8, <1>9, <1>10, <1>11, <1>12,
     <1>13, <1>14, <1>15, <1>16, <1>17, <1>18, <1>19, <1>20, <1>21, <1>22, <1>23,
     <1>24, <1>25, <1>26, <1>27, <1>28, <1>29
  DEF Next, Driver, Measure, FixedLoadMain, BurstMain, IsolationMain, configure_worker_latencies,
      lag_sampler, lag_sampler_Fails

-----------------------------------------------------------------------------
(* Rows and summaries                                                      *)

\* The ends that a driver takes for a success.
Success ==
    \/ load \in {"exit0", "stopped0"}
    \/ load \in {"exit1", "stopped1"} /\ script \notin FixedScripts

\* Rounds, and how a load that is reported has ended.
RoundInv ==
    /\ script \in Scripts
    /\ round \in 1 .. RoundsOf(script)
    /\ load \in {"exit0", "exit1"} => Phase = "over"
    /\ pc = "copy" => Over /\ (script \in FixedScripts => Success)
    /\ pc = "join" => raised # "none" \/ Success
    /\ pc = "report" => Success

\* The loads that may have a row.
Reported(row) ==
    \/ row.whole
    \/ row.ended = "stopped0"
    \/ row.ended = "stopped1" /\ script \notin FixedScripts

\* The loop has a row for each round behind it (Row: rows is a sequence of anything).
RowInv ==
    /\ \E Row : rows \in Seq(Row)
    /\ \A i \in DOMAIN rows : Reported(rows[i])
    /\ ~restoring /\ pc \notin {"ended", "aggregate"} => Len(rows) = round - 1
    /\ (restoring /\ raised = "none") \/ pc = "aggregate" \/ aggregated
         => Len(rows) = RoundsOf(script)

\* Every experiment has a round.
LEMMA RoundsExist == \A s \in Scripts : RoundsOf(s) \in Nat /\ RoundsOf(s) >= 1
BY HostAssumption DEF HostAssumption, RoundsOf, Scripts, FixedScripts

\* What an exit code tells of the end, and no more.
LEMMA ExitCodes ==
    /\ ExitCode = 0 <=> load \in {"exit0", "stopped0"}
    /\ ExitCode \in {0, 1} <=> load \in {"exit0", "exit1", "stopped0", "stopped1"}
<1>1. CASE load \in {"exit0", "stopped0"}
  BY <1>1 DEF ExitCode
<1>2. CASE load \in {"exit1", "stopped1"}
  BY <1>2 DEF ExitCode
<1>3. CASE load \notin {"exit0", "stopped0", "exit1", "stopped1"}
  BY <1>3 DEF ExitCode
<1> QED BY <1>1, <1>2, <1>3

\* A report is reached only behind a Locust that ended with such a code.
LEMMA RoundStep ==
    ASSUME ControlInv, RoundInv, [Next]_vars PROVE RoundInv'
<1> USE RoundsExist
<1> USE DEF ControlInv, RoundInv, Success, Over, Phase, cluster, control, process, generator, lag,
            results, counters
<1>1. ASSUME NEW s \in Scripts, Start(s) PROVE RoundInv'
  BY <1>1 DEF Start
<1>2. CASE prepare_loadgen
  BY <1>2 DEF prepare_loadgen, GoTo, FirstCall
<1>3. CASE StartSampling
  BY <1>3 DEF StartSampling
<1>4. CASE StartLocust
  BY <1>4 DEF StartLocust
<1>5. CASE run_locust
  BY <1>5, ExitCodes
  DEF run_locust, GoTo, IsLocal, FixedScripts, Raise, RaiseInBody,
      RaiseWhileRestoring, EnterFinally, FirstCall, Leave
<1>6. CASE CopyResults
  BY <1>6, ExitCodes
  DEF CopyResults, GoTo, Raise, RaiseInBody, RaiseWhileRestoring, EnterFinally,
      FirstCall, Leave
<1>7. CASE AwaitProcess
  BY <1>7 DEF AwaitProcess, GoTo
<1>8. CASE JoinSampler
  BY <1>8 DEF JoinSampler, GoTo, EnterFinally, FirstCall, LeaveRound, KeepRound
<1>9. ASSUME NEW n, scale_email_workers(n) PROVE RoundInv'
  BY <1>9 DEF scale_email_workers, UpdateService, GoTo
<1>10. ASSUME NEW waited, WaitForServicesStable(waited) PROVE RoundInv'
  BY <1>10 DEF WaitForServicesStable, GoTo, Leave
<1>11. CASE Capture
  BY <1>11 DEF Capture, GoTo
<1>12. ASSUME NEW row, NEW aggregate, Summarise(row, aggregate) PROVE RoundInv'
  BY <1>12 DEF Summarise, NextRound, EnterFinally, FirstCall, LeaveRound
<1>13. CASE write_aggregate_csv
  BY <1>13 DEF write_aggregate_csv, GoTo
<1>14. CASE register_task_definition_with_env
  BY <1>14 DEF register_task_definition_with_env, GoTo
<1>15. ASSUME NEW s, NEW c, pc = "updateEmail" /\ UpdateService(s, c, "updateInapp")
      PROVE  RoundInv'
  BY <1>15 DEF UpdateService, GoTo
<1>16. ASSUME NEW s, NEW c, pc = "updateInapp" /\ UpdateService(s, c, "wait")
      PROVE  RoundInv'
  BY <1>16 DEF UpdateService, GoTo
<1>17. CASE CommandFails
  BY <1>17
  DEF CommandFails, LeaveRound, KeepRound, Raise, RaiseInBody, RaiseWhileRestoring,
      EnterFinally, FirstCall, Leave
<1>18. CASE Interrupt
  BY <1>18
  DEF Interrupt, Signal, LeaveRound, KeepRound, Raise, RaiseInBody,
      RaiseWhileRestoring, EnterFinally, FirstCall, Leave
<1>19. CASE InterruptGroup
  BY <1>19
  DEF InterruptGroup, Signal, Raise, RaiseInBody, RaiseWhileRestoring, EnterFinally,
      FirstCall, Leave
<1>20. CASE Terminate
  BY <1>20 DEF Terminate, Signal
<1>21. CASE TerminateAgain
  BY <1>21
  DEF TerminateAgain, Signal, Raise, RaiseInBody, RaiseWhileRestoring, EnterFinally,
      FirstCall, Leave
<1>22. ASSUME NEW sample, WriteSample(sample) PROVE RoundInv'
  BY <1>22 DEF WriteSample
<1>23. CASE lag_sampler_Hangs
  BY <1>23 DEF lag_sampler_Hangs
<1>24. CASE Tick \/ create_notification
  BY <1>24 DEF Tick, create_notification
<1>25. CASE LocustEnds
  BY <1>25 DEF LocustEnds
<1>26. CASE LocustStops \/ LocustLost
  BY <1>26 DEF LocustStops, LocustLost
<1>27. ASSUME NEW i, OrphanEnds(i) PROVE RoundInv'
  BY <1>27 DEF OrphanEnds
<1>28. ASSUME NEW s, Deploy(s) PROVE RoundInv'
  BY <1>28 DEF Deploy
<1>29. CASE UNCHANGED vars
  BY <1>29 DEF vars
<1> QED
  BY <1>1, <1>2, <1>3, <1>4, <1>5, <1>6, <1>7, <1>8, <1>9, <1>10, <1>11, <1>12,
     <1>13, <1>14, <1>15, <1>16, <1>17, <1>18, <1>19, <1>20, <1>21, <1>22, <1>23,
     <1>24, <1>25, <1>26, <1>27, <1>28, <1>29
  DEF Next, Driver, Measure, FixedLoadMain, BurstMain, IsolationMain, configure_worker_latencies,
      lag_sampler, lag_sampler_Fails

\* Summarise is the only step to write a row, and the only one to leave a round.
LEMMA RowStep ==
    ASSUME ControlInv, RoundInv, RowInv, [Next]_vars PROVE RowInv'
<1> USE RoundsExist
<1> USE DEF RowInv, Reported, RoundInv, ControlInv, cluster, control, process, generator, lag,
            results, counters
<1>1. ASSUME NEW s \in Scripts, Start(s) PROVE RowInv'
  BY <1>1 DEF Start
<1>2. CASE prepare_loadgen
  BY <1>2 DEF prepare_loadgen, GoTo, FirstCall
<1>3. CASE StartSampling
  BY <1>3 DEF StartSampling
<1>4. CASE StartLocust
  BY <1>4 DEF StartLocust
<1>5. CASE run_locust
  BY <1>5
  DEF run_locust, GoTo, Over, ExitCode, IsLocal, FixedScripts, Raise, RaiseInBody,
      RaiseWhileRestoring, EnterFinally, FirstCall, Leave
<1>6. CASE CopyResults
  BY <1>6
  DEF CopyResults, ExitCode, GoTo, Raise, RaiseInBody, RaiseWhileRestoring, EnterFinally,
      FirstCall, Leave
<1>7. CASE AwaitProcess
  BY <1>7 DEF AwaitProcess, GoTo
<1>8. CASE JoinSampler
  BY <1>8 DEF JoinSampler, GoTo, EnterFinally, FirstCall, LeaveRound, KeepRound
<1>9. ASSUME NEW n, scale_email_workers(n) PROVE RowInv'
  BY <1>9 DEF scale_email_workers, UpdateService, GoTo
<1>10. ASSUME NEW waited, WaitForServicesStable(waited) PROVE RowInv'
  BY <1>10 DEF WaitForServicesStable, GoTo, Leave
<1>11. CASE Capture
  BY <1>11 DEF Capture, GoTo
<1>12. ASSUME NEW row, NEW aggregate, Reported(row), aggregate => script = "burst",
           Summarise(row, aggregate) PROVE RowInv'
  <2>1. PICK Row : rows \in Seq(Row)
    BY DEF RowInv
  <2>2. rows \in Seq(Row \cup {row}) /\ rows' = Append(rows, row)
    BY <1>12, <2>1 DEF Summarise
  <2>3. rows' \in Seq(Row \cup {row}) /\ Len(rows') = Len(rows) + 1
    BY <2>2
  <2>4. \A i \in DOMAIN rows' : Reported(rows'[i])
    BY <1>12, <2>2, <2>3 DEF RowInv, Reported
  <2>5. Len(rows') = round
    BY <1>12, <2>3 DEF Summarise, RowInv, ControlInv, RoundInv
  <2>6. aggregated' => RoundsOf(script) = round
    BY <1>12 DEF Summarise, RowInv, RoundInv, RoundsOf, FixedScripts
  <2> QED
    BY <1>12, <2>3, <2>4, <2>5, <2>6
    DEF Summarise, NextRound, EnterFinally, FirstCall, RowInv, ControlInv, RoundInv, process
<1>13. CASE write_aggregate_csv
  BY <1>13 DEF write_aggregate_csv, GoTo
<1>14. CASE register_task_definition_with_env
  BY <1>14 DEF register_task_definition_with_env, GoTo
<1>15. ASSUME NEW s, NEW c, pc = "updateEmail" /\ UpdateService(s, c, "updateInapp")
      PROVE  RowInv'
  BY <1>15 DEF UpdateService, GoTo
<1>16. ASSUME NEW s, NEW c, pc = "updateInapp" /\ UpdateService(s, c, "wait")
      PROVE  RowInv'
  BY <1>16 DEF UpdateService, GoTo
<1>17. CASE CommandFails
  BY <1>17
  DEF CommandFails, LeaveRound, KeepRound, Raise, RaiseInBody, RaiseWhileRestoring,
      EnterFinally, FirstCall, Leave
<1>18. CASE Interrupt
  BY <1>18
  DEF Interrupt, Signal, LeaveRound, KeepRound, Raise, RaiseInBody,
      RaiseWhileRestoring, EnterFinally, FirstCall, Leave
<1>19. CASE InterruptGroup
  BY <1>19
  DEF InterruptGroup, Signal, Raise, RaiseInBody, RaiseWhileRestoring, EnterFinally,
      FirstCall, Leave
<1>20. CASE Terminate
  BY <1>20 DEF Terminate, Signal
<1>21. CASE TerminateAgain
  BY <1>21
  DEF TerminateAgain, Signal, Raise, RaiseInBody, RaiseWhileRestoring, EnterFinally,
      FirstCall, Leave
<1>22. ASSUME NEW sample, WriteSample(sample) PROVE RowInv'
  BY <1>22 DEF WriteSample
<1>23. CASE lag_sampler_Hangs
  BY <1>23 DEF lag_sampler_Hangs
<1>24. CASE Tick \/ create_notification
  BY <1>24 DEF Tick, create_notification
<1>25. CASE LocustEnds
  BY <1>25 DEF LocustEnds
<1>26. CASE LocustStops \/ LocustLost
  BY <1>26 DEF LocustStops, LocustLost
<1>27. ASSUME NEW i, OrphanEnds(i) PROVE RowInv'
  BY <1>27 DEF OrphanEnds
<1>28. ASSUME NEW s, Deploy(s) PROVE RowInv'
  BY <1>28 DEF Deploy
<1>29. CASE UNCHANGED vars
  BY <1>29 DEF vars
<1>30. ASSUME NEW label, NEW aggregate, aggregate => script = "burst",
           Summarise(RowOf(label), aggregate)
      PROVE  RowInv'
  <2>1. Reported(RowOf(label))
    BY <1>30 DEF RowOf, Reported, Success, Summarise
  <2> QED BY <1>30, <2>1, <1>12
<1>31. CASE FixedLoadMain
  BY <1>31, <1>9, <1>10, <1>13, <1>30 DEF FixedLoadMain
<1>32. CASE BurstMain
  BY <1>32, <1>9, <1>10, <1>11, <1>30 DEF BurstMain
<1>33. CASE IsolationMain
  BY <1>33, <1>10, <1>13, <1>14, <1>15, <1>16, <1>30
  DEF IsolationMain, configure_worker_latencies
<1> QED
  BY <1>1, <1>2, <1>3, <1>4, <1>5, <1>6, <1>7, <1>8, <1>17, <1>18, <1>19, <1>20, <1>21,
     <1>22, <1>23, <1>24, <1>25, <1>26, <1>27, <1>28, <1>29, <1>31, <1>32, <1>33
  DEF Next, Driver, Measure, lag_sampler, lag_sampler_Fails

-----------------------------------------------------------------------------
(* Restoration                                                             *)

\* What a driver restores is as deployed, or its restoration was cut short.
CountClean == desired["email"].count = 1 \/ "count" \in spoilt
LatencyClean == \A s \in Services : desired[s].latency = DefaultLatency[s] \/ "latency" \in spoilt

\* Before its first round and after its restoration a driver leaves nothing
\* changed that is not spoilt, and it never changes what it does not restore.
RestoreInv ==
    /\ desired \in Configuration /\ desired["inapp"].count = 1
    /\ script = "isolation" \/ pc \in {"ended", "prepare", "aggregate"} => CountClean
    /\ script # "isolation" \/ pc \in {"ended", "prepare", "aggregate"} => LatencyClean
    /\ restoring /\ pc \in {"updateInapp", "wait"} => desired["email"].count = 1
    /\ restoring /\ pc = "updateInapp" => desired["email"].latency = DefaultLatency["email"]
    /\ restoring /\ pc = "wait" /\ script = "isolation"
         => \A s \in Services : desired[s].latency = DefaultLatency[s]

\* The rounds have what the lists of the experiments give them.
LEMMA RoundValues ==
    ASSUME RoundInv
    PROVE  /\ script \in FixedScripts => FixedReplicas[round] \in Nat
           /\ script = "isolation" => IsolationRounds[round] \in [Services -> Nat]
<1>1. CASE script \in FixedScripts
  <2>1. RoundsOf(script) = Len(FixedReplicas) /\ script # "isolation"
    BY <1>1 DEF RoundsOf, FixedScripts
  <2>2. round \in 1 .. Len(FixedReplicas)
    BY <2>1 DEF RoundInv
  <2>3. FixedReplicas \in Seq(Nat)
    BY HostAssumption DEF HostAssumption
  <2>4. FixedReplicas[round] \in Nat
    BY <2>2, <2>3
  <2> QED BY <2>1, <2>4
<1>2. CASE script = "isolation"
  <2>1. script \notin FixedScripts /\ RoundsOf(script) = Len(IsolationRounds)
    BY <1>2 DEF RoundsOf, FixedScripts
  <2>2. round \in 1 .. Len(IsolationRounds)
    BY <2>1 DEF RoundInv
  <2>3. IsolationRounds \in Seq([Services -> Nat])
    BY HostAssumption DEF HostAssumption
  <2>4. IsolationRounds[round] \in [Services -> Nat]
    BY <2>2, <2>3
  <2> QED BY <2>1, <2>4
<1> QED BY <1>1, <1>2

\* An exception either finds nothing changed or enters the finally block, and the
\* block sets every dimension before it is left, or spoils what it did not set.
LEMMA RestoreStep ==
    ASSUME ControlInv, RoundInv, RestoreInv, [Next]_vars PROVE RestoreInv'
<1> USE DEF RestoreInv, ControlInv, CountClean, LatencyClean, Configuration, Services,
            Dimensions, cluster, control, process, generator, lag, results, counters
<1>1. ASSUME NEW s \in Scripts, Start(s) PROVE RestoreInv'
  BY <1>1 DEF Start
<1>2. CASE prepare_loadgen
  BY <1>2 DEF prepare_loadgen, GoTo, FirstCall
<1>3. CASE StartSampling
  BY <1>3 DEF StartSampling
<1>4. CASE StartLocust
  BY <1>4 DEF StartLocust
<1>5. CASE run_locust
  BY <1>5
  DEF run_locust, GoTo, Over, ExitCode, IsLocal, FixedScripts, Raise, RaiseInBody,
      RaiseWhileRestoring, EnterFinally, FirstCall, Leave
<1>6. CASE CopyResults
  BY <1>6
  DEF CopyResults, ExitCode, GoTo, Raise, RaiseInBody, RaiseWhileRestoring, EnterFinally,
      FirstCall, Leave
<1>7. CASE AwaitProcess
  BY <1>7 DEF AwaitProcess, GoTo
<1>8. CASE JoinSampler
  BY <1>8 DEF JoinSampler, GoTo, EnterFinally, FirstCall, LeaveRound, KeepRound
<1>9. ASSUME NEW n \in Nat, script # "isolation", restoring => n = 1,
           scale_email_workers(n) PROVE RestoreInv'
  BY <1>9 DEF scale_email_workers, UpdateService, GoTo
<1>10. ASSUME NEW waited, WaitForServicesStable(waited) PROVE RestoreInv'
  BY <1>10 DEF WaitForServicesStable, GoTo, Leave
<1>11. CASE Capture
  BY <1>11 DEF Capture, GoTo
<1>12. ASSUME NEW row, NEW aggregate, Summarise(row, aggregate) PROVE RestoreInv'
  BY <1>12 DEF Summarise, NextRound, EnterFinally, FirstCall, LeaveRound
<1>13. CASE write_aggregate_csv
  BY <1>13 DEF write_aggregate_csv, GoTo
<1>14. CASE register_task_definition_with_env
  BY <1>14 DEF register_task_definition_with_env, GoTo
<1>15. ASSUME NEW l \in [Services -> Nat], script = "isolation", restoring => l = DefaultLatency,
           pc = "updateEmail" /\ UpdateService("email", IsolationLabel(l)["email"], "updateInapp")
      PROVE  RestoreInv'
  BY <1>15 DEF UpdateService, GoTo, IsolationLabel
<1>16. ASSUME NEW l \in [Services -> Nat], script = "isolation", restoring => l = DefaultLatency,
           pc = "updateInapp" /\ UpdateService("inapp", IsolationLabel(l)["inapp"], "wait")
      PROVE  RestoreInv'
  BY <1>16 DEF UpdateService, GoTo, IsolationLabel
<1>17. CASE CommandFails
  BY <1>17
  DEF CommandFails, LeaveRound, KeepRound, Raise, RaiseInBody, RaiseWhileRestoring,
      EnterFinally, FirstCall, Leave
<1>18. CASE Interrupt
  BY <1>18
  DEF Interrupt, Signal, LeaveRound, KeepRound, Raise, RaiseInBody,
      RaiseWhileRestoring, EnterFinally, FirstCall, Leave
<1>19. CASE InterruptGroup
  BY <1>19
  DEF InterruptGroup, Signal, Raise, RaiseInBody, RaiseWhileRestoring, EnterFinally,
      FirstCall, Leave
<1>20. CASE Terminate
  BY <1>20 DEF Terminate, Signal
<1>21. CASE TerminateAgain
  BY <1>21
  DEF TerminateAgain, Signal, Raise, RaiseInBody, RaiseWhileRestoring, EnterFinally,
      FirstCall, Leave
<1>22. ASSUME NEW sample, WriteSample(sample) PROVE RestoreInv'
  BY <1>22 DEF WriteSample
<1>23. CASE lag_sampler_Hangs
  BY <1>23 DEF lag_sampler_Hangs
<1>24. CASE Tick \/ create_notification
  BY <1>24 DEF Tick, create_notification
<1>25. CASE LocustEnds
  BY <1>25 DEF LocustEnds
<1>26. CASE LocustStops \/ LocustLost
  BY <1>26 DEF LocustStops, LocustLost
<1>27. ASSUME NEW i, OrphanEnds(i) PROVE RestoreInv'
  BY <1>27 DEF OrphanEnds
<1>28. ASSUME NEW s, Deploy(s) PROVE RestoreInv'
  BY <1>28 DEF Deploy
<1>29. CASE UNCHANGED vars
  BY <1>29 DEF vars
<1>30. /\ script \in FixedScripts => FixedReplicas[round] \in Nat
       /\ script = "isolation" => IsolationRounds[round] \in [Services -> Nat]
  BY RoundValues
<1>31. CASE FixedLoadMain
  <2> DEFINE n == IF restoring THEN 1 ELSE FixedReplicas[round]
  <2>1. script \in FixedScripts /\ script # "isolation"
    BY <1>31 DEF FixedLoadMain, FixedScripts
  <2>2. scale_email_workers(n) => RestoreInv'
    <3>1. CASE restoring
      <4>1. n = 1
        BY <3>1
      <4> QED BY <4>1, <2>1, <1>9
    <3>2. CASE ~restoring
      <4>1. n = FixedReplicas[round]
        BY <3>2
      <4> QED BY <4>1, <3>2, <2>1, <1>30, <1>9
    <3> QED BY <3>1, <3>2
  <2> QED BY <1>31, <2>2, <1>10, <1>12, <1>13 DEF FixedLoadMain
<1>32. CASE BurstMain
  BY <1>32, <1>9, <1>10, <1>11, <1>12, HostAssumption DEF BurstMain, HostAssumption
<1>33. CASE IsolationMain
  <2>1. script = "isolation"
    BY <1>33 DEF IsolationMain
  <2>2. /\ Latencies \in [Services -> Nat]
        /\ restoring => Latencies = DefaultLatency
    <3>1. CASE restoring
      BY <3>1, HostAssumption DEF Latencies, HostAssumption
    <3>2. CASE ~restoring
      BY <3>2, <1>30, <2>1 DEF Latencies
    <3> QED BY <3>1, <3>2
  <2> QED
    BY <1>33, <2>1, <2>2, <1>10, <1>12, <1>13, <1>14, <1>15, <1>16
    DEF IsolationMain, configure_worker_latencies
<1> QED
  BY <1>1, <1>2, <1>3, <1>4, <1>5, <1>6, <1>7, <1>8, <1>17, <1>18, <1>19, <1>20, <1>21,
     <1>22, <1>23, <1>24, <1>25, <1>26, <1>27, <1>28, <1>29, <1>31, <1>32, <1>33
  DEF Next, Driver, Measure, lag_sampler, lag_sampler_Fails

-----------------------------------------------------------------------------
(* The properties                                                          *)

\* The inductive invariant: control and Locust first, the others on top of them.
IInv == NumberInv /\ ControlInv /\ OrphanInv /\ RoundInv /\ RowInv /\ RestoreInv

\* Before any experiment the services run as they are deployed.
LEMMA InitInv == Init => IInv
<1> SUFFICES ASSUME Init PROVE IInv
  OBVIOUS
<1>1. NumberInv /\ ControlInv /\ OrphanInv
  BY DEF Init, NumberInv, ControlInv, OrphanInv
<1>2. RoundInv
  BY RoundsExist DEF Init, RoundInv, Scripts, FixedScripts
<1>3. RowInv
  <2>1. rows \in Seq({}) /\ Len(rows) = 0 /\ DOMAIN rows = {}
    BY DEF Init
  <2> QED BY <2>1 DEF Init, RowInv
<1>4. RestoreInv
  <2>1. Defaults \in Configuration
    BY HostAssumption DEF HostAssumption, Defaults, Configuration, Services
  <2> QED
    BY <2>1 DEF Init, RestoreInv, Defaults, Services, CountClean, LatencyClean
<1> QED BY <1>1, <1>2, <1>3, <1>4 DEF IInv

\* The invariant holds whatever the drivers, the signals and ECS do.
THEOREM Invariance == Spec => []IInv
<1>1. Init => IInv
  BY InitInv
<1>2. IInv /\ [Next]_vars => IInv'
  BY NumberStep, ControlStep, OrphanStep, RoundStep, RowStep, RestoreStep DEF IInv
<1> QED BY <1>1, <1>2, PTL DEF Spec

\* A driver that lost sight of its Locust (a dropped SSH connection, an exception
\* while it reads the output) starts no other one in the same invocation.
THEOREM OneLoad == Spec => []OneLoadPerInvocation
<1>1. IInv => OneLoadPerInvocation
  BY DEF IInv, ControlInv, OrphanInv, OneLoadPerInvocation
<1> QED BY <1>1, Invariance, PTL

\* Each row of a summary stands for a load that ran to the end of its shape, or
\* for one whose Locust stopped early with a code its driver takes for a success;
\* summary.csv is written only with a row for every round.
THEOREM WholeSummaries == Spec => []SummariesAreWhole
<1>1. IInv => SummariesAreWhole
  BY DEF IInv, RowInv, Reported, SummariesAreWhole
<1> QED BY <1>1, Invariance, PTL

\* The finally block leaves the services as they were deployed, at whatever call
\* an exception found the driver, if nothing cuts that block short.
THEOREM Restored == Spec => []DefaultsRestored
<1>1. IInv => DefaultsRestored
  BY DEF IInv, RestoreInv, CountClean, LatencyClean, DefaultsRestored, Defaults, Services
<1> QED BY <1>1, Invariance, PTL

-----------------------------------------------------------------------------
(* What was measured                                                       *)

\* The part of a round in which its configuration is in place, and the part in
\* which it is measured.
MeasurePhase == {"load", "drain", "copy", "join", "report"}
LoadPhase == MeasurePhase \cup {"capture"}

\* The configuration the row of this round will claim.
Label ==
    IF script = "burst" THEN BurstLabel
    ELSE IF script = "isolation" THEN IsolationLabel(IsolationRounds[round])
    ELSE FixedLabel(round)

\* What MeasuredAsLabelled asks of a measured configuration.
Admissible(c, label) ==
    \/ c = label
    \/ /\ "latency" \in spoilt /\ script # "isolation"
       /\ c["email"].count = label["email"].count

\* The running tasks have the default latencies, unless experiment C is at work or
\* its restoration was cut short.
RunningInv ==
    /\ running \in Configuration /\ running["inapp"].count = 1
    /\ "latency" \notin spoilt /\ (script # "isolation" \/ pc \in {"ended", "prepare", "aggregate"})
          => \A s \in Services : running[s].latency = DefaultLatency[s]

\* Once a round has set and awaited its configuration it has it, to its end.
ConfiguredInv ==
    ~restoring =>
        /\ pc = "updateInapp" => desired["email"] = Label["email"]
        /\ pc \in LoadPhase \cup {"wait"} =>
              /\ script # "isolation" => desired["email"].count = Label["email"].count
              /\ script = "isolation" => desired = Label
        /\ pc \in LoadPhase =>
              /\ running["email"] = desired["email"]
              /\ script = "isolation" => running = desired

\* What was measured is admissible, while it is measured and in the rows.
MeasuredInv ==
    /\ measured # {} => ~restoring /\ pc \in MeasurePhase
    /\ \A c \in measured : Admissible(c, Label)
    /\ \A i \in DOMAIN rows : \A c \in rows[i].measured : Admissible(c, rows[i].label)

LabelInv == RunningInv /\ ConfiguredInv /\ MeasuredInv

\* Steps that neither change a service or a row nor wait for one.
Quiet ==
    /\ desired' = desired /\ running' = running /\ script' = script /\ rows' = rows
    /\ spoilt \subseteq spoilt'
    /\ pc' \in {"ended", "prepare", "aggregate"} =>
          \/ script # "isolation" \/ "latency" \in spoilt'
          \/ pc \in {"ended", "prepare", "aggregate"}
    /\ ~restoring' =>
          /\ pc' = "updateInapp" => ~restoring /\ pc = "updateInapp" /\ round' = round
          /\ pc' = "wait" => ~restoring /\ pc = "wait" /\ round' = round
          /\ pc' \in LoadPhase => ~restoring /\ pc \in LoadPhase /\ round' = round
    /\ \/ measured' = {}
       \/ /\ measured' = measured
          /\ ~restoring /\ pc \in MeasurePhase =>
                ~restoring' /\ pc' \in MeasurePhase /\ round' = round

\* What is admissible stays so as long as no spoilt latency is forgotten.
LEMMA AdmissibleStays ==
    ASSUME NEW c, NEW label, Admissible(c, label), script' = script,
           script # "isolation" /\ "latency" \in spoilt => "latency" \in spoilt'
    PROVE  \/ c = label
           \/ /\ "latency" \in spoilt' /\ script' # "isolation"
              /\ c["email"].count = label["email"].count
BY DEF Admissible

LEMMA LabelKept ==
    ASSUME script' = script, round' = round
    PROVE  Label' = Label
BY DEF Label, BurstLabel, FixedLabel, IsolationLabel, Defaults

LEMMA MeasuredKept ==
    ASSUME MeasuredInv, script' = script, rows' = rows,
           script # "isolation" /\ "latency" \in spoilt => "latency" \in spoilt',
           measured' = {} \/ (measured' = measured /\ Label' = Label),
           measured' # {} => ~restoring' /\ pc' \in MeasurePhase
    PROVE  MeasuredInv'
<1>1. ASSUME NEW c \in measured', measured' = measured, Label' = Label
      PROVE  Admissible(c, Label)'
  <2>1. Admissible(c, Label)
    BY <1>1 DEF MeasuredInv
  <2> QED BY <1>1, <2>1, AdmissibleStays DEF Admissible
<1>2. ASSUME NEW i \in DOMAIN rows, NEW c \in rows[i].measured
      PROVE  \/ c = rows[i].label
             \/ /\ "latency" \in spoilt' /\ script' # "isolation"
                /\ c["email"].count = rows[i].label["email"].count
  <2>1. Admissible(c, rows[i].label)
    BY <1>2 DEF MeasuredInv
  <2> QED BY <2>1, AdmissibleStays
<1>3. \A i \in DOMAIN rows' : \A c \in rows'[i].measured : Admissible(c, rows[i].label)'
  BY <1>2 DEF Admissible
<1>4. \A c \in measured' : Admissible(c, Label)'
  BY <1>1
<1> QED BY <1>3, <1>4 DEF MeasuredInv

LEMMA QuietKeepsLabels ==
    ASSUME LabelInv, Quiet
    PROVE  LabelInv'
<1>1. RunningInv'
  BY DEF LabelInv, RunningInv, Quiet, Configuration, Services
<1>2. ConfiguredInv'
  <2>1. CASE round' = round
    <3>1. Label' = Label
      BY <2>1, LabelKept DEF Quiet
    <3> QED BY <2>1, <3>1 DEF LabelInv, ConfiguredInv, Quiet
  <2>2. CASE round' # round
    BY <2>2 DEF ConfiguredInv, Quiet
  <2> QED BY <2>1, <2>2
<1>3. MeasuredInv'
  <2>1. measured' = {} \/ (measured' = measured /\ (measured # {} => Label' = Label))
    BY LabelKept DEF Quiet, LabelInv, MeasuredInv
  <2> QED BY <2>1, MeasuredKept DEF Quiet, LabelInv, MeasuredInv
<1> QED BY <1>1, <1>2, <1>3 DEF LabelInv

\* The calls, failures and signals that leave services and rows alone.
QuietStep ==
    \/ prepare_loadgen \/ StartSampling \/ run_locust \/ CopyResults \/ AwaitProcess
    \/ JoinSampler \/ Capture \/ register_task_definition_with_env \/ write_aggregate_csv
    \/ CommandFails \/ Interrupt \/ InterruptGroup \/ Terminate \/ TerminateAgain
    \/ lag_sampler \/ lag_sampler_Fails \/ lag_sampler_Hangs
    \/ Tick \/ create_notification \/ LocustEnds \/ LocustStops \/ LocustLost
    \/ \E i \in 1 .. MaxInvocations : OrphanEnds(i)
    \/ UNCHANGED vars

LEMMA QuietSteps ==
    ASSUME ControlInv, QuietStep
    PROVE  Quiet
<1> USE DEF Quiet, MeasurePhase, LoadPhase, ControlInv, cluster, control, process,
            generator, lag, results, counters
<1>1. CASE prepare_loadgen
  BY <1>1 DEF prepare_loadgen, GoTo, FirstCall
<1>2. CASE StartSampling
  BY <1>2 DEF StartSampling
<1>3. CASE run_locust
  BY <1>3
  DEF run_locust, GoTo, Over, ExitCode, IsLocal, FixedScripts, Raise, RaiseInBody,
      RaiseWhileRestoring, EnterFinally, FirstCall, Leave
<1>4. CASE CopyResults
  BY <1>4
  DEF CopyResults, ExitCode, GoTo, Raise, RaiseInBody, RaiseWhileRestoring, EnterFinally,
      FirstCall, Leave
<1>5. CASE AwaitProcess
  BY <1>5 DEF AwaitProcess, GoTo
<1>6. CASE JoinSampler
  BY <1>6 DEF JoinSampler, GoTo, EnterFinally, FirstCall, LeaveRound, KeepRound
<1>7. CASE Capture
  BY <1>7 DEF Capture, GoTo
<1>8. CASE register_task_definition_with_env
  BY <1>8 DEF register_task_definition_with_env, GoTo
<1>9. CASE write_aggregate_csv
  BY <1>9 DEF write_aggregate_csv, GoTo
<1>10. CASE CommandFails
  BY <1>10
  DEF CommandFails, LeaveRound, KeepRound, Raise, RaiseInBody, RaiseWhileRestoring,
      EnterFinally, FirstCall, Leave, Dimensions
<1>11. CASE Interrupt
  BY <1>11
  DEF Interrupt, Signal, LeaveRound, KeepRound, Raise, RaiseInBody,
      RaiseWhileRestoring, EnterFinally, FirstCall, Leave, Dimensions
<1>12. CASE InterruptGroup
  BY <1>12
  DEF InterruptGroup, Signal, Raise, RaiseInBody, RaiseWhileRestoring, EnterFinally,
      FirstCall, Leave
<1>13. CASE Terminate
  BY <1>13 DEF Terminate, Signal
<1>14. CASE TerminateAgain
  BY <1>14
  DEF TerminateAgain, Signal, Raise, RaiseInBody, RaiseWhileRestoring, EnterFinally,
      FirstCall, Leave
<1>15. ASSUME NEW sample, WriteSample(sample) PROVE Quiet
  BY <1>15 DEF WriteSample
<1>16. CASE lag_sampler_Hangs
  BY <1>16 DEF lag_sampler_Hangs
<1>17. CASE Tick \/ create_notification
  BY <1>17 DEF Tick, create_notification
<1>18. CASE LocustEnds
  BY <1>18 DEF LocustEnds
<1>19. CASE LocustStops \/ LocustLost
  BY <1>19 DEF LocustStops, LocustLost
<1>20. ASSUME NEW i, OrphanEnds(i) PROVE Quiet
  BY <1>20 DEF OrphanEnds
<1>21. CASE UNCHANGED vars
  BY <1>21 DEF vars
<1> QED
  BY <1>1, <1>2, <1>3, <1>4, <1>5, <1>6, <1>7, <1>8, <1>9, <1>10, <1>11, <1>12, <1>13,
     <1>14, <1>15, <1>16, <1>17, <1>18, <1>19, <1>20, <1>21
  DEF QuietStep, lag_sampler, lag_sampler_Fails

\* The deployment with another number of e-mail workers.
EmailWorkers(n) ==
    [s \in Services |->
        [count |-> IF s = "email" THEN n ELSE 1, latency |-> DefaultLatency[s]]]

LEMMA DefaultsExcept ==
    ASSUME NEW n
    PROVE  [Defaults EXCEPT !["email"].count = n] = EmailWorkers(n)
<1>1. \A s \in Services : Defaults[s] = [count |-> 1, latency |-> DefaultLatency[s]]
  BY DEF Defaults
<1>2. [Defaults["email"] EXCEPT !.count = n] = [count |-> n, latency |-> DefaultLatency["email"]]
  BY <1>1 DEF Services
<1>3. [Defaults EXCEPT !["email"].count = n]
        = [s \in Services |-> IF s = "email" THEN [Defaults["email"] EXCEPT !.count = n]
                             ELSE Defaults[s]]
  BY DEF Defaults, Services
<1> QED BY <1>1, <1>2, <1>3 DEF EmailWorkers

\* Without experiment C a label names a number of e-mail workers.
LEMMA LabelIsDefault ==
    ASSUME RoundInv, script # "isolation"
    PROVE  \E n \in Nat : /\ Label = EmailWorkers(n)
                          /\ n = IF script = "burst" THEN BurstReplicas ELSE FixedReplicas[round]
<1>1. CASE script = "burst"
  BY <1>1, DefaultsExcept, HostAssumption DEF Label, BurstLabel, HostAssumption
<1>2. CASE script # "burst"
  <2>1. script \in FixedScripts
    BY <1>2 DEF RoundInv, Scripts
  <2>2. FixedReplicas[round] \in Nat
    BY <2>1, RoundValues
  <2> QED BY <1>2, <2>2, DefaultsExcept DEF Label, FixedLabel
<1> QED BY <1>1, <1>2

\* The tasks that run in a round are admissible, whatever ECS replaces meanwhile.
LEMMA ConfigurationAdmissible ==
    ASSUME RoundInv, NEW c \in Configuration, c["inapp"].count = 1,
           script # "isolation" => c["email"].count = Label["email"].count,
           script = "isolation" => c = Label,
           (script # "isolation" /\ "latency" \notin spoilt)
              => \A s \in Services : c[s].latency = DefaultLatency[s]
    PROVE  Admissible(c, Label)
<1>1. CASE script = "isolation" \/ "latency" \in spoilt
  BY <1>1 DEF Admissible
<1>2. CASE script # "isolation" /\ "latency" \notin spoilt
  <2>1. PICK n \in Nat : Label = EmailWorkers(n)
    BY <1>2, LabelIsDefault
  <2>2. c["email"].count = n
    BY <1>2, <2>1 DEF EmailWorkers, Services
  <2>3. \A s \in Services : c[s] = [count |-> IF s = "email" THEN n ELSE 1,
                                    latency |-> DefaultLatency[s]]
    BY <1>2, <2>2 DEF Services, Configuration
  <2>4. c = Label
    BY <2>1, <2>3 DEF EmailWorkers, Configuration
  <2> QED BY <2>4 DEF Admissible
<1> QED BY <1>1, <1>2

LEMMA StartLabels ==
    ASSUME RestoreInv, ControlInv, LabelInv, NEW s \in Scripts, Start(s)
    PROVE  LabelInv'
<1> USE DEF cluster, control, process, counters
<1>1. /\ pc = "ended" /\ pc' = "prepare" /\ measured' = {} /\ rows' = <<>>
      /\ UNCHANGED <<desired, running, spoilt>>
  BY DEF Start
<1>2. RunningInv'
  BY <1>1 DEF LabelInv, RunningInv, Configuration, Services
<1>3. ConfiguredInv'
  BY <1>1 DEF ConfiguredInv, LoadPhase, MeasurePhase
<1>4. MeasuredInv'
  BY <1>1 DEF MeasuredInv
<1> QED BY <1>2, <1>3, <1>4 DEF LabelInv

LEMMA StartLocustLabels ==
    ASSUME RoundInv, ControlInv, LabelInv, StartLocust
    PROVE  LabelInv'
<1> USE DEF cluster, control, process, counters, lag, results
<1>1. /\ pc = "load" /\ measured' = {running} /\ ~restoring
      /\ UNCHANGED <<desired, running, spoilt, rows, pc, restoring, script, round>>
  BY DEF StartLocust, ControlInv
<1>2. RunningInv'
  BY <1>1 DEF LabelInv, RunningInv, Configuration, Services
<1>3. Label' = Label
  BY <1>1, LabelKept
<1>4. ConfiguredInv'
  BY <1>1, <1>3 DEF LabelInv, ConfiguredInv
<1>5. Admissible(running, Label)
  <2>1. /\ script # "isolation" => running["email"].count = Label["email"].count
        /\ script = "isolation" => running = Label
    BY <1>1 DEF LabelInv, ConfiguredInv, LoadPhase, MeasurePhase
  <2> QED BY <2>1, ConfigurationAdmissible DEF LabelInv, RunningInv
<1>6. Admissible(running, Label)'
  BY <1>1, <1>3, <1>5, AdmissibleStays DEF Admissible
<1>7. \A i \in DOMAIN rows' : \A c \in rows'[i].measured : Admissible(c, rows[i].label)'
  BY <1>1 DEF LabelInv, MeasuredInv, Admissible
<1>8. MeasuredInv'
  BY <1>1, <1>6, <1>7 DEF MeasuredInv, MeasurePhase
<1> QED BY <1>2, <1>4, <1>8 DEF LabelInv

LEMMA DeployLabels ==
    ASSUME RoundInv, RestoreInv, ControlInv, LabelInv, NEW s \in Services, Deploy(s)
    PROVE  LabelInv'
<1> USE DEF control, process, counters, lag, results, generator
<1>1. /\ running[s] # desired[s] /\ running' = [running EXCEPT ![s] = desired[s]]
      /\ measured' = IF load = "on" THEN measured \cup {running'} ELSE measured
      /\ UNCHANGED <<desired, spoilt, rows, pc, restoring, script, round>>
  BY DEF Deploy
<1>2. RunningInv'
  <2>1. running \in Configuration /\ desired \in Configuration
    BY DEF LabelInv, RunningInv, RestoreInv
  <2>2. \A x \in Services : running'[x] = IF x = s THEN desired[s] ELSE running[x]
    BY <1>1, <2>1 DEF Configuration
  <2>3. running' \in Configuration
    BY <1>1, <2>1 DEF Configuration
  <2>4. running'["inapp"].count = 1
    BY <2>2 DEF LabelInv, RunningInv, RestoreInv, Services
  <2>5. ("latency" \notin spoilt' /\ (script' # "isolation" \/ pc' \in {"ended", "prepare", "aggregate"}))
           => \A x \in Services : running'[x].latency = DefaultLatency[x]
    BY <1>1, <2>2 DEF LabelInv, RunningInv, RestoreInv, LatencyClean
  <2> QED BY <2>3, <2>4, <2>5 DEF RunningInv, Configuration
<1>3. Label' = Label
  BY <1>1, LabelKept
<1>4. (pc \in LoadPhase /\ ~restoring) =>
           running'["email"] = running["email"] /\ script # "isolation"
  <2>1. pc \in LoadPhase /\ ~restoring => running["email"] = desired["email"]
    BY DEF LabelInv, ConfiguredInv
  <2>2. running \in Configuration
    BY DEF LabelInv, RunningInv
  <2>3. pc \in LoadPhase /\ ~restoring => script # "isolation"
    BY <1>1 DEF LabelInv, ConfiguredInv
  <2> QED BY <1>1, <2>1, <2>2, <2>3 DEF Configuration
<1>5. ConfiguredInv'
  BY <1>1, <1>3, <1>4 DEF LabelInv, ConfiguredInv
<1>6. ASSUME load = "on"
      PROVE  pc \in MeasurePhase /\ ~restoring /\ Admissible(running', Label)
  <2>1. pc \in {"load", "drain"} /\ ~restoring
    BY <1>6 DEF ControlInv
  <2>2. pc \in LoadPhase /\ pc \in MeasurePhase
    BY <2>1 DEF LoadPhase, MeasurePhase
  <2>3. running'["email"].count = Label["email"].count /\ script # "isolation"
    BY <1>4, <2>1, <2>2 DEF LabelInv, ConfiguredInv
  <2>4. /\ running' \in Configuration /\ running'["inapp"].count = 1
        /\ ("latency" \notin spoilt => \A x \in Services : running'[x].latency = DefaultLatency[x])
    BY <1>1, <1>2, <2>3 DEF RunningInv, Configuration, Services
  <2> QED BY <2>1, <2>2, <2>3, <2>4, ConfigurationAdmissible
<1>7. MeasuredInv'
  <2>1. ASSUME NEW c \in measured' PROVE Admissible(c, Label)'
    <3>1. Admissible(c, Label)
      BY <1>1, <1>6, <2>1 DEF LabelInv, MeasuredInv
    <3> QED BY <1>1, <1>3, <3>1 DEF Admissible
  <2>2. \A i \in DOMAIN rows' : \A c \in rows'[i].measured : Admissible(c, rows[i].label)'
    BY <1>1 DEF LabelInv, MeasuredInv, Admissible
  <2>3. measured' # {} => ~restoring' /\ pc' \in MeasurePhase
    BY <1>1, <1>6 DEF LabelInv, MeasuredInv
  <2> QED BY <2>1, <2>2, <2>3 DEF MeasuredInv
<1> QED BY <1>2, <1>5, <1>7 DEF LabelInv

LEMMA UpdateLabels ==
    ASSUME LabelInv, NEW s \in Services, NEW change, NEW next \in {"wait", "updateInapp"},
           pc \in {"scale", "updateEmail", "updateInapp"}, UpdateService(s, change, next),
           (~restoring /\ next = "updateInapp") => desired'["email"] = Label["email"],
           (~restoring /\ next = "wait") =>
              /\ script # "isolation" => desired'["email"].count = Label["email"].count
              /\ script = "isolation" => desired' = Label
    PROVE  LabelInv'
<1> USE DEF process, counters, lag, results, generator
<1>1. /\ pc' = next /\ UNCHANGED <<running, restoring, script, round, rows, spoilt, measured>>
  BY DEF UpdateService, GoTo
<1>2. RunningInv'
  BY <1>1 DEF LabelInv, RunningInv, Configuration, Services
<1>3. Label' = Label
  BY <1>1, LabelKept
<1>4. ConfiguredInv'
  BY <1>1, <1>3 DEF ConfiguredInv, LoadPhase, MeasurePhase
<1>5. measured' = {}
  BY <1>1 DEF LabelInv, MeasuredInv, MeasurePhase
<1>6. MeasuredInv'
  BY <1>1, <1>5, MeasuredKept DEF LabelInv
<1> QED BY <1>2, <1>4, <1>6 DEF LabelInv

\* scale_email_workers asks for the replicas the row will claim.
LEMMA ScaleLabels ==
    ASSUME RoundInv, RestoreInv, LabelInv, NEW n, script # "isolation",
           ~restoring => n = IF script = "burst" THEN BurstReplicas ELSE FixedReplicas[round],
           scale_email_workers(n)
    PROVE  LabelInv'
<1>1. desired' = [desired EXCEPT !["email"] = [desired["email"] EXCEPT !.count = n]]
  BY DEF scale_email_workers, UpdateService
<1>2. desired'["email"].count = n
  BY <1>1 DEF RestoreInv, Configuration, Services
<1>3. ~restoring => n = Label["email"].count
  BY LabelIsDefault DEF EmailWorkers, Services
<1> QED BY <1>2, <1>3, UpdateLabels DEF scale_email_workers, Services

\* configure_worker_latencies asks for both services of the row, one by one.
LEMMA ConfigureLabels ==
    ASSUME RestoreInv, LabelInv, script = "isolation",
           \/ pc = "updateEmail" /\ UpdateService("email", IsolationLabel(Latencies)["email"], "updateInapp")
           \/ pc = "updateInapp" /\ UpdateService("inapp", IsolationLabel(Latencies)["inapp"], "wait")
    PROVE  LabelInv'
<1>1. ~restoring => IsolationLabel(Latencies) = Label
  BY DEF Latencies, Label
<1>2. CASE pc = "updateEmail" /\ UpdateService("email", IsolationLabel(Latencies)["email"], "updateInapp")
  <2>1. desired'["email"] = IsolationLabel(Latencies)["email"]
    BY <1>2 DEF UpdateService, RestoreInv, Configuration, Services
  <2> QED BY <1>1, <1>2, <2>1, UpdateLabels DEF Services
<1>3. CASE pc = "updateInapp" /\ UpdateService("inapp", IsolationLabel(Latencies)["inapp"], "wait")
  <2>1. ASSUME ~restoring PROVE desired' = Label
    <3>1. desired["email"] = Label["email"]
      BY <1>3, <2>1 DEF LabelInv, ConfiguredInv
    <3>2. desired' = [desired EXCEPT !["inapp"] = Label["inapp"]]
      BY <1>1, <1>3, <2>1 DEF UpdateService
    <3>3. Label = [s \in Services |-> Label[s]]
      BY <1>1, <2>1 DEF IsolationLabel
    <3> QED BY <3>1, <3>2, <3>3 DEF RestoreInv, Configuration, Services
  <2> QED BY <1>3, <2>1, UpdateLabels DEF Services
<1> QED BY <1>2, <1>3

\* The wait ends only when the tasks that run are those that were asked for.
LEMMA WaitLabels ==
    ASSUME RestoreInv, LabelInv, NEW waited \in SUBSET Services, "email" \in waited,
           script = "isolation" => waited = Services, WaitForServicesStable(waited)
    PROVE  LabelInv'
<1> USE DEF cluster, process, counters, lag, results, generator
<1>1. /\ pc = "wait" /\ \A s \in waited : running[s] = desired[s]
      /\ UNCHANGED <<desired, running, script, rows, measured, round>>
      /\ restoring => /\ spoilt' = spoilt \ Dimensions(script) /\ ~restoring'
                      /\ pc' \in {"aggregate", "ended"}
      /\ ~restoring => /\ spoilt' = spoilt /\ restoring' = restoring
                       /\ pc' \in {"capture", "load"}
  BY DEF WaitForServicesStable, Leave, GoTo
<1>2. Label' = Label
  BY <1>1, LabelKept
<1>3. script = "isolation" => running = desired
  BY <1>1 DEF LabelInv, RunningInv, RestoreInv, Configuration
<1>4. script # "isolation" => ("latency" \in spoilt' <=> "latency" \in spoilt)
  BY <1>1 DEF Dimensions
<1>5. RunningInv'
  <2>1. CASE script = "isolation" /\ restoring
    <3>1. \A s \in Services : running[s].latency = DefaultLatency[s]
      BY <1>1, <1>3, <2>1 DEF RestoreInv
    <3> QED BY <1>1, <3>1 DEF LabelInv, RunningInv, Configuration, Services
  <2>2. CASE script = "isolation" /\ ~restoring
    BY <1>1, <2>2 DEF LabelInv, RunningInv, Configuration, Services
  <2>3. CASE script # "isolation"
    BY <1>1, <1>4, <2>3 DEF LabelInv, RunningInv, Configuration, Services
  <2> QED BY <2>1, <2>2, <2>3
<1>6. ConfiguredInv'
  <2>1. CASE restoring
    BY <1>1, <2>1 DEF ConfiguredInv, LoadPhase, MeasurePhase
  <2>2. CASE ~restoring
    BY <1>1, <1>2, <1>3, <2>2 DEF LabelInv, ConfiguredInv, LoadPhase, MeasurePhase
  <2> QED BY <2>1, <2>2
<1>7. measured' = {}
  BY <1>1 DEF LabelInv, MeasuredInv, MeasurePhase
<1>8. MeasuredInv'
  BY <1>1, <1>4, <1>7, MeasuredKept DEF LabelInv
<1> QED BY <1>5, <1>6, <1>8 DEF LabelInv

\* The row that is written claims what was measured.
LEMMA SummariseLabels ==
    ASSUME RowInv, LabelInv, NEW aggregate, Summarise(RowOf(Label), aggregate)
    PROVE  LabelInv'
<1> USE DEF cluster, process, counters
<1>1. /\ pc = "report" /\ rows' = Append(rows, RowOf(Label))
      /\ measured' = {} /\ UNCHANGED <<desired, running, script, spoilt>>
      /\ pc' \in {"register", "scale"}
  BY DEF Summarise, LeaveRound, NextRound, EnterFinally, FirstCall
<1>2. RunningInv'
  BY <1>1 DEF LabelInv, RunningInv, Configuration, Services
<1>3. ConfiguredInv'
  BY <1>1 DEF ConfiguredInv, LoadPhase, MeasurePhase
<1>4. ASSUME NEW i \in DOMAIN rows', NEW c \in rows'[i].measured
      PROVE  Admissible(c, rows'[i].label)
  <2>1. PICK Row : rows \in Seq(Row)
    BY DEF RowInv
  <2>2. /\ DOMAIN rows' = 1 .. Len(rows) + 1 /\ rows'[Len(rows) + 1] = RowOf(Label)
        /\ \A k \in 1 .. Len(rows) : rows'[k] = rows[k]
        /\ DOMAIN rows = 1 .. Len(rows) /\ Len(rows) \in Nat
    <3>1. PICK Wider : Wider = Row \cup {RowOf(Label)}
      OBVIOUS
    <3>2. rows \in Seq(Wider) /\ RowOf(Label) \in Wider
      BY <2>1, <3>1
    <3> HIDE DEF RowOf, Label
    <3> QED BY <1>1, <3>2
  <2>3. CASE i \in DOMAIN rows
    BY <1>4, <2>2, <2>3 DEF LabelInv, MeasuredInv
  <2>4. CASE i = Len(rows) + 1
    <3>1. rows'[i].measured = measured /\ rows'[i].label = Label
      BY <2>2, <2>4 DEF RowOf
    <3> QED BY <1>4, <3>1 DEF LabelInv, MeasuredInv
  <2> QED BY <1>4, <2>2, <2>3, <2>4
<1>5. MeasuredInv'
  BY <1>1, <1>4 DEF MeasuredInv, Admissible
<1> QED BY <1>2, <1>3, <1>5 DEF LabelInv

\* No step makes a row claim what was not measured.
LEMMA LabelStep ==
    ASSUME ControlInv, RoundInv, RowInv, RestoreInv, LabelInv, [Next]_vars
    PROVE  LabelInv'
<1>1. CASE QuietStep
  BY <1>1, QuietSteps, QuietKeepsLabels
<1>2. ASSUME NEW s \in Scripts, Start(s) PROVE LabelInv'
  BY <1>2, StartLabels
<1>3. CASE StartLocust
  BY <1>3, StartLocustLabels
<1>4. ASSUME NEW s \in Services, Deploy(s) PROVE LabelInv'
  BY <1>4, DeployLabels
<1>5. CASE FixedLoadMain
  <2>1. script \in FixedScripts /\ script # "isolation" /\ script # "burst"
    BY <1>5 DEF FixedLoadMain, FixedScripts
  <2>2. FixedLabel(round) = Label
    BY <2>1 DEF Label
  <2>3. ASSUME scale_email_workers(IF restoring THEN 1 ELSE FixedReplicas[round])
        PROVE  LabelInv'
    BY <2>1, <2>3, ScaleLabels
  <2>4. ASSUME WaitForServicesStable({"email"}) PROVE LabelInv'
    BY <2>1, <2>4, WaitLabels DEF Services
  <2>5. ASSUME Summarise(RowOf(FixedLabel(round)), FALSE) PROVE LabelInv'
    BY <2>2, <2>5, SummariseLabels
  <2>6. ASSUME write_aggregate_csv PROVE LabelInv'
    BY <2>6, <1>1 DEF QuietStep
  <2> QED BY <1>5, <2>3, <2>4, <2>5, <2>6 DEF FixedLoadMain
<1>6. CASE BurstMain
  <2>1. script = "burst" /\ script # "isolation" /\ BurstLabel = Label
    BY <1>6 DEF BurstMain, Label
  <2>2. ASSUME scale_email_workers(IF restoring THEN 1 ELSE BurstReplicas)
        PROVE  LabelInv'
    BY <2>1, <2>2, ScaleLabels
  <2>3. ASSUME WaitForServicesStable({"email"}) PROVE LabelInv'
    BY <2>1, <2>3, WaitLabels DEF Services
  <2>4. ASSUME Summarise(RowOf(BurstLabel), TRUE) PROVE LabelInv'
    BY <2>1, <2>4, SummariseLabels
  <2>5. ASSUME Capture PROVE LabelInv'
    BY <2>5, <1>1 DEF QuietStep
  <2> QED BY <1>6, <2>2, <2>3, <2>4, <2>5 DEF BurstMain
<1>7. CASE IsolationMain
  <2>1. script = "isolation" /\ IsolationLabel(IsolationRounds[round]) = Label
    BY <1>7 DEF IsolationMain, Label
  <2>2. ASSUME WaitForServicesStable(Services) PROVE LabelInv'
    BY <2>1, <2>2, WaitLabels DEF Services
  <2>3. ASSUME Summarise(RowOf(IsolationLabel(IsolationRounds[round])), FALSE) PROVE LabelInv'
    BY <2>1, <2>3, SummariseLabels
  <2>4. ASSUME write_aggregate_csv \/ register_task_definition_with_env PROVE LabelInv'
    BY <2>4, <1>1 DEF QuietStep
  <2> QED
    BY <1>7, <2>1, <2>2, <2>3, <2>4, ConfigureLabels
    DEF IsolationMain, configure_worker_latencies
<1> QED
  BY <1>1, <1>2, <1>3, <1>4, <1>5, <1>6, <1>7 DEF Next, Driver, Measure, QuietStep

\* At first the services run as deployed and nothing is measured.
LEMMA LabelAtStart == Init => LabelInv
<1> SUFFICES ASSUME Init PROVE LabelInv
  OBVIOUS
<1>1. RunningInv
  <2>1. Defaults \in Configuration
    BY HostAssumption DEF HostAssumption, Defaults, Configuration, Services
  <2> QED BY <2>1 DEF Init, RunningInv, Defaults, Services
<1>2. ConfiguredInv
  BY DEF Init, ConfiguredInv, LoadPhase, MeasurePhase
<1>3. MeasuredInv
  <2>1. DOMAIN rows = {} /\ measured = {}
    BY DEF Init
  <2> QED BY <2>1 DEF MeasuredInv
<1> QED BY <1>1, <1>2, <1>3 DEF LabelInv

LEMMA LabelInvariance == Spec => []LabelInv
<1>1. IInv /\ LabelInv /\ [Next]_vars => LabelInv'
  BY LabelStep DEF IInv
<1> QED BY LabelAtStart, Invariance, <1>1, PTL DEF Spec

\* Every row of a summary was measured with the configuration it names, whenever
\* ECS replaces tasks and wherever drivers fail or are interrupted; only a latency
\* that a cut-short restoration of experiment C left behind is carried into the
\* rows of the others.
THEOREM RowsAreLabelled == Spec => []MeasuredAsLabelled
<1>1. LabelInv => MeasuredAsLabelled
  BY DEF LabelInv, MeasuredInv, MeasuredAsLabelled, Admissible
<1> QED BY <1>1, LabelInvariance, PTL

-----------------------------------------------------------------------------
(* The phases of a burst                                                   *)

\* Locust begins no later than MaxDelay after start_time, and no time is counted
\* before that.
DelayInv ==
    /\ elapsed \in Nat /\ began \in Nat /\ began <= MaxDelay /\ began <= elapsed
    /\ load = "none" => (elapsed <= MaxDelay /\ began = 0)

\* Steps that let no time go by and start no Locust.
Timeless ==
    \/ elapsed' = elapsed /\ began' = began /\ (load' = "none" => load = "none")
    \/ elapsed' = 0 /\ (began' = 0 \/ (began' = began /\ load = "none"))

LEMMA TimelessKeepsDelay ==
    ASSUME DelayInv, Timeless
    PROVE  DelayInv'
BY HostAssumption DEF DelayInv, Timeless, HostAssumption

LEMMA DelayStep ==
    ASSUME DelayInv, [Next]_vars
    PROVE  DelayInv'
<1> USE TimelessKeepsDelay
<1> USE DEF Timeless, cluster, control, process, generator, lag, results, counters
<1>1. ASSUME NEW s \in Scripts, Start(s) PROVE DelayInv'
  BY <1>1 DEF Start
<1>2. CASE prepare_loadgen
  BY <1>2 DEF prepare_loadgen
<1>3. CASE StartSampling
  BY <1>3 DEF StartSampling
<1>4. CASE StartLocust
  BY <1>4 DEF StartLocust, DelayInv
<1>5. CASE run_locust
  BY <1>5 DEF run_locust
<1>6. CASE CopyResults
  BY <1>6 DEF CopyResults
<1>7. CASE AwaitProcess
  BY <1>7 DEF AwaitProcess
<1>8. CASE JoinSampler
  BY <1>8 DEF JoinSampler, LeaveRound, KeepRound
<1>9. ASSUME NEW s, NEW change, NEW next, UpdateService(s, change, next) PROVE DelayInv'
  BY <1>9 DEF UpdateService
<1>10. ASSUME NEW waited, WaitForServicesStable(waited) PROVE DelayInv'
  BY <1>10 DEF WaitForServicesStable
<1>11. CASE Capture
  BY <1>11 DEF Capture
<1>12. ASSUME NEW row, NEW aggregate, Summarise(row, aggregate) PROVE DelayInv'
  BY <1>12 DEF Summarise, LeaveRound
<1>13. CASE write_aggregate_csv
  BY <1>13 DEF write_aggregate_csv
<1>14. CASE register_task_definition_with_env
  BY <1>14 DEF register_task_definition_with_env
<1>15. CASE CommandFails
  BY <1>15 DEF CommandFails, LeaveRound, KeepRound
<1>16. CASE Interrupt
  BY <1>16 DEF Interrupt, LeaveRound, KeepRound
<1>17. CASE InterruptGroup \/ Terminate \/ TerminateAgain
  BY <1>17 DEF InterruptGroup, Terminate, TerminateAgain
<1>18. ASSUME NEW sample, WriteSample(sample) PROVE DelayInv'
  BY <1>18 DEF WriteSample
<1>19. CASE lag_sampler_Hangs \/ create_notification
  BY <1>19 DEF lag_sampler_Hangs, create_notification
<1>20. CASE Tick
  <2>1. /\ elapsed' = elapsed + 1 /\ began' = began /\ load' = load
        /\ load = "none" => elapsed < MaxDelay
    BY <1>20 DEF Tick
  <2> QED BY <2>1, HostAssumption DEF DelayInv, HostAssumption
<1>21. CASE LocustEnds \/ LocustStops \/ LocustLost
  BY <1>21 DEF LocustEnds, LocustStops, LocustLost
<1>22. ASSUME NEW i, OrphanEnds(i) PROVE DelayInv'
  BY <1>22 DEF OrphanEnds
<1>23. ASSUME NEW s, Deploy(s) PROVE DelayInv'
  BY <1>23 DEF Deploy
<1>24. CASE UNCHANGED vars
  BY <1>24 DEF vars
<1> QED
  BY <1>1, <1>2, <1>3, <1>4, <1>5, <1>6, <1>7, <1>8, <1>9, <1>10, <1>11, <1>12, <1>13,
     <1>14, <1>15, <1>16, <1>17, <1>18, <1>19, <1>20, <1>21, <1>22, <1>23, <1>24
  DEF Next, Driver, Measure, FixedLoadMain, BurstMain, IsolationMain,
      configure_worker_latencies, scale_email_workers, lag_sampler, lag_sampler_Fails

\* The phases of the history, in their order.
LEMMA HistoryPhases ==
    ASSUME NEW offset \in Nat
    PROVE  /\ offset < SpikeStart => HistoryPhase(offset) = "baseline"
           /\ SpikeStart <= offset /\ offset < SpikeEnd => HistoryPhase(offset) = "spike"
           /\ SpikeEnd <= offset /\ offset < BurstEnd => HistoryPhase(offset) = "recovery"
           /\ BurstEnd <= offset => HistoryPhase(offset) = "none"
<1> DEFINE phases == [baseline |-> <<0, BASELINE_DURATION>>,
                      spike    |-> <<SpikeStart, SpikeStart + SPIKE_DURATION>>,
                      recovery |-> <<SpikeEnd, SpikeEnd + RECOVERY_DURATION>>]
           Within(phase) == phases[phase][1] <= offset /\ offset < phases[phase][2]
<1>1. /\ DOMAIN phases = {"baseline", "spike", "recovery"}
      /\ phases["baseline"][1] = 0 /\ phases["baseline"][2] = SpikeStart
      /\ phases["spike"][1] = SpikeStart /\ phases["spike"][2] = SpikeEnd
      /\ phases["recovery"][1] = SpikeEnd /\ phases["recovery"][2] = BurstEnd
  BY DEF SpikeStart, SpikeEnd, BurstEnd
<1>2. /\ SpikeStart \in Nat /\ SpikeEnd \in Nat /\ BurstEnd \in Nat
      /\ SpikeStart < SpikeEnd /\ SpikeEnd < BurstEnd
  BY DurationAssumption DEF DurationAssumption, SpikeStart, SpikeEnd, BurstEnd
<1>3. HistoryPhase(offset) = IF \E phase \in DOMAIN phases : Within(phase)
                             THEN CHOOSE phase \in DOMAIN phases : Within(phase) ELSE "none"
  BY DEF HistoryPhase
<1> HIDE DEF phases
<1>4. /\ Within("baseline") <=> offset < SpikeStart
      /\ Within("spike") <=> SpikeStart <= offset /\ offset < SpikeEnd
      /\ Within("recovery") <=> SpikeEnd <= offset /\ offset < BurstEnd
  BY <1>1, <1>2
<1> HIDE DEF Within
<1>5. CASE offset < SpikeStart
  <2>1. Within("baseline") /\ ~Within("spike") /\ ~Within("recovery")
    BY <1>2, <1>4, <1>5
  <2> QED BY <1>1, <1>2, <1>3, <1>5, <2>1
<1>6. CASE SpikeStart <= offset /\ offset < SpikeEnd
  <2>1. ~Within("baseline") /\ Within("spike") /\ ~Within("recovery")
    BY <1>2, <1>4, <1>6
  <2> QED BY <1>1, <1>2, <1>3, <1>6, <2>1
<1>7. CASE SpikeEnd <= offset /\ offset < BurstEnd
  <2>1. ~Within("baseline") /\ ~Within("spike") /\ Within("recovery")
    BY <1>2, <1>4, <1>7
  <2> QED BY <1>1, <1>2, <1>3, <1>7, <2>1
<1>8. CASE BurstEnd <= offset
  <2>1. ~Within("baseline") /\ ~Within("spike") /\ ~Within("recovery")
    BY <1>2, <1>4, <1>8
  <2> QED BY <1>1, <1>2, <1>3, <1>8, <2>1
<1> QED BY <1>2, <1>5, <1>6, <1>7, <1>8

\* The phases of Locust's own shape, in the same order.
LEMMA ShapePhases ==
    ASSUME NEW r \in Nat
    PROVE  /\ r < SpikeStart => tick("burst", r) = "baseline"
           /\ SpikeStart <= r /\ r < SpikeEnd => tick("burst", r) = "spike"
           /\ SpikeEnd <= r /\ r < BurstEnd => tick("burst", r) = "recovery"
           /\ BurstEnd <= r => tick("burst", r) = "over"
<1>1. /\ SpikeStart \in Nat /\ SpikeEnd \in Nat /\ BurstEnd \in Nat
      /\ SpikeStart < SpikeEnd /\ SpikeEnd < BurstEnd
  BY DurationAssumption DEF DurationAssumption, SpikeStart, SpikeEnd, BurstEnd
<1> QED BY <1>1 DEF tick

\* If Locust begins within one spike and one recovery of start_time, a row it
\* wrote in one phase of the burst is counted in that phase of the history or in
\* the next one, and in the next one only if Locust began late.
THEOREM HistoryFollowsShape ==
    ASSUME MaxDelay <= SPIKE_DURATION, MaxDelay <= RECOVERY_DURATION
    PROVE  Spec => []PhasesAgree
<1> DEFINE order == <<"baseline", "spike", "recovery", "none">>
           Number(phase) == CHOOSE i \in DOMAIN order : order[i] = phase
<1>1. /\ Number("baseline") = 1 /\ Number("spike") = 2
      /\ Number("recovery") = 3 /\ Number("none") = 4
  <2>1. /\ DOMAIN order = {1, 2, 3, 4}
        /\ order[1] = "baseline" /\ order[2] = "spike" /\ order[3] = "recovery" /\ order[4] = "none"
    OBVIOUS
  <2> HIDE DEF order
  <2> QED BY <2>1
<1>2. PhasesAgree <=>
         (load = "on" /\ script = "burst" /\ Phase # "over" =>
             \/ Number(HistoryPhase(elapsed)) - Number(Phase) = 0
             \/ began > 0 /\ Number(HistoryPhase(elapsed)) - Number(Phase) = 1)
  BY DEF PhasesAgree
<1> HIDE DEF Number
<1>3. DelayInv => PhasesAgree
  <2> SUFFICES ASSUME DelayInv, load = "on", script = "burst", Phase # "over"
               PROVE  \/ Number(HistoryPhase(elapsed)) - Number(Phase) = 0
                      \/ began > 0 /\ Number(HistoryPhase(elapsed)) - Number(Phase) = 1
    BY <1>2
  <2>1. PICK r \in Nat : r = elapsed - began
    BY DEF DelayInv
  <2>2. Phase = tick("burst", r)
    BY <2>1 DEF Phase, ModeOf
  <2>3. /\ elapsed \in Nat /\ elapsed = r + began /\ began \in Nat
        /\ began <= SPIKE_DURATION /\ began <= RECOVERY_DURATION
    BY <2>1, HostAssumption, DurationAssumption DEF DelayInv, HostAssumption, DurationAssumption
  <2>4. /\ SpikeStart \in Nat /\ SpikeEnd = SpikeStart + SPIKE_DURATION
        /\ BurstEnd = SpikeEnd + RECOVERY_DURATION
        /\ SPIKE_DURATION \in Nat \ {0} /\ RECOVERY_DURATION \in Nat \ {0}
    BY DurationAssumption DEF DurationAssumption, SpikeStart, SpikeEnd, BurstEnd
  <2>5. CASE r < SpikeStart
    <3>1. Number(Phase) = 1
      BY <1>1, <2>2, <2>5, ShapePhases
    <3>2. elapsed < SpikeEnd
      BY <2>3, <2>4, <2>5
    <3> QED BY <1>1, <2>3, <2>4, <2>5, <3>1, <3>2, HistoryPhases
  <2>6. CASE SpikeStart <= r /\ r < SpikeEnd
    <3>1. Number(Phase) = 2
      BY <1>1, <2>2, <2>6, ShapePhases
    <3>2. SpikeStart <= elapsed /\ elapsed < BurstEnd
      BY <2>3, <2>4, <2>6
    <3> QED BY <1>1, <2>3, <2>4, <2>6, <3>1, <3>2, HistoryPhases
  <2>7. CASE SpikeEnd <= r /\ r < BurstEnd
    <3>1. Number(Phase) = 3
      BY <1>1, <2>2, <2>7, ShapePhases
    <3>2. SpikeEnd <= elapsed
      BY <2>3, <2>4, <2>7
    <3> QED BY <1>1, <2>3, <2>4, <2>7, <3>1, <3>2, HistoryPhases
  <2>8. CASE BurstEnd <= r
    BY <2>2, <2>8, ShapePhases
  <2> QED BY <2>4, <2>5, <2>6, <2>7, <2>8
<1>4. Init => DelayInv
  BY HostAssumption DEF Init, DelayInv, HostAssumption
<1>5. DelayInv /\ [Next]_vars => DelayInv'
  BY DelayStep
<1> QED BY <1>3, <1>4, <1>5, PTL DEF Spec

-----------------------------------------------------------------------------
(* The recovery loop                                                       *)

SampleType == [at : Nat, lag : Nat, genuine : BOOLEAN]

\* Induction over the numbers, for a set of them.
LEMMA SetInduction ==
    ASSUME NEW T \in SUBSET Nat, 0 \in T, \A n \in T : n + 1 \in T
    PROVE  \A n \in Nat : n \in T
<1> SUFFICES ASSUME Nat \ T # {}
             PROVE  FALSE
  OBVIOUS
<1>1. PICK m \in Nat \ T : \A k \in Nat \ T : ~ (<<k, m>> \in OpToRel(<, Nat))
  <2>1. Nat \ T \subseteq Nat
    OBVIOUS
  <2> QED BY <2>1, WFMin, NatLessThanWellFounded, Zenon
<1>2. m - 1 \in Nat /\ m - 1 < m /\ (m - 1) + 1 = m
  <2>1. m \in Nat /\ m # 0
    BY <1>1
  <2> QED BY <2>1
<1>3. m - 1 \in Nat \ T
  BY <1>1, <1>2
<1>4. ~ (<<m - 1, m>> \in {ss \in Nat \X Nat : ss[1] < ss[2]})
  BY <1>1, <1>3, Zenon DEF OpToRel
<1> QED BY <1>1, <1>2, <1>4

\* Among some samples and 0 there is a largest lag.
LEMMA LargestLag ==
    ASSUME NEW s \in Seq(SampleType), NEW places \in SUBSET DOMAIN s
    PROVE  \E m \in Lags(s, places) \cup {0} :
              m \in Nat /\ \A l \in Lags(s, places) \cup {0} : m >= l
<1> DEFINE Until(n) == {i \in places : i <= n}
           Lag(i) == s[i].lag
           Largest(n, m) == /\ m \in Nat
                            /\ m = 0 \/ \E i \in Until(n) : m = Lag(i)
                            /\ \A i \in Until(n) : m >= Lag(i)
           Known(n) == \E m : Largest(n, m)
           T == {n \in Nat : Known(n)}
<1>1. /\ Len(s) \in Nat /\ DOMAIN s = 1 .. Len(s)
      /\ \A i \in places : Lag(i) \in Nat
  <2>1. \A i \in DOMAIN s : s[i] \in SampleType
    OBVIOUS
  <2> QED BY <2>1 DEF SampleType
<1> HIDE DEF Lag
<1>2. Known(0)
  <2>1. Until(0) = {}
    BY <1>1
  <2>2. Largest(0, 0)
    BY <2>1
  <2> HIDE DEF Largest
  <2> QED BY <2>2
<1>3. ASSUME NEW n \in Nat, Known(n) PROVE Known(n + 1)
  <2>1. PICK m : Largest(n, m)
    BY <1>3
  <2>2. CASE n + 1 \notin places
    <3>1. Until(n + 1) = Until(n)
      BY <1>1, <2>2
    <3>2. Largest(n + 1, m)
      BY <2>1, <3>1
    <3> HIDE DEF Largest
    <3> QED BY <3>2
  <2>3. CASE n + 1 \in places
    <3>1. Until(n + 1) = Until(n) \cup {n + 1}
      BY <1>1, <2>3
    <3>2. PICK c \in Nat : c = Lag(n + 1)
      BY <1>1, <2>3
    <3>3. CASE m >= c
      <4>1. Largest(n + 1, m)
        BY <2>1, <3>1, <3>2, <3>3
      <4> HIDE DEF Largest
      <4> QED BY <4>1
    <3>4. CASE ~(m >= c)
      <4>1. \A i \in Until(n) : c >= Lag(i)
        BY <1>1, <2>1, <3>4
      <4>2. Largest(n + 1, c)
        BY <3>1, <3>2, <4>1
      <4> HIDE DEF Largest
      <4> QED BY <4>2
    <3> QED BY <3>3, <3>4
  <2> QED BY <2>2, <2>3
<1>4. Known(Len(s))
  <2> HIDE DEF Known
  <2>1. 0 \in T /\ \A n \in T : n + 1 \in T
    BY <1>2, <1>3
  <2>2. \A n \in Nat : n \in T
    <3> HIDE DEF T
    <3>1. T \in SUBSET Nat
      BY DEF T
    <3> QED BY <2>1, <3>1, SetInduction
  <2> QED BY <1>1, <2>2
<1>5. PICK m : Largest(Len(s), m)
  BY <1>4
<1>6. Until(Len(s)) = places
  BY <1>1
<1>7. Lags(s, places) = {Lag(i) : i \in places}
  BY DEF Lags, Lag
<1>8. m \in Lags(s, places) \cup {0} /\ \A l \in Lags(s, places) \cup {0} : m >= l
  BY <1>5, <1>6, <1>7
<1> QED BY <1>5, <1>8

\* The threshold is a number, whatever was measured before the spike.
LEMMA ThresholdIsANumber ==
    ASSUME NEW s \in Seq(SampleType)
    PROVE  RecoveryThreshold(s) \in Nat
<1> DEFINE lags == Lags(s, BaselineSamples(s)) \cup {0}
<1>1. BaselineSamples(s) \in SUBSET DOMAIN s
  BY DEF BaselineSamples
<1>2. \E m \in lags : m \in Nat /\ \A l \in lags : m >= l
  BY <1>1, LargestLag
<1>3. \A l \in lags : l \in Nat
  <2>1. \A i \in DOMAIN s : s[i] \in SampleType
    OBVIOUS
  <2> QED BY <1>1, <2>1 DEF SampleType, Lags
<1> HIDE DEF lags
<1>4. PICK m \in Nat : m = Max(lags)
  <2>1. Max(lags) \in lags
    BY <1>2 DEF Max
  <2> QED BY <1>3, <2>1
<1>5. \E x \in {5, m + 5} : \A y \in {5, m + 5} : x >= y
  OBVIOUS
<1>6. Max({5, m + 5}) \in {5, m + 5}
  BY <1>5 DEF Max
<1> QED BY <1>4, <1>6 DEF RecoveryThreshold, lags

\* What RecoveryLoop says of each of its states, up to the n-th sample.
NextState(s, f, i) == IF i = 0 THEN Counting(0) ELSE RecoveryStep(s, f[i - 1], i)
States(s, n, f) == f = [i \in 0 .. n |-> NextState(s, f, i)]

\* The loop has a state after each sample.
LEMMA StatesExist ==
    ASSUME NEW s, NEW L \in Nat
    PROVE  \E f : States(s, L, f)
<1> DEFINE Known(n) == \E f : States(s, n, f)
           T == {n \in Nat : Known(n)}
<1>1. Known(0)
  <2> DEFINE f == [i \in 0 .. 0 |-> Counting(0)]
  <2>1. States(s, 0, f)
    BY DEF States, NextState
  <2> QED BY <2>1
<1>2. ASSUME NEW n \in Nat, Known(n) PROVE Known(n + 1)
  <2>1. PICK f : States(s, n, f)
    BY <1>2
  <2> DEFINE g == [i \in 0 .. n + 1 |-> IF i <= n THEN f[i] ELSE RecoveryStep(s, f[n], n + 1)]
  <2>2. \A i \in 0 .. n : f[i] = NextState(s, f, i)
    <3> HIDE DEF NextState
    <3> QED BY <2>1 DEF States
  <2>3. \A i \in 0 .. n : g[i] = f[i]
    OBVIOUS
  <2>4. g[n + 1] = RecoveryStep(s, f[n], n + 1)
    OBVIOUS
  <2>5. ASSUME NEW i \in 0 .. n + 1 PROVE g[i] = NextState(s, g, i)
    <3>1. CASE i = 0
      <4>1. g[0] = f[0]
        BY <2>3
      <4> QED BY <2>2, <3>1, <4>1 DEF NextState
    <3>2. CASE i \in 1 .. n
      <4>1. g[i] = f[i] /\ g[i - 1] = f[i - 1] /\ i # 0 /\ i \in 0 .. n
        <5>1. i \in 0 .. n /\ i - 1 \in 0 .. n /\ i # 0
          BY <3>2
        <5> QED BY <2>3, <5>1
      <4> HIDE DEF g
      <4> QED BY <2>2, <4>1 DEF NextState
    <3>3. CASE i = n + 1
      <4>1. i - 1 = n /\ i # 0 /\ n \in 0 .. n
        BY <3>3
      <4>2. g[i - 1] = f[n]
        BY <2>3, <4>1
      <4> HIDE DEF g
      <4> QED BY <2>4, <3>3, <4>1, <4>2 DEF NextState
    <3>4. i = 0 \/ i \in 1 .. n \/ i = n + 1
      OBVIOUS
    <3> QED BY <3>1, <3>2, <3>3, <3>4
  <2>6. g = [i \in 0 .. n + 1 |-> g[i]]
    OBVIOUS
  <2>7. States(s, n + 1, g)
    <3> HIDE DEF g
    <3> QED BY <2>5, <2>6 DEF States
  <2> HIDE DEF g
  <2> QED BY <2>7
<1>3. \A n \in Nat : n \in T
  <2> HIDE DEF Known
  <2>1. 0 \in T /\ \A n \in T : n + 1 \in T
    BY <1>1, <1>2
  <2> HIDE DEF T
  <2>2. T \in SUBSET Nat
    BY DEF T
  <2> QED BY <2>1, <2>2, SetInduction
<1> QED BY <1>3

\* The loop is what it does with one sample after the other.
LEMMA LoopHasStates ==
    ASSUME NEW s, Len(s) \in Nat
    PROVE  \E f : /\ RecoveryLoop(s) = f[Len(s)]
                  /\ f[0] = Counting(0)
                  /\ \A i \in 1 .. Len(s) : f[i] = RecoveryStep(s, f[i - 1], i)
<1>1. PICK f : f = CHOOSE g : States(s, Len(s), g)
  OBVIOUS
<1>2. States(s, Len(s), f)
  BY <1>1, StatesExist
<1>3. RecoveryLoop(s) = f[Len(s)]
  BY <1>1 DEF RecoveryLoop, States, NextState
<1>4. \A i \in 0 .. Len(s) : f[i] = NextState(s, f, i)
  <2> HIDE DEF NextState
  <2> QED BY <1>2 DEF States
<1>5. f[0] = Counting(0)
  BY <1>4 DEF NextState
<1>6. \A i \in 1 .. Len(s) : f[i] = RecoveryStep(s, f[i - 1], i)
  BY <1>4 DEF NextState
<1> QED BY <1>3, <1>5, <1>6

\* How the low samples in a row go on with the next sample.
LEMMA RunsGrow ==
    ASSUME samples \in Seq(SampleType), NEW n \in Nat
    PROVE  /\ LowRun(0) = {}
           /\ n + 1 \notin PostSpike(samples) => LowRun(n + 1) = LowRun(n)
           /\ n + 1 \in PostSpike(samples) /\ ~(samples[n + 1].lag <= RecoveryThreshold(samples))
                 => LowRun(n + 1) = {}
           /\ n + 1 \in PostSpike(samples) /\ samples[n + 1].lag <= RecoveryThreshold(samples)
                 => LowRun(n + 1) = LowRun(n) \cup {n + 1}
           /\ n + 1 \notin LowRun(n)
<1> DEFINE after == PostSpike(samples)
           Low(l) == samples[l].lag <= RecoveryThreshold(samples)
<1>1. \A i : LowRun(i) = {j \in after : j <= i /\ \A l \in after : j <= l /\ l <= i => Low(l)}
  BY DEF LowRun
<1>2. after \subseteq Nat \ {0}
  <2>1. DOMAIN samples = 1 .. Len(samples) /\ Len(samples) \in Nat
    OBVIOUS
  <2> QED BY <2>1 DEF PostSpike
<1> HIDE DEF after, Low
<1>3. \A j \in after : j \in Nat /\ j # 0 /\ (j <= n + 1 <=> j <= n \/ j = n + 1)
  BY <1>2
<1>4. LowRun(0) = {} /\ n + 1 \notin LowRun(n)
  <2>1. \A j \in after : ~(j <= 0)
    BY <1>2
  <2>2. LowRun(0) = {}
    BY <1>1, <2>1
  <2>3. ~(n + 1 <= n)
    OBVIOUS
  <2>4. n + 1 \notin LowRun(n)
    BY <1>1, <2>3
  <2> QED BY <2>2, <2>4
<1>5. CASE n + 1 \notin after
  <2>1. \A j \in after : j <= n + 1 <=> j <= n
    BY <1>3, <1>5
  <2>2. LowRun(n + 1) = LowRun(n)
    BY <1>1, <2>1
  <2> QED BY <1>4, <1>5, <2>2 DEF after
<1>6. CASE n + 1 \in after /\ ~Low(n + 1)
  <2>1. LowRun(n + 1) = {}
    BY <1>1, <1>3, <1>6
  <2> QED BY <1>4, <1>6, <2>1 DEF after, Low
<1>7. CASE n + 1 \in after /\ Low(n + 1)
  <2>1. ASSUME NEW j \in after, j <= n
        PROVE  j \in LowRun(n + 1) <=> j \in LowRun(n)
    <3>1. j <= n + 1
      BY <1>3, <2>1
    <3>2. (\A l \in after : j <= l /\ l <= n + 1 => Low(l))
             <=> (\A l \in after : j <= l /\ l <= n => Low(l))
      BY <1>3, <1>7
    <3> QED BY <1>1, <2>1, <3>1, <3>2
  <2>2. n + 1 \in LowRun(n + 1)
    <3>1. \A l \in after : n + 1 <= l /\ l <= n + 1 => l = n + 1
      BY <1>2
    <3> QED BY <1>1, <1>7, <3>1
  <2>3. LowRun(n + 1) = LowRun(n) \cup {n + 1}
    BY <1>1, <1>3, <2>1, <2>2
  <2> QED BY <1>4, <1>7, <2>3 DEF after, Low
<1> QED BY <1>5, <1>6, <1>7

\* A place at which enough low samples in a row have been seen.
Ends(i) == Cardinality(LowRun(i)) >= RECOVERY_CONSECUTIVE_SAMPLES

\* The loop reports the first such place, if there is one.
LEMMA LoopFindsFirstRun ==
    ASSUME samples \in Seq(SampleType)
    PROVE  LET recovered == RecoveryLoop(samples).recovered
           IN  IF recovered = None THEN \A i \in PostSpike(samples) : ~Ends(i)
               ELSE \E i \in PostSpike(samples) :
                       /\ samples[i].at = recovered
                       /\ Ends(i) /\ \A j \in PostSpike(samples) : j < i => ~Ends(j)
<1> DEFINE after == PostSpike(samples)
           k == RECOVERY_CONSECUTIVE_SAMPLES
           L == Len(samples)
           First(i) == Ends(i) /\ \A j \in after : j < i => ~Ends(j)
           Counted(i, c) == c = Cardinality(LowRun(i)) /\ c \in Nat /\ c < k
                               /\ \A j \in after : j <= i => ~Ends(j)
           Found(at) == at \in Nat /\ \E i \in after : samples[i].at = at /\ First(i)
           Good(i, acc) == \/ \E c : acc = Counting(c) /\ Counted(i, c)
                           \/ acc.recovered # None /\ Found(acc.recovered)
<1>1. k \in Nat \ {0}
  BY RecoveryAssumption DEF RecoveryAssumption
<1>2. /\ L \in Nat /\ DOMAIN samples = 1 .. L
      /\ \A i \in 1 .. L : samples[i].at \in Nat /\ samples[i].lag \in Nat
  <2>1. L \in Nat /\ DOMAIN samples = 1 .. L /\ \A i \in 1 .. L : samples[i] \in SampleType
    OBVIOUS
  <2> QED BY <2>1 DEF SampleType
<1>3. after \subseteq 1 .. L
  BY <1>2 DEF PostSpike
<1>4. \A i : IsFiniteSet(LowRun(i)) /\ Cardinality(LowRun(i)) \in Nat
  <2> TAKE i
  <2>1. LowRun(i) \subseteq 1 .. L
    BY <1>3 DEF LowRun
  <2>2. IsFiniteSet(1 .. L)
    BY <1>2, FS_Interval
  <2> QED BY <2>1, <2>2, FS_Subset, FS_CardinalityType
<1>5. RecoveryThreshold(samples) \in Nat
  BY ThresholdIsANumber
<1>6. PICK f : /\ RecoveryLoop(samples) = f[L]
               /\ f[0] = Counting(0)
               /\ \A i \in 1 .. L : f[i] = RecoveryStep(samples, f[i - 1], i)
  BY <1>2, LoopHasStates
<1> HIDE DEF k, L, after
<1>7. \A c : Counting(c).recovered = None /\ Counting(c).consecutive = c
  BY DEF Counting
<1>8. Good(0, f[0])
  <2>1. Cardinality(LowRun(0)) = 0
    BY RunsGrow, FS_EmptySet
  <2>2. \A j \in after : ~(j <= 0)
    BY <1>2, <1>3
  <2>3. Counted(0, 0)
    BY <1>1, <2>1, <2>2
  <2> HIDE DEF Counted
  <2> QED BY <1>6, <2>3
<1>9. ASSUME NEW n \in Nat, n + 1 \in 1 .. L, Good(n, f[n])
      PROVE  Good(n + 1, f[n + 1])
  <2>1. f[n + 1] = RecoveryStep(samples, f[n], n + 1)
    BY <1>6, <1>9
  <2>2. CASE f[n].recovered # None
    <3>1. f[n + 1] = f[n] /\ Found(f[n].recovered)
      <4>1. f[n + 1] = f[n]
        BY <2>1, <2>2 DEF RecoveryStep
      <4> HIDE DEF Found, Counted
      <4> QED BY <1>7, <1>9, <2>2, <4>1
    <3> HIDE DEF Found, Counted
    <3> QED BY <2>2, <3>1
  <2>3. CASE f[n].recovered = None
    <3>1. PICK c : f[n] = Counting(c) /\ Counted(n, c)
      <4> HIDE DEF Found, Counted
      <4> QED BY <1>9, <2>3
    <3>2. f[n].consecutive = c
      BY <1>7, <3>1
    <3>3. ~(n + 1 < n + 1) /\ \A j \in after : j <= n + 1 <=> j <= n \/ j = n + 1
      BY <1>2, <1>3
    <3>4. \A j \in after : j < n + 1 <=> j <= n
      BY <1>2, <1>3
    <3>5. CASE n + 1 \notin after
      <4>1. f[n + 1] = f[n]
        BY <2>1, <3>5 DEF RecoveryStep, after
      <4>2. LowRun(n + 1) = LowRun(n)
        BY <3>5, RunsGrow DEF after
      <4>3. Counted(n + 1, c)
        BY <3>1, <3>3, <3>5, <4>2
      <4> HIDE DEF Found, Counted
      <4> QED BY <3>1, <4>1, <4>3
    <3>6. CASE n + 1 \in after /\ samples[n + 1].lag > RecoveryThreshold(samples)
      <4>1. f[n + 1] = Counting(0)
        BY <2>1, <2>3, <3>6 DEF RecoveryStep, after
      <4>2. LowRun(n + 1) = {}
        <5>1. ~(samples[n + 1].lag <= RecoveryThreshold(samples))
          BY <1>2, <1>5, <1>9, <3>6
        <5> QED BY <3>6, <5>1, RunsGrow DEF after
      <4>3. Cardinality(LowRun(n + 1)) = 0
        BY <4>2, FS_EmptySet
      <4>4. ~Ends(n + 1)
        BY <1>1, <4>3 DEF Ends, k
      <4>5. Counted(n + 1, 0)
        BY <1>1, <3>1, <3>3, <4>3, <4>4
      <4> HIDE DEF Found, Counted
      <4> QED BY <4>1, <4>5
    <3>7. CASE n + 1 \in after /\ ~(samples[n + 1].lag > RecoveryThreshold(samples))
      <4>1. samples[n + 1].lag <= RecoveryThreshold(samples)
        BY <1>2, <1>5, <1>9, <3>7
      <4>2. LowRun(n + 1) = LowRun(n) \cup {n + 1} /\ n + 1 \notin LowRun(n)
        BY <3>7, <4>1, RunsGrow DEF after
      <4>3. Cardinality(LowRun(n + 1)) = c + 1
        BY <1>4, <3>1, <4>2, FS_AddElement
      <4>4. CASE c + 1 >= k
        <5>1. f[n + 1] = [f[n] EXCEPT !.recovered = samples[n + 1].at]
          BY <2>1, <2>3, <3>2, <3>7, <4>4 DEF RecoveryStep, after, k
        <5>2. f[n + 1].recovered = samples[n + 1].at
          BY <3>1, <5>1 DEF Counting
        <5>3. First(n + 1)
          BY <3>1, <3>4, <4>3, <4>4 DEF Ends, k
        <5>4. samples[n + 1].at \in Nat /\ samples[n + 1].at # None
          BY <1>2, <1>9 DEF None
        <5>5. Found(f[n + 1].recovered)
          BY <3>7, <5>2, <5>3, <5>4
        <5> HIDE DEF Found, Counted
        <5> QED BY <5>2, <5>4, <5>5
      <4>5. CASE ~(c + 1 >= k)
        <5>1. f[n + 1] = Counting(c + 1)
          BY <2>1, <2>3, <3>2, <3>7, <4>5 DEF RecoveryStep, after, k
        <5>2. ~Ends(n + 1)
          BY <4>3, <4>5 DEF Ends, k
        <5>3. c + 1 \in Nat /\ c + 1 < k
          BY <1>1, <3>1, <4>5
        <5>4. Counted(n + 1, c + 1)
          BY <3>1, <3>3, <4>3, <5>2, <5>3
        <5> HIDE DEF Found, Counted
        <5> QED BY <5>1, <5>4
      <4> QED BY <4>4, <4>5
    <3> QED BY <3>5, <3>6, <3>7
  <2> QED BY <2>2, <2>3
<1>10. Good(L, f[L])
  <2> DEFINE T == {n \in Nat : n \in 0 .. L => Good(n, f[n])}
  <2> HIDE DEF Good
  <2>1. 0 \in T
    BY <1>8
  <2>2. ASSUME NEW n \in T PROVE n + 1 \in T
    BY <1>2, <1>9 DEF L
  <2>3. \A n \in Nat : n \in T
    <3> HIDE DEF T
    <3>1. T \in SUBSET Nat
      BY DEF T
    <3> QED BY <2>1, <2>2, <3>1, SetInduction
  <2> QED BY <1>2, <2>3 DEF L
<1>11. CASE RecoveryLoop(samples).recovered = None
  <2>1. PICK c : Counted(L, c)
    <3> HIDE DEF Found, Counted
    <3> QED BY <1>6, <1>10, <1>11
  <2>2. \A i \in after : i <= L
    BY <1>2, <1>3 DEF L
  <2> QED BY <1>11, <2>1, <2>2 DEF after
<1>12. CASE RecoveryLoop(samples).recovered # None
  <2>1. Found(f[L].recovered)
    <3> HIDE DEF Found, Counted
    <3> QED BY <1>6, <1>7, <1>10, <1>12
  <2> QED BY <1>6, <1>12, <2>1 DEF after
<1> QED BY <1>11, <1>12

\* Samples that were not measured each took a failure.
NotGenuine == {i \in DOMAIN samples : ~samples[i].genuine}

SamplesInv ==
    /\ samples \in Seq(SampleType) /\ failures \in Nat
    /\ Cardinality(NotGenuine) <= failures

\* Steps that write no sample: the file is kept or left behind.
LEMMA SamplesKept ==
    ASSUME SamplesInv, samples' \in {samples, <<>>}, failures' \in {failures, failures + 1}
    PROVE  SamplesInv'
<1>1. IsFiniteSet(NotGenuine) /\ Cardinality(NotGenuine) \in Nat
  <2>1. Len(samples) \in Nat /\ DOMAIN samples = 1 .. Len(samples)
    BY DEF SamplesInv
  <2>2. IsFiniteSet(1 .. Len(samples)) /\ NotGenuine \subseteq 1 .. Len(samples)
    BY <2>1, FS_Interval DEF NotGenuine
  <2> QED BY <2>2, FS_Subset, FS_CardinalityType
<1>2. failures' \in Nat /\ failures <= failures'
  BY DEF SamplesInv
<1>3. CASE samples' = samples
  <2>1. NotGenuine' = NotGenuine
    BY <1>3 DEF NotGenuine
  <2>2. Cardinality(NotGenuine') <= failures'
    BY <1>1, <1>2, <2>1 DEF SamplesInv
  <2> QED BY <1>2, <1>3, <2>2 DEF SamplesInv
<1>4. CASE samples' = <<>>
  <2>1. NotGenuine' = {}
    BY <1>4 DEF NotGenuine
  <2>2. Cardinality(NotGenuine') = 0
    BY <2>1, FS_EmptySet
  <2> QED BY <1>2, <1>4, <2>2 DEF SamplesInv
<1> QED BY <1>3, <1>4

\* A sample is written, at the cost of a failure if nothing was measured.
LEMMA SampleWritten ==
    ASSUME SamplesInv, NEW sample \in SampleType, samples' = Append(samples, sample),
           IF sample.genuine THEN failures' = failures ELSE failures' = failures + 1
    PROVE  SamplesInv'
<1> DEFINE L == Len(samples)
<1>1. /\ L \in Nat /\ DOMAIN samples = 1 .. L /\ samples' \in Seq(SampleType)
      /\ DOMAIN samples' = DOMAIN samples \cup {L + 1}
      /\ \A i \in 1 .. L : samples'[i] = samples[i]
      /\ samples'[L + 1] = sample
  BY DEF SamplesInv
<1>2. IsFiniteSet(NotGenuine) /\ Cardinality(NotGenuine) \in Nat
  <2>1. IsFiniteSet(1 .. L) /\ NotGenuine \subseteq 1 .. L
    BY <1>1, FS_Interval DEF NotGenuine
  <2> QED BY <2>1, FS_Subset, FS_CardinalityType
<1>3. failures \in Nat /\ Cardinality(NotGenuine) <= failures
  BY DEF SamplesInv
<1>4. L + 1 \notin 1 .. L
  BY <1>1
<1> HIDE DEF L
<1>5. CASE sample.genuine
  <2>1. NotGenuine' = NotGenuine
    BY <1>1, <1>4, <1>5 DEF NotGenuine
  <2>2. failures' = failures
    BY <1>5
  <2> QED BY <1>1, <1>3, <2>1, <2>2 DEF SamplesInv
<1>6. CASE ~sample.genuine
  <2>1. NotGenuine' = NotGenuine \cup {L + 1} /\ L + 1 \notin NotGenuine
    BY <1>1, <1>4, <1>6 DEF NotGenuine
  <2>2. Cardinality(NotGenuine') = Cardinality(NotGenuine) + 1
    BY <1>2, <2>1, FS_AddElement
  <2>3. failures' = failures + 1
    BY <1>6
  <2>4. Cardinality(NotGenuine') <= failures' /\ failures' \in Nat
    BY <1>2, <1>3, <2>2, <2>3
  <2> QED BY <1>1, <2>4 DEF SamplesInv
<1> QED BY <1>5, <1>6

LEMMA SamplesStep ==
    ASSUME SamplesInv, DelayInv, [Next]_vars
    PROVE  SamplesInv'
<1> USE SamplesKept
<1> USE DEF cluster, control, process, generator, lag, results, counters
<1>1. ASSUME NEW s \in Scripts, Start(s) PROVE SamplesInv'
  BY <1>1 DEF Start
<1>2. CASE prepare_loadgen
  BY <1>2 DEF prepare_loadgen
<1>3. CASE StartSampling
  BY <1>3 DEF StartSampling
<1>4. CASE StartLocust
  BY <1>4 DEF StartLocust
<1>5. CASE run_locust
  BY <1>5 DEF run_locust
<1>6. CASE CopyResults
  BY <1>6 DEF CopyResults
<1>7. CASE AwaitProcess
  BY <1>7 DEF AwaitProcess
<1>8. CASE JoinSampler
  BY <1>8 DEF JoinSampler, LeaveRound, KeepRound
<1>9. ASSUME NEW s, NEW change, NEW next, UpdateService(s, change, next) PROVE SamplesInv'
  BY <1>9 DEF UpdateService
<1>10. ASSUME NEW waited, WaitForServicesStable(waited) PROVE SamplesInv'
  BY <1>10 DEF WaitForServicesStable
<1>11. CASE Capture
  BY <1>11 DEF Capture
<1>12. ASSUME NEW row, NEW aggregate, Summarise(row, aggregate) PROVE SamplesInv'
  BY <1>12 DEF Summarise, LeaveRound
<1>13. CASE write_aggregate_csv
  BY <1>13 DEF write_aggregate_csv
<1>14. CASE register_task_definition_with_env
  BY <1>14 DEF register_task_definition_with_env
<1>15. CASE CommandFails
  BY <1>15 DEF CommandFails, LeaveRound, KeepRound
<1>16. CASE Interrupt
  BY <1>16 DEF Interrupt, LeaveRound, KeepRound
<1>17. CASE InterruptGroup \/ Terminate \/ TerminateAgain
  BY <1>17 DEF InterruptGroup, Terminate, TerminateAgain
<1>18. ASSUME NEW sample \in SampleType, WriteSample(sample),
              IF sample.genuine THEN failures' = failures ELSE failures' = failures + 1
       PROVE  SamplesInv'
  <2>1. samples' = Append(samples, sample) \/ samples' = samples
    BY <1>18 DEF WriteSample
  <2>2. failures' \in {failures, failures + 1}
    BY <1>18
  <2> QED BY <1>18, <2>1, <2>2, SampleWritten
<1>19. CASE lag_sampler
  <2>1. PICK value \in LagValues :
           /\ WriteSample([at |-> elapsed, lag |-> value, genuine |-> TRUE])
           /\ failures' = failures
    BY <1>19 DEF lag_sampler
  <2>2. [at |-> elapsed, lag |-> value, genuine |-> TRUE] \in SampleType
    BY HostAssumption DEF HostAssumption, SampleType, DelayInv
  <2> QED BY <1>18, <2>1, <2>2
<1>20. CASE lag_sampler_Fails
  <2>1. /\ WriteSample([at |-> elapsed, lag |-> 0, genuine |-> FALSE])
        /\ failures' = failures + 1
    BY <1>20 DEF lag_sampler_Fails
  <2>2. [at |-> elapsed, lag |-> 0, genuine |-> FALSE] \in SampleType
    BY DEF SampleType, DelayInv
  <2> QED BY <1>18, <2>1, <2>2
<1>21. CASE lag_sampler_Hangs \/ create_notification
  BY <1>21 DEF lag_sampler_Hangs, create_notification
<1>22. CASE Tick
  BY <1>22 DEF Tick
<1>23. CASE LocustEnds \/ LocustStops \/ LocustLost
  BY <1>23 DEF LocustEnds, LocustStops, LocustLost
<1>24. ASSUME NEW i, OrphanEnds(i) PROVE SamplesInv'
  BY <1>24 DEF OrphanEnds
<1>25. ASSUME NEW s, Deploy(s) PROVE SamplesInv'
  BY <1>25 DEF Deploy
<1>26. CASE UNCHANGED vars
  BY <1>26 DEF vars
<1> QED
  BY <1>1, <1>2, <1>3, <1>4, <1>5, <1>6, <1>7, <1>8, <1>9, <1>10, <1>11, <1>12, <1>13,
     <1>14, <1>15, <1>16, <1>17, <1>19, <1>20, <1>21, <1>22, <1>23, <1>24, <1>25, <1>26
  DEF Next, Driver, Measure, FixedLoadMain, BurstMain, IsolationMain,
      configure_worker_latencies, scale_email_workers

LEMMA RecoveryInit == Init => DelayInv /\ SamplesInv
<1> SUFFICES ASSUME Init PROVE DelayInv /\ SamplesInv
  OBVIOUS
<1>1. DelayInv
  BY HostAssumption DEF Init, DelayInv, HostAssumption
<1>2. samples = <<>> /\ failures = 0
  BY DEF Init
<1>3. NotGenuine = {}
  BY <1>2 DEF NotGenuine
<1>4. Cardinality(NotGenuine) = 0
  BY <1>3, FS_EmptySet
<1> QED BY <1>1, <1>2, <1>4 DEF SamplesInv

\* The recovery that is reported after a rise is the end of the first low samples
\* in a row, as many as asked for, and with fewer failures than that one of them
\* was measured.
THEOREM RecoveriesAreSustained == Spec => []RecoveryIsSustained
<1>1. Init => DelayInv /\ SamplesInv
  BY RecoveryInit
<1>2. DelayInv /\ SamplesInv /\ [Next]_vars => (DelayInv /\ SamplesInv)'
  BY DelayStep, SamplesStep
<1>3. SamplesInv => RecoveryIsSustained
  <2> SUFFICES ASSUME SamplesInv, HasRise(samples)
               PROVE  LET recovered == summarize_lag_recovery(samples)
                          after == PostSpike(samples)
                          Many(i) == Cardinality(LowRun(i)) >= RECOVERY_CONSECUTIVE_SAMPLES
                      IN  IF recovered = None THEN \A i \in after : ~Many(i)
                          ELSE \E i \in after :
                                  /\ samples[i].at = recovered
                                  /\ Many(i) /\ \A j \in after : j < i => ~Many(j)
                                  /\ failures < RECOVERY_CONSECUTIVE_SAMPLES =>
                                        \E j \in LowRun(i) : samples[j].genuine
    BY DEF RecoveryIsSustained
  <2>1. samples \in Seq(SampleType)
    BY DEF SamplesInv
  <2>2. summarize_lag_recovery(samples) = RecoveryLoop(samples).recovered
    <3>1. samples # <<>>
      BY DEF HasRise
    <3> QED BY <3>1 DEF summarize_lag_recovery
  <2>3. ASSUME NEW i \in PostSpike(samples), Ends(i),
               failures < RECOVERY_CONSECUTIVE_SAMPLES
        PROVE  \E j \in LowRun(i) : samples[j].genuine
    <3>1. LowRun(i) \subseteq DOMAIN samples /\ NotGenuine \subseteq DOMAIN samples
      BY DEF LowRun, PostSpike, NotGenuine
    <3>2. IsFiniteSet(DOMAIN samples)
      <4>1. Len(samples) \in Nat /\ DOMAIN samples = 1 .. Len(samples)
        BY <2>1
      <4> QED BY <4>1, FS_Interval
    <3>3. /\ IsFiniteSet(NotGenuine)
          /\ Cardinality(NotGenuine) \in Nat /\ Cardinality(LowRun(i)) \in Nat
      BY <3>1, <3>2, FS_Subset, FS_CardinalityType
    <3>4. LowRun(i) \subseteq NotGenuine => Cardinality(LowRun(i)) <= Cardinality(NotGenuine)
      BY <3>3, FS_Subset
    <3>5. Cardinality(NotGenuine) <= failures /\ failures \in Nat
      BY DEF SamplesInv
    <3>6. Cardinality(LowRun(i)) >= RECOVERY_CONSECUTIVE_SAMPLES
      BY <2>3 DEF Ends
    <3>7. ~(Cardinality(LowRun(i)) <= Cardinality(NotGenuine))
      BY <2>3, <3>3, <3>5, <3>6, RecoveryAssumption DEF RecoveryAssumption
    <3> QED BY <3>1, <3>4, <3>7 DEF NotGenuine
  <2> QED BY <2>1, <2>2, <2>3, LoopFindsFirstRun DEF Ends
<1> QED BY <1>1, <1>2, <1>3, PTL DEF Spec

-----------------------------------------------------------------------------
(* Types                                                                   *)

Calls == {"prepare", "scale", "register", "updateEmail", "updateInapp", "wait",
          "capture", "load", "drain", "copy", "join", "report", "aggregate"}

\* What the other invariants leave open of TypeOK; a Locust belongs to an
\* invocation that has begun.
KindInv ==
    /\ invocation \in 0 .. MaxInvocations /\ orphans \subseteq 1 .. MaxInvocations
    /\ (load # "none" \/ pc # "ended") => invocation >= 1
    /\ pc \in Calls \cup {"ended"}
    /\ raised \in {"none", "error", "interrupt"}
    /\ load \in {"none", "on", "exit0", "exit1", "stopped0", "stopped1", "broken"}
    /\ anyFailure \in BOOLEAN /\ aggregated \in BOOLEAN
    /\ sampling \in {"off", "on", "hung"}
    /\ spoilt \subseteq {"count", "latency"}
    /\ failures \in 0 .. MaxFailures /\ signals \in 0 .. MaxSignals

\* What a step does to the control of a driver.
ControlKind ==
    /\ pc' \in Calls \cup {"ended"} /\ raised' \in {"none", "error", "interrupt"}
    /\ spoilt' \subseteq {"count", "latency"}
    /\ pc' # "ended" => pc # "ended"

\* What it does to everything else.
CountKind ==
    /\ UNCHANGED process
    /\ orphans' \subseteq orphans \cup {invocation}
    /\ orphans' \subseteq orphans \/ load # "none"
    /\ load' \in {"none", "on", "exit0", "exit1", "stopped0", "stopped1", "broken"}
    /\ load' # "none" => (load # "none" \/ pc # "ended")
    /\ anyFailure' \in BOOLEAN /\ aggregated' \in BOOLEAN
    /\ sampling' \in {"off", "on", "hung"}
    /\ failures' = failures \/ (failures < MaxFailures /\ failures' = failures + 1)
    /\ signals' = signals \/ (signals < MaxSignals /\ signals' = signals + 1)

LEMMA KindKept ==
    ASSUME KindInv, ControlKind, CountKind
    PROVE  KindInv'
<1>1. /\ UNCHANGED process /\ orphans' \subseteq 1 .. MaxInvocations
      /\ invocation' \in 0 .. MaxInvocations
  <2>1. load # "none" => invocation \in 1 .. MaxInvocations
    BY DEF KindInv
  <2> QED BY <2>1 DEF KindInv, CountKind, process
<1>2. (load' # "none" \/ pc' # "ended") => invocation' >= 1
  BY DEF KindInv, ControlKind, CountKind, process
<1>3. failures' \in 0 .. MaxFailures /\ signals' \in 0 .. MaxSignals
  BY HostAssumption DEF HostAssumption, KindInv, CountKind
<1> QED BY <1>1, <1>2, <1>3 DEF KindInv, ControlKind, CountKind

\* Every way an exception and the finally block can go.
LEMMA RaiseKind ==
    ASSUME KindInv, NEW kind \in {"error", "interrupt"}, Raise(kind), pc # "ended"
    PROVE  ControlKind
<1>1. Dimensions(script) \subseteq {"count", "latency"} /\ FirstCall \in Calls
  BY DEF Dimensions, FirstCall, Calls
<1>2. CASE restoring
  <2>1. RaiseWhileRestoring(kind)
    BY <1>2 DEF Raise
  <2>2. spoilt' \subseteq {"count", "latency"}
    BY <1>1, <2>1 DEF RaiseWhileRestoring, KindInv
  <2>3. pc' \in Calls \cup {"ended"} /\ raised' \in {raised, kind}
    BY <2>1 DEF RaiseWhileRestoring, Leave, Calls
  <2> QED BY <2>2, <2>3 DEF ControlKind, KindInv
<1>3. CASE ~restoring
  <2>1. RaiseInBody(kind)
    BY <1>3 DEF Raise
  <2>2. spoilt' = spoilt /\ raised' = kind
    BY <2>1 DEF RaiseInBody
  <2>3. pc' \in Calls \cup {"ended"}
    BY <1>1, <2>1 DEF RaiseInBody, EnterFinally, Calls
  <2> QED BY <2>2, <2>3 DEF ControlKind, KindInv
<1> QED BY <1>2, <1>3

LEMMA KindStep ==
    ASSUME KindInv, [Next]_vars
    PROVE  KindInv'
<1> USE KindKept
<1> USE DEF cluster, control, generator, lag, results, counters
<1>a. FirstCall \in Calls /\ FirstCall # "ended"
  BY DEF FirstCall, Calls
<1>b. /\ spoilt \subseteq {"count", "latency"} /\ pc \in Calls \cup {"ended"}
      /\ raised \in {"none", "error", "interrupt"}
  BY DEF KindInv
<1>1. ASSUME NEW s \in Scripts, Start(s) PROVE KindInv'
  <2>1. MaxInvocations \in Nat
    BY HostAssumption DEF HostAssumption, MaxInvocations
  <2>2. invocation' \in 0 .. MaxInvocations /\ invocation' >= 1
    BY <1>1, <2>1 DEF Start, KindInv
  <2> QED BY <1>1, <2>2 DEF Start, KindInv, Calls
<1>2. CASE prepare_loadgen
  <2>1. ControlKind
    BY <1>2, <1>a, <1>b DEF prepare_loadgen, GoTo, ControlKind
  <2>2. CountKind
    BY <1>2 DEF prepare_loadgen, CountKind, KindInv
  <2> QED BY <2>1, <2>2
<1>3. CASE StartSampling
  BY <1>3 DEF StartSampling, ControlKind, CountKind, KindInv
<1>4. CASE StartLocust
  BY <1>4 DEF StartLocust, ControlKind, CountKind, KindInv
<1>5. CASE run_locust
  <2>1. ControlKind
    <3>1. CASE Raise("error")
      BY <1>5, <3>1, RaiseKind DEF run_locust
    <3>2. CASE GoTo(IF IsLocal(script) THEN "join" ELSE "copy") /\ UNCHANGED spoilt
      BY <1>5, <1>b, <3>2 DEF run_locust, GoTo, ControlKind, Calls
    <3> QED BY <1>5, <3>1, <3>2 DEF run_locust
  <2>2. CountKind
    BY <1>5 DEF run_locust, CountKind, KindInv
  <2> QED BY <2>1, <2>2
<1>6. CASE CopyResults
  <2>1. ControlKind
    <3>1. CASE Raise("error")
      BY <1>6, <3>1, RaiseKind DEF CopyResults
    <3>2. CASE GoTo("join") /\ UNCHANGED spoilt
      BY <1>6, <1>b, <3>2 DEF CopyResults, ExitCode, GoTo, ControlKind, Calls
    <3> QED BY <1>6, <3>1, <3>2 DEF CopyResults
  <2>2. CountKind
    BY <1>6 DEF CopyResults, CountKind, KindInv
  <2> QED BY <2>1, <2>2
<1>7. CASE AwaitProcess
  BY <1>7 DEF AwaitProcess, GoTo, ControlKind, CountKind, KindInv, Calls
<1>8. CASE JoinSampler
  <2>1. ControlKind
    BY <1>8, <1>a, <1>b DEF JoinSampler, GoTo, EnterFinally, ControlKind, Calls
  <2>2. CountKind
    BY <1>8 DEF JoinSampler, LeaveRound, KeepRound, CountKind, KindInv
  <2> QED BY <2>1, <2>2
<1>9. ASSUME NEW s, NEW change, NEW next \in Calls, pc # "ended", UpdateService(s, change, next)
      PROVE  KindInv'
  BY <1>9 DEF UpdateService, GoTo, ControlKind, CountKind, KindInv
<1>10. ASSUME NEW waited, WaitForServicesStable(waited) PROVE KindInv'
  <2>1. ControlKind
    BY <1>10, <1>b DEF WaitForServicesStable, GoTo, Leave, ControlKind, Calls
  <2>2. CountKind
    BY <1>10 DEF WaitForServicesStable, CountKind, KindInv
  <2> QED BY <2>1, <2>2
<1>11. CASE Capture
  BY <1>11 DEF Capture, GoTo, ControlKind, CountKind, KindInv, Calls
<1>12. ASSUME NEW row, NEW aggregate \in BOOLEAN, Summarise(row, aggregate) PROVE KindInv'
  <2>1. ControlKind
    BY <1>12, <1>a, <1>b DEF Summarise, NextRound, EnterFinally, ControlKind
  <2>2. CountKind
    BY <1>12 DEF Summarise, LeaveRound, CountKind, KindInv
  <2> QED BY <2>1, <2>2
<1>13. CASE write_aggregate_csv
  BY <1>13 DEF write_aggregate_csv, GoTo, ControlKind, CountKind, KindInv
<1>14. CASE register_task_definition_with_env
  BY <1>14 DEF register_task_definition_with_env, GoTo, ControlKind, CountKind, KindInv, Calls
<1>15. CASE CommandFails
  <2>1. ControlKind
    BY <1>15, RaiseKind DEF CommandFails
  <2>2. CountKind
    BY <1>15 DEF CommandFails, LeaveRound, KeepRound, CountKind, KindInv
  <2> QED BY <2>1, <2>2
<1>16. CASE Interrupt
  <2>1. ControlKind
    BY <1>16, RaiseKind DEF Interrupt, Signal
  <2>2. CountKind
    BY <1>16 DEF Interrupt, Signal, LeaveRound, KeepRound, CountKind, KindInv
  <2> QED BY <2>1, <2>2
<1>17. CASE InterruptGroup
  <2>1. ControlKind
    BY <1>17, RaiseKind DEF InterruptGroup, Signal
  <2>2. CountKind
    BY <1>17 DEF InterruptGroup, Signal, CountKind, KindInv
  <2> QED BY <2>1, <2>2
<1>18. CASE Terminate
  BY <1>18 DEF Terminate, Signal, ControlKind, CountKind, KindInv, Calls
<1>19. CASE TerminateAgain
  <2>1. ControlKind
    BY <1>19, RaiseKind DEF TerminateAgain, Signal
  <2>2. CountKind
    BY <1>19 DEF TerminateAgain, Signal, CountKind, KindInv
  <2> QED BY <2>1, <2>2
<1>20. ASSUME NEW sample, WriteSample(sample),
              failures' = failures \/ (failures < MaxFailures /\ failures' = failures + 1)
       PROVE  KindInv'
  BY <1>20 DEF WriteSample, ControlKind, CountKind, KindInv
<1>21. CASE lag_sampler_Hangs \/ create_notification
  <2>1. CASE lag_sampler_Hangs
    BY <2>1 DEF lag_sampler_Hangs, ControlKind, CountKind, KindInv
  <2>2. CASE create_notification
    <3>1. anyFailure' \in BOOLEAN /\ load' = load /\ orphans' = orphans
      BY <2>2 DEF create_notification
    <3>2. UNCHANGED <<cluster, control, process, lag, spoilt, counters>>
      BY <2>2 DEF create_notification
    <3>3. ControlKind
      BY <3>2 DEF ControlKind, KindInv
    <3>4. aggregated' \in BOOLEAN
      BY <2>2 DEF create_notification, KindInv
    <3>5. /\ UNCHANGED <<process, orphans, load, sampling, failures, signals>>
          /\ load \in {"none", "on", "exit0", "exit1", "stopped0", "stopped1", "broken"}
          /\ sampling \in {"off", "on", "hung"}
      BY <3>1, <3>2 DEF KindInv
    <3>6. CountKind
      BY <3>1, <3>4, <3>5 DEF CountKind
    <3> QED BY <3>3, <3>6
  <2> QED BY <1>21, <2>1, <2>2
<1>22. CASE Tick
  BY <1>22 DEF Tick, ControlKind, CountKind, KindInv
<1>23. CASE LocustEnds \/ LocustStops \/ LocustLost
  BY <1>23 DEF LocustEnds, LocustStops, LocustLost, ControlKind, CountKind, KindInv
<1>24. ASSUME NEW i, OrphanEnds(i) PROVE KindInv'
  BY <1>24 DEF OrphanEnds, ControlKind, CountKind, KindInv
<1>25. ASSUME NEW s, Deploy(s) PROVE KindInv'
  BY <1>25 DEF Deploy, ControlKind, CountKind, KindInv
<1>26. CASE UNCHANGED vars
  BY <1>26 DEF vars, process, ControlKind, CountKind, KindInv
<1>27. CASE FixedLoadMain
  BY <1>27, <1>9, <1>10, <1>12, <1>13 DEF FixedLoadMain, scale_email_workers, Calls
<1>28. CASE BurstMain
  BY <1>28, <1>9, <1>10, <1>11, <1>12 DEF BurstMain, scale_email_workers, Calls
<1>29. CASE IsolationMain
  BY <1>29, <1>9, <1>10, <1>12, <1>13, <1>14 DEF IsolationMain, configure_worker_latencies, Calls
<1>30. CASE lag_sampler \/ lag_sampler_Fails
  BY <1>30, <1>20 DEF lag_sampler, lag_sampler_Fails
<1> QED
  BY <1>1, <1>2, <1>3, <1>4, <1>5, <1>6, <1>7, <1>8, <1>15, <1>16, <1>17, <1>18, <1>19,
     <1>21, <1>22, <1>23, <1>24, <1>25, <1>26, <1>27, <1>28, <1>29, <1>30
  DEF Next, Driver, Measure

\* Every variable keeps its type.
THEOREM TypeCorrect == Spec => []TypeOK
<1>1. Init => KindInv
  <2>1. MaxInvocations \in Nat /\ MaxFailures \in Nat /\ MaxSignals \in Nat
    BY HostAssumption DEF HostAssumption, MaxInvocations
  <2> SUFFICES ASSUME Init PROVE KindInv
    OBVIOUS
  <2>2. anyFailure \in BOOLEAN /\ aggregated \in BOOLEAN
    BY DEF Init
  <2>3. /\ invocation = 0 /\ orphans = {} /\ spoilt = {} /\ failures = 0 /\ signals = 0
        /\ pc = "ended" /\ raised = "none" /\ load = "none" /\ sampling = "off"
    BY DEF Init
  <2> QED BY <2>1, <2>2, <2>3 DEF KindInv
<1>2. KindInv /\ [Next]_vars => KindInv'
  BY KindStep
<1>3. Spec => []KindInv
  BY <1>1, <1>2, PTL DEF Spec
<1>4. Spec => [](DelayInv /\ SamplesInv)
  <2>1. Init => DelayInv /\ SamplesInv
    BY RecoveryInit
  <2>2. DelayInv /\ SamplesInv /\ [Next]_vars => (DelayInv /\ SamplesInv)'
    BY DelayStep, SamplesStep
  <2> QED BY <2>1, <2>2, PTL DEF Spec
<1>5. KindInv /\ DelayInv /\ SamplesInv /\ IInv /\ LabelInv => TypeOK
  <2> SUFFICES ASSUME KindInv, DelayInv, SamplesInv, IInv, LabelInv
               PROVE  TypeOK
    OBVIOUS
  <2>1. desired \in Configuration /\ running \in Configuration
    BY DEF IInv, RestoreInv, LabelInv, RunningInv
  <2>2. script \in Scripts /\ round \in 1 .. RoundsOf(script) /\ restoring \in BOOLEAN
    BY DEF IInv, RoundInv, ControlInv
  <2>3. elapsed \in Nat /\ began \in 0 .. MaxDelay
    BY HostAssumption DEF HostAssumption, DelayInv
  <2>4. samples \in Seq([at : Nat, lag : Nat, genuine : BOOLEAN])
    BY DEF SamplesInv, SampleType
  <2> QED BY <2>1, <2>2, <2>3, <2>4 DEF TypeOK, KindInv, Calls
<1> QED BY <1>3, <1>4, <1>5, Invariance, LabelInvariance, PTL
=============================================================================
