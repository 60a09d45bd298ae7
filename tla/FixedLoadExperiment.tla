------------------------- MODULE FixedLoadExperiment -------------------------
(***************************************************************************)
(* Experiment A: a steady load of e-mail requests for each number of       *)
(* e-mail workers (experiment/run_expA_email_fixedload_ec2.py, and         *)
(* run_expA_email_fixedload.py, which runs Locust on its own machine).     *)
(***************************************************************************)
EXTENDS RemoteLocust

\* scale_email_workers: the number of replicas changes, the latency stays.
scale_email_workers(replicaCount) ==
    /\ pc = "scale"
    /\ UpdateService("email", [desired["email"] EXCEPT !.count = replicaCount], "wait")

\* The configuration a row of round i claims to be measured with.
FixedLabel(i) == [Defaults EXCEPT !["email"].count = FixedReplicas[i]]

\* The next round, or the finally block after the last one.
NextRound ==
    IF round < RoundsOf(script)
    THEN /\ round' = round + 1 /\ pc' = FirstCall /\ UNCHANGED <<restoring, raised>>
    ELSE EnterFinally /\ UNCHANGED raised

\* The figures are gathered, and the row is appended to summary_rows.
Summarise(row, aggregate) ==
    /\ pc = "report"
    /\ rows' = Append(rows, row)
    /\ aggregated' = aggregate
    /\ NextRound /\ LeaveRound
    /\ UNCHANGED <<cluster, process, orphans, sampling, spoilt, counters>>

\* What the properties ask of a row.
RowOf(label) ==
    [label |-> label, measured |-> measured, ended |-> load,
     whole |-> load \in {"exit0", "exit1"} /\ Phase = "over"]

\* summary.csv is written when nothing was raised (B writes it in its round).
write_aggregate_csv ==
    /\ pc = "aggregate"
    /\ aggregated' = TRUE
    /\ GoTo("ended")
    /\ UNCHANGED <<cluster, process, generator, lag, rows, measured, spoilt, counters>>

\* main
FixedLoadMain ==
    /\ script \in FixedScripts
    /\ \/ scale_email_workers(IF restoring THEN 1 ELSE FixedReplicas[round])
       \/ WaitForServicesStable({"email"})
       \/ Summarise(RowOf(FixedLabel(round)), FALSE)
       \/ write_aggregate_csv
=============================================================================
