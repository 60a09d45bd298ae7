--------------------------- MODULE BurstExperiment ---------------------------
(***************************************************************************)
(* Experiment B: one burst of e-mail requests, and how long the consumer   *)
(* lag takes to recover (experiment/run_expB_email_burst_ec2.py).          *)
(***************************************************************************)
EXTENDS FixedLoadExperiment

\* get_topic_partition_counts, get_task_state and get_service_events: looks
\* before the load.
Capture ==
    /\ pc = "capture"
    /\ GoTo("load")
    /\ UNCHANGED <<cluster, process, generator, lag, results, measured, spoilt, counters>>

BurstLabel == [Defaults EXCEPT !["email"].count = BurstReplicas]

\* main: its summary.csv is written inside the try.
BurstMain ==
    /\ script = "burst"
    /\ \/ scale_email_workers(IF restoring THEN 1 ELSE BurstReplicas)
       \/ WaitForServicesStable({"email"})
       \/ Capture
       \/ Summarise(RowOf(BurstLabel), TRUE)
=============================================================================
