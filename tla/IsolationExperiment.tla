------------------------- MODULE IsolationExperiment -------------------------
(***************************************************************************)
(* Experiment C: e-mail workers that get slower from round to round beside *)
(* in-app workers that do not (experiment/run_expC_mixed_isolation_ec2.py).*)
(***************************************************************************)
EXTENDS FixedLoadExperiment

\* The latencies asked for now, and the whole configuration that goes with
\* them (EMAIL_WORKER_REPLICAS and INAPP_WORKER_REPLICAS are 1).
Latencies == IF restoring THEN DefaultLatency ELSE IsolationRounds[round]
IsolationLabel(latencies) ==
    [s \in Services |-> [count |-> 1, latency |-> latencies[s]]]

\* register_task_definition_with_env for either service: the definition the
\* service has now is registered again with another latency.  No service is
\* changed yet.
register_task_definition_with_env ==
    /\ pc = "register"
    /\ GoTo("updateEmail")
    /\ UNCHANGED <<cluster, process, generator, lag, results, measured, spoilt, counters>>

\* configure_worker_latencies: both definitions, then both services.
configure_worker_latencies ==
    \/ register_task_definition_with_env
    \/ pc = "updateEmail" /\ UpdateService("email", IsolationLabel(Latencies)["email"], "updateInapp")
    \/ pc = "updateInapp" /\ UpdateService("inapp", IsolationLabel(Latencies)["inapp"], "wait")
    \/ WaitForServicesStable(Services)

\* main: the attempts of sampled notifications are collected after
\* ATTEMPT_SETTLE_SEC, as part of the report.
IsolationMain ==
    /\ script = "isolation"
    /\ \/ configure_worker_latencies
       \/ Summarise(RowOf(IsolationLabel(IsolationRounds[round])), FALSE)
       \/ write_aggregate_csv
=============================================================================
