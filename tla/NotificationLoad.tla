--------------------------- MODULE NotificationLoad ---------------------------
(***************************************************************************)
(* The load that Locust puts on the notification service                   *)
(* (locust/locustfile.py): its shape over time, in sample intervals since  *)
(* Locust began, and what a user makes of an answer.                       *)
(***************************************************************************)
EXTENDS Integers, Sequences

CONSTANTS
    STEADY_DURATION, BASELINE_DURATION, SPIKE_DURATION, RECOVERY_DURATION

ASSUME DurationAssumption ==
    /\ STEADY_DURATION \in Nat \ {0} /\ BASELINE_DURATION \in Nat \ {0}
    /\ SPIKE_DURATION \in Nat \ {0} /\ RECOVERY_DURATION \in Nat \ {0}

SpikeStart == BASELINE_DURATION
SpikeEnd == SpikeStart + SPIKE_DURATION
BurstEnd == SpikeEnd + RECOVERY_DURATION

\* Fault: the spike begins one interval late.
tick_LateSpike(mode, runTime) ==
    CASE mode = "steady" /\ runTime < STEADY_DURATION -> "steady"
      [] mode = "burst" /\ runTime <= SpikeStart -> "baseline"
      [] mode = "burst" /\ SpikeStart < runTime /\ runTime < SpikeEnd -> "spike"
      [] mode = "burst" /\ SpikeEnd <= runTime /\ runTime < BurstEnd -> "recovery"
      [] OTHER -> "over"

\* ExperimentShape.tick: the phase whose number of users is asked for, "over"
\* for None, which ends the test.
tick(mode, runTime) ==
    CASE mode = "steady" /\ runTime < STEADY_DURATION -> "steady"
      [] mode = "burst" /\ runTime < SpikeStart -> "baseline"
      [] mode = "burst" /\ SpikeStart <= runTime /\ runTime < SpikeEnd -> "spike"
      [] mode = "burst" /\ SpikeEnd <= runTime /\ runTime < BurstEnd -> "recovery"
      [] OTHER -> "over"

\* NotificationUser.create_notification: what the answer counts as.  Only a
\* 202 with a notificationId in its JSON body is a success.
Outcome(answer) ==
    IF answer.status = 202 /\ answer.body = "hasId" THEN "success" ELSE "failure"
=============================================================================
