---------------------------- MODULE MCExperiments ----------------------------
(* A small instance of the experiments for TLC. *)
EXTENDS Experiments

\* Two of the replica counts, two of the rounds; latencies in tens of ms.
TwoCounts == <<1, 2>>
Normal == [s \in Services |-> IF s = "email" THEN 10 ELSE 2]
SlowEmail == [Normal EXCEPT !["email"] = 100]
\* Any experiment, and then one of those that have a summary to lose.
TwoInvocations == <<Scripts, Scripts \ {"burst"}>>
TwoRounds == <<Normal, SlowEmail>>
=============================================================================
