---------------------------- MODULE AttemptSummary ----------------------------
(***************************************************************************)
(* What experiment C reports of the notifications Locust has sampled       *)
(* (experiment/run_expC_mixed_isolation_ec2.py): it asks the query API for *)
(* their attempts, ATTEMPT_SETTLE_SEC after the load, and takes the latest *)
(* one of a channel for the outcome.  Here the channel is that of the      *)
(* worker, which the samples were all sent to.                             *)
(***************************************************************************)
EXTENDS ChannelWorker

\* NotificationQueryService.getAttempts: the rows of n by their places in the
\* table, where they stand oldest first.
getAttempts(n) == AttemptsOf(n)

\* collect_attempts_for_samples: an answer per sample; a request that fails
\* leaves an error, which is no list of attempts.
collect_attempts_for_samples(samples, unanswered) ==
    [n \in samples |->
        IF n \in unanswered THEN [error |-> TRUE, rows |-> {}]
        ELSE [error |-> FALSE, rows |-> getAttempts(n)]]

\* max by attemptNo: the first of those with the largest number.
latest(rows) ==
    attempts[CHOOSE k \in rows :
                /\ \A l \in rows : attempts[l].no <= attempts[k].no
                /\ \A l \in rows : l < k => attempts[l].no < attempts[k].no]

\* summarize_channel_attempts, as the sets of samples behind its counts.
summarize_channel_attempts(samples, collected) ==
    LET missing == {n \in samples : collected[n].error \/ collected[n].rows = {}}
        observed == samples \ missing
    IN  [missing  |-> missing,
         observed |-> observed,
         success  |-> {n \in observed : latest(collected[n].rows).result = "SUCCESS"}]

-----------------------------------------------------------------------------
\* The messages for n are behind the worker; no delivery of one threw.
Settled(n) ==
    /\ n \in {log[o] : o \in Offsets}
    /\ \A o \in Offsets : log[o] = n => o < committed
Untroubled(n) == \A o \in Offsets : log[o] = n => failed[o] = 0

\* Whichever samples are taken, whenever they are asked for and whoever does not
\* answer: a sample counted as a success was accepted by the provider, and one
\* whose messages are settled is missing or counted as failed only if a delivery
\* of one of them threw, whatever became of other notifications and whoever
\* crashed or was replaced meanwhile.  (Then it may also have been sent.)
SummaryIsTrue ==
    \A samples \in SUBSET Notifications : \A unanswered \in SUBSET samples :
        LET summary == summarize_channel_attempts(
                           samples, collect_attempts_for_samples(samples, unanswered))
        IN  /\ \A n \in summary.success : sent[n] > 0
            /\ \A n \in samples \ unanswered :
                  Settled(n) /\ Untroubled(n) => n \in summary.success
=============================================================================
