----------------------------- MODULE KVLoadTest -----------------------------
(***************************************************************************)
(* The load test of the key-value store (loadtest/locustfile.py) against   *)
(* the leader-follower mode.  Each ClientSet and ClientGet call is one     *)
(* request of a Locust user.  Users are greenlets: what one does between   *)
(* two network calls is one step, but an answer may be looked at long      *)
(* after it was given, and answers in any order.                           *)
(***************************************************************************)
EXTENDS LeaderFollower, ResultsReport

VARIABLES
    expected,   \* expected_versions: the version per key, 0 without an entry
    answers,    \* the PUT answers looked at so far, in that order
    asked,      \* the reads whose request is on its way
    seen,       \* seen[g]: the version do_read expected when it asked
    known,      \* history: how many PUT answers had been looked at then
    finished,   \* the reads whose answer was looked at
    staleLog    \* those with a row in the stale-read log

loadVars == <<expected, answers, asked, seen, known, finished, staleLog>>

\* on_test_start: the log is empty.
LoadInit ==
    /\ Init
    /\ expected = [k \in Keys |-> 0]
    /\ answers = <<>>
    /\ asked = {} /\ finished = {} /\ staleLog = {}
    /\ seen = [g \in Gets |-> 0]
    /\ known = [g \in Gets |-> 0]

\* The PUT calls whose answer was looked at.
Noted == {answers[i] : i \in DOMAIN answers}

\* Fault: only the first answer for a key is kept.
update_expected_version_KeepsFirst(k, v) ==
    expected' = [expected EXCEPT ![k] = IF @ = 0 THEN v ELSE @]

\* update_expected_version: the last answer wins, whatever version it has.
update_expected_version(k, v) == expected' = [expected EXCEPT ![k] = v]

\* do_write, with the answer to its PUT: 201 with a version, or a failure.
do_write(w) ==
    /\ w \notin Noted
    /\ \/ Acked(w) /\ update_expected_version(KeyOf[w], version[w])
       \/ Failed(w) /\ UNCHANGED expected
    /\ answers' = Append(answers, w)
    /\ UNCHANGED <<vars, asked, seen, known, finished, staleLog>>

\* do_read up to its request: what to expect is looked up first.
do_read(g) ==
    /\ g \notin asked
    /\ asked' = asked \cup {g}
    /\ seen' = [seen EXCEPT ![g] = expected[KeyOf[g]]]
    /\ known' = [known EXCEPT ![g] = Len(answers)]
    /\ UNCHANGED <<vars, expected, answers, finished, staleLog>>

\* Fault: what to expect is looked up with the answer in hand.
do_read_Checks_Late(g) ==
    /\ g \in asked \ finished /\ g \in begun
    /\ \/ /\ Answered(g)
          /\ staleLog' = IF newest[g].version < expected[KeyOf[g]]
                         THEN staleLog \cup {g} ELSE staleLog
       \/ ~Answered(g) /\ ~Reading(g) /\ UNCHANGED staleLog
    /\ finished' = finished \cup {g}
    /\ UNCHANGED <<vars, expected, answers, asked, seen, known>>

\* do_read with its answer: a 404 is older than any version; an error is not
\* compared.
do_read_Checks(g) ==
    /\ g \in asked \ finished /\ g \in begun
    /\ \/ /\ Answered(g)
          /\ staleLog' = IF newest[g].version < seen[g]
                         THEN staleLog \cup {g} ELSE staleLog
       \/ ~Answered(g) /\ ~Reading(g) /\ UNCHANGED staleLog
    /\ finished' = finished \cup {g}
    /\ UNCHANGED <<vars, expected, answers, asked, seen, known>>

\* The nodes serve what they were asked.
Serve ==
    /\ Next
    /\ begun' \subseteq asked
    /\ UNCHANGED loadVars

LoadNext ==
    \/ Serve
    \/ \E w \in Sets : do_write(w)
    \/ \E g \in Gets : do_read(g) \/ do_read_Checks(g)

LoadSpec == LoadInit /\ [][LoadNext]_<<vars, loadVars>>

\* Fairness of the nodes only: a user may stop at any point of its test.
LoadFairSpec == LoadSpec /\ Fairness

-----------------------------------------------------------------------------
(* Properties                                                              *)

\* No false alarm: a read in the log was answered with an older version than
\* that of a write acknowledged before the read arrived, although expectation,
\* request and check are far apart and writes go on between them.
NoFalseAlarms ==
    \A g \in staleLog : \E w \in after[g] : newest[g].version < version[w]

\* PUT answers for the key of g came to be looked at against the order of their
\* versions before g was asked.
OutOfOrder(g) ==
    \E i, j \in 1 .. known[g] :
        /\ i < j /\ KeyOf[answers[i]] = KeyOf[g] /\ KeyOf[answers[j]] = KeyOf[g]
        /\ version[answers[i]] > version[answers[j]]

\* And none is missed: a read that is older than an acknowledgement the test
\* had seen before it asked is in the log, unless update_expected_version had
\* been called with a smaller version after a larger one, which the code does
\* not guard against.
MissedOnlyOutOfOrder ==
    \A g \in finished \ staleLog : Answered(g) =>
        \A i \in 1 .. known[g] :
            /\ KeyOf[answers[i]] = KeyOf[g] /\ Acked(answers[i])
            /\ newest[g].version < version[answers[i]]
            => OutOfOrder(g)

Count == [GET |-> Cardinality(finished), PUT |-> Len(answers)]

\* The summary takes reads for reads and writes for writes as soon as there are
\* both, and its stale rate is a share at any time; with one kind of request
\* only, get_request_row reports the row of the other method.
SummaryCountsReads ==
    LET summary == build_summary(Count, Cardinality(staleLog))
    IN  /\ summary.stale_reads <= summary.read_requests
        /\ Rows(Count) = Methods =>
            /\ summary.read_requests = Cardinality(finished)
            /\ summary.write_requests = Len(answers)
=============================================================================
