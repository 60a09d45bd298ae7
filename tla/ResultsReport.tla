---------------------------- MODULE ResultsReport ----------------------------
(***************************************************************************)
(* What results/result.py makes of the files of a load test: the table     *)
(* <prefix>_stats.csv, in which a method has a row once a request of it    *)
(* was counted, and the rows of <prefix>_stale_reads.csv.                  *)
(***************************************************************************)
EXTENDS Naturals

Methods == {"GET", "PUT"}
Rows(count) == {m \in Methods : count[m] > 0}

\* Fault: the name alone decides, and either has /kv/{key} in it.
get_request_row_ByName(count, method) ==
    IF "PUT" \in Rows(count) THEN "PUT"
    ELSE IF "GET" \in Rows(count) THEN "GET" ELSE "none"

\* get_request_row: the method's row; without one, any with /kv/{key} in its name.
get_request_row(count, method) ==
    IF method \in Rows(count) THEN method
    ELSE IF Rows(count) # {} THEN CHOOSE m \in Rows(count) : TRUE ELSE "none"

\* metric_from_row for "Request Count".
metric_from_row(count, row) == IF row = "none" THEN 0 ELSE count[row]

\* build_summary: stale_rate_pct is stale_reads out of read_requests.
build_summary(count, stale) ==
    [read_requests  |-> metric_from_row(count, get_request_row(count, "GET")),
     write_requests |-> metric_from_row(count, get_request_row(count, "PUT")),
     stale_reads    |-> stale]
=============================================================================
