--------------------------- MODULE MCExecutions ---------------------------
(* Small instances of Executions for TLC. *)
EXTENDS Executions

CONSTANTS q1, q2, w1, w2, p1, p2

OneRequest == {q1}
TwoRequests == {q1, q2}
NoKeys == [r \in Requests |-> None]
NoKey == {}
OneWorker == {w1}
TwoWorkers == {w1, w2}
Nobody == {}
OnePoller == {p1}
TwoPollers == {p1, p2}
=============================================================================
