--------------------------- MODULE MCSubmission ---------------------------
(* Small instances of Submission for TLC. *)
EXTENDS Submission

CONSTANTS q1, q2, q3, q4, q5, k1

FiveRequests == {q1, q2, q3, q4, q5}
OneKey == {k1}
\* q1 and q2 share a key, the others have none; q5 names no workflow.
SharedKey == [r \in Requests |-> IF r \in {q1, q2} THEN k1 ELSE None]
NotTheFifth == Requests \ {q5}
=============================================================================
