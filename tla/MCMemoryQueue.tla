--------------------------- MODULE MCMemoryQueue ---------------------------
(* Small instances of MemoryQueue for TLC. *)
EXTENDS MemoryQueue

CONSTANTS f1, f2, u1, w1, w2

\* Workflow jobs only, and a workflow job with a tool job.
TwoFlows == {f1, f2}
FlowAndTool == {f1, u1}
FlowsAndTool == {f1, f2, u1}
OneWorker == {w1}
TwoWorkers == {w1, w2}

KindOfTasks == [t \in Tasks |-> IF t = u1 THEN "tool" ELSE "workflow"]
=============================================================================
