------------------------------ MODULE JobQueue ------------------------------
(***************************************************************************)
(* What a queue backend promises the orchestrator, whatever it keeps its    *)
(* tasks in: a submitted job waits, is run by one worker at a time at most  *)
(* MaxAttempts times, and ends finished or dead-lettered, once.             *)
(***************************************************************************)
EXTENDS Naturals

CONSTANTS
    Tasks,          \* the jobs that may be submitted
    MaxAttempts     \* RetryPolicy.max_attempts

VARIABLES
    job,            \* where each job is in its life
    runs            \* how often each job was started

vars == <<job, runs>>

Init ==
    /\ job = [t \in Tasks |-> "absent"]
    /\ runs = [t \in Tasks |-> 0]

Move(t, from, to) == job[t] = from /\ job' = [job EXCEPT ![t] = to]

Submit(t) == Move(t, "absent", "waiting") /\ UNCHANGED runs

Start(t) ==
    /\ Move(t, "waiting", "running")
    /\ runs[t] < MaxAttempts
    /\ runs' = [runs EXCEPT ![t] = @ + 1]

GiveBack(t) ==
    /\ Move(t, "running", "waiting")
    /\ runs[t] < MaxAttempts
    /\ UNCHANGED runs

Finish(t) == Move(t, "running", "finished") /\ UNCHANGED runs

Bury(t) == Move(t, "running", "dead") /\ UNCHANGED runs

Next ==
    \E t \in Tasks : Submit(t) \/ Start(t) \/ GiveBack(t) \/ Finish(t) \/ Bury(t)

Spec == Init /\ [][Next]_vars

----------------------------------------------------------------------------

\* Every submitted job is in the end finished or dead-lettered.
Settles == \A t \in Tasks : job[t] = "waiting" ~> job[t] \in {"finished", "dead"}
=============================================================================
