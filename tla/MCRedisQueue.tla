---------------------------- MODULE MCRedisQueue ----------------------------
(* Small instances of RedisQueue for TLC. *)
EXTENDS RedisQueue, TLC

CONSTANTS t1, t2, w1, w2, r1, r2

OneTask == {t1}
TwoTasks == {t1, t2}
OneWorker == {w1}
TwoWorkers == {w1, w2}
OneReaper == {r1}
TwoReapers == {r1, r2}
Nowhere == {}

\* The steps where a death or an error costs no task.
NotCarrying == (WorkerSteps \cup ReaperSteps) \ Carrying
\* The steps where a death leaves a task that the reaper can find.
Recoverable == NotCarrying \ {"stamp"}
\* A worker that dies between RPOPLPUSH and HSET.
BeforeStamp == {"stamp"}

Symmetry == Permutations(Tasks) \cup Permutations(Workers) \cup Permutations(Reapers)
=============================================================================
