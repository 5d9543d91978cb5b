---------------------------- MODULE MemoryQueue ----------------------------
(***************************************************************************)
(* The in-process work queue of backend/app/workers/celery.py               *)
(* (InMemoryQueueBackend, the backend without REDIS_URL) driven by the      *)
(* worker loop of runner.py.  Every method holds the lock for its whole     *)
(* effect, so a method is one step; the runs between them take time and     *)
(* interleave.  A pass of run_once is: one workflow job, the tool jobs      *)
(* until none is ready, then the retry loop until it claims nothing.        *)
(***************************************************************************)
EXTENDS Integers, Sequences, SequencesExt

CONSTANTS
    Tasks,          \* the tasks that may be published
    Workers,        \* the threads that call run_once
    None,           \* no task in hand
    Kind,           \* the queue name of each task, "workflow" or "tool"
    MaxAttempts,    \* RetryPolicy.max_attempts
    BaseDelay,      \* RetryPolicy.base_delay_seconds
    MaxDelay        \* RetryPolicy.max_delay_seconds

ASSUME KindIsName == Kind \in [Tasks -> {"workflow", "tool"}]
ASSUME NoneIsNoTask == None \notin [id : Tasks, attempts : Nat, wait : Int]
ASSUME PolicyIsNatural ==
    /\ MaxAttempts \in Nat \ {0}
    /\ {BaseDelay, MaxDelay} \subseteq Nat

VARIABLES
    tasks,          \* _tasks: a list of [id, attempts, wait]
    dead,           \* _dead_letter: the list of the ids of dead tasks
    stage,          \* where each worker is in run_once
    hand,           \* the QueueTask a worker claimed, or None
    published,      \* history: the tasks published
    finished,       \* history: the tasks some worker ran to the end
    runs,           \* history: how often each task was started
    passes          \* history: how often the retry loop handed a task back,
                    \* counted up to MaxAttempts

vars == <<tasks, dead, stage, hand, published, finished, runs, passes>>

QueueTask == [id : Tasks, attempts : 0..MaxAttempts, wait : 0..MaxDelay]

\* 2 ** n
Power[n \in Nat] == IF n = 0 THEN 1 ELSE 2 * Power[n - 1]

\* next_delay_seconds
NextDelay(n) ==
    LET delay == BaseDelay * Power[IF n > 1 THEN n - 1 ELSE 0]
    IN IF delay < MaxDelay THEN delay ELSE MaxDelay
\* Mutants of CanRetry: one retry more, one retry less.
CanRetryOnceMore(n) == n <= MaxAttempts
CanRetryOnceLess(n) == n < MaxAttempts - 1

\* can_retry
CanRetry(n) == n < MaxAttempts

Init ==
    /\ tasks = <<>> /\ dead = <<>>
    /\ stage = [w \in Workers |-> "workflow"]
    /\ hand = [w \in Workers |-> None]
    /\ published = {} /\ finished = {}
    /\ runs = [t \in Tasks |-> 0] /\ passes = [t \in Tasks |-> 0]

----------------------------------------------------------------------------
(* The backend *)

Publish(t) ==
    /\ t \notin published
    /\ published' = published \cup {t}
    /\ tasks' = Append(tasks, [id |-> t, attempts |-> 0, wait |-> 0])
    /\ UNCHANGED <<dead, stage, hand, finished, runs, passes>>

\* A second passes for every available_at.
Tick ==
    /\ \E i \in DOMAIN tasks : tasks[i].wait > 0
    /\ tasks' = [i \in DOMAIN tasks |->
                    [tasks[i] EXCEPT !.wait = IF @ > 0 THEN @ - 1 ELSE 0]]
    /\ UNCHANGED <<dead, stage, hand, published, finished, runs, passes>>

\* The positions of the tasks of a queue name whose time has come.
Ready(kind) ==
    {i \in DOMAIN tasks : tasks[i].wait = 0 /\ Kind[tasks[i].id] = kind}

\* Mutant of ClaimReady: the claimed task is returned and not popped.
ClaimPeeks(w, kind) ==
    \E i \in Ready(kind) :
        /\ \A j \in Ready(kind) : i <= j
        /\ hand' = [hand EXCEPT ![w] = tasks[i]]
        /\ UNCHANGED tasks

\* claim_ready takes the first of them out of the list.
ClaimReady(w, kind) ==
    \E i \in Ready(kind) :
        /\ \A j \in Ready(kind) : i <= j
        /\ hand' = [hand EXCEPT ![w] = tasks[i]]
        /\ tasks' = RemoveAt(tasks, i)

\* One more, up to MaxAttempts: can_retry refuses every larger count alike, and
\* the retry loop may hand a task back any number of times.
Count(n) == IF n < MaxAttempts THEN n + 1 ELSE n

Requeued(task, delay) ==
    [id |-> task.id, attempts |-> Count(task.attempts), wait |-> delay]

----------------------------------------------------------------------------
(* run_once *)

\* The queue name a stage claims from, and the stage after a claim finds none.
ClaimsFrom == [workflow |-> "workflow", tool |-> "tool",
               retry |-> "workflow", follow |-> "workflow"]
\* Mutant of AfterNone: the retry loop waits for the next job instead of returning.
RetryForever == [workflow |-> "tool", tool |-> "retry",
                 retry |-> "retry", follow |-> "retry"]
AfterNone == [workflow |-> "tool", tool |-> "retry",
              retry |-> "workflow", follow |-> "retry"]
\* The stage after a job: the tool and retry loops go round again.
AfterJob == [workflow |-> "tool", tool |-> "tool", follow |-> "retry"]

Goto(w, s) == stage' = [stage EXCEPT ![w] = s]
Drop(w) == hand' = [hand EXCEPT ![w] = None]

FindNone(w) ==
    /\ hand[w] = None
    /\ Ready(ClaimsFrom[stage[w]]) = {}
    /\ Goto(w, AfterNone[stage[w]])
    /\ UNCHANGED <<tasks, dead, hand, published, finished, runs, passes>>

\* A job is claimed to be run.
Start(w) ==
    /\ hand[w] = None /\ stage[w] # "retry"
    /\ ClaimReady(w, ClaimsFrom[stage[w]])
    /\ runs' = [runs EXCEPT ![hand'[w].id] = @ + 1]
    /\ UNCHANGED <<dead, stage, published, finished, passes>>

\* The retry loop claims a job only to hand it back.
Grab(w) ==
    /\ hand[w] = None /\ stage[w] = "retry"
    /\ ClaimReady(w, "workflow")
    /\ UNCHANGED <<dead, stage, published, finished, runs, passes>>

Running(w) == hand[w] # None /\ stage[w] # "retry"

\* The run returns; ack does nothing here.
Succeed(w) ==
    /\ Running(w)
    /\ finished' = finished \cup {hand[w].id}
    /\ Drop(w) /\ Goto(w, AfterJob[stage[w]])
    /\ UNCHANGED <<tasks, dead, published, runs, passes>>

\* The run raises and is retried after a delay.
Retry(w) ==
    /\ Running(w)
    /\ LET attempts == hand[w].attempts + 1
       IN /\ CanRetry(attempts)
          /\ tasks' = Append(tasks, Requeued(hand[w], NextDelay(attempts)))
    /\ Drop(w) /\ Goto(w, AfterJob[stage[w]])
    /\ UNCHANGED <<dead, published, finished, runs, passes>>

\* The run raises for the last time.
Bury(w) ==
    /\ Running(w)
    /\ ~CanRetry(hand[w].attempts + 1)
    /\ dead' = Append(dead, hand[w].id)
    /\ Drop(w) /\ Goto(w, AfterJob[stage[w]])
    /\ UNCHANGED <<tasks, published, finished, runs, passes>>

\* The retry loop hands its claim back, which counts as an attempt, and
\* processes whatever workflow job is first now.
PassBack(w) ==
    /\ hand[w] # None /\ stage[w] = "retry"
    /\ tasks' = Append(tasks, Requeued(hand[w], 0))
    /\ passes' = [passes EXCEPT ![hand[w].id] = Count(@)]
    /\ Drop(w) /\ Goto(w, "follow")
    /\ UNCHANGED <<dead, published, finished, runs>>

RunOnce(w) ==
    \/ FindNone(w) \/ Start(w) \/ Grab(w) \/ PassBack(w)
    \/ Succeed(w) \/ Retry(w) \/ Bury(w)

Next == (\E t \in Tasks : Publish(t)) \/ Tick \/ (\E w \in Workers : RunOnce(w))

Spec == Init /\ [][Next]_vars

\* run_loop polls for ever and time passes.
LiveSpec == Spec /\ WF_vars(Tick) /\ \A w \in Workers : WF_vars(RunOnce(w))

----------------------------------------------------------------------------
(* Properties *)

\* The places of a task: entries of the list and of the dead letters, hands.
Places(t) ==
    (IF t \in finished THEN {<<"finished", 0>>} ELSE {})
        \cup {<<"listed", i>> : i \in {j \in DOMAIN tasks : tasks[j].id = t}}
        \cup {<<"dead", i>> : i \in {j \in DOMAIN dead : dead[j] = t}}
        \cup {<<"held", w>> : w \in {v \in Workers : hand[v] # None /\ hand[v].id = t}}

\* Types: the list holds queue tasks, a worker holds a queue task of the kind
\* its stage claims from, or none; and no task is lost and none is copied: a
\* published one is in exactly one place.
TypeOK ==
    /\ tasks \in Seq(QueueTask) /\ dead \in Seq(Tasks)
    /\ stage \in [Workers -> {"workflow", "tool", "retry", "follow"}]
    /\ hand \in [Workers -> QueueTask \cup {None}]
    /\ \A w \in Workers :
            hand[w] # None => Kind[hand[w].id] = ClaimsFrom[stage[w]]
    /\ published \subseteq Tasks /\ finished \subseteq published
    /\ runs \in [Tasks -> Nat] /\ passes \in [Tasks -> 0..MaxAttempts]
    /\ \A t \in published : \E p \in Places(t) : Places(t) = {p}

\* Where a task is.
Waits(t) ==
    \/ \E i \in DOMAIN tasks : tasks[i].id = t
    \/ \E w \in Workers : hand[w] # None /\ hand[w].id = t /\ stage[w] = "retry"
Runs(t) == \E w \in Workers : Running(w) /\ hand[w].id = t

\* The life of a job, as JobQueue tells it.
JobOf(t) ==
    IF t \notin published THEN "absent"
    ELSE IF t \in finished THEN "finished"
    ELSE IF \E i \in DOMAIN dead : dead[i] = t THEN "dead"
    ELSE IF Runs(t) THEN "running"
    ELSE "waiting"

Jobs == INSTANCE JobQueue WITH job <- [t \in Tasks |-> JobOf(t)]

\* The queue and its workers do what JobQueue promises: one worker at a time,
\* at most MaxAttempts starts, one outcome, although the retry loop claims
\* tasks it does not run and several threads call run_once.
ImplementsJobQueue == Jobs!Spec

\* A dead-lettered task used up its attempts, and an attempt is a start or a
\* hand-back of the retry loop.
DeadForCause ==
    \A i \in DOMAIN dead :
        /\ runs[dead[i]] \in 1..MaxAttempts
        /\ runs[dead[i]] + passes[dead[i]] >= MaxAttempts

\* Every published task is in the end finished or dead-lettered.
Settles == Jobs!Settles
=============================================================================
