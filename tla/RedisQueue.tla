----------------------------- MODULE RedisQueue -----------------------------
(***************************************************************************)
(* The Redis work queue of backend/app/workers/celery.py                    *)
(* (RedisQueueBackend) with the processes that drive it: workers            *)
(* (workflow_worker.py, tool_worker.py, retry_worker.py), which claim a     *)
(* task, run it and then acknowledge, requeue or dead-letter it, and the    *)
(* reapers (reaper.py, one per API process), which give back the tasks      *)
(* whose visibility deadline has passed.                                    *)
(*                                                                         *)
(* Every method of the backend is a series of Redis commands, and every     *)
(* command is one step here: the steps of the processes interleave.  One    *)
(* queue name is modelled (the keys of two names are disjoint).  A task is  *)
(* the JSON text the lists hold; no method changes that text between        *)
(* publish and dead_letter, so LREM by value and the search by id find the  *)
(* same elements and a task is a model value.                               *)
(***************************************************************************)
EXTENDS Integers, Sequences, FiniteSets, Functions

CONSTANTS
    Tasks,          \* the tasks that may be published
    Workers,        \* the worker processes
    Reapers,        \* the reaper threads
    None,           \* no task in hand
    MaxAttempts,    \* RetryPolicy.max_attempts
    CrashAt,        \* the steps at which a process may die
    FailAt,         \* the steps whose Redis command may raise
    MaxCrashes,     \* bound on the deaths
    MaxErrors,      \* bound on the commands that raise
    MaxSlow,        \* bound on the deadlines missed by a live worker
    MaxRequeues     \* bound on the requeues

ASSUME ActorsAreDistinct == Workers \cap Reapers = {}
ASSUME NoneIsNoTask == None \notin Tasks
ASSUME TasksAreFinite == IsFiniteSet(Tasks)
ASSUME ReapersAreFinite == IsFiniteSet(Reapers)
ASSUME BoundsAreNaturals ==
    /\ MaxAttempts \in Nat \ {0}
    /\ {MaxCrashes, MaxErrors, MaxSlow, MaxRequeues} \subseteq Nat

VARIABLES
    queue,          \* queue:{name}: head pushed by LPUSH, tail by RPUSH
    delayed,        \* queue:delayed:{name}: is the score of a member reached?
    processing,     \* processing:{name}: how many copies of a task it holds
    deadline,       \* processing:vis:{name}: the visibility deadlines
    dead,           \* queue:dead:{name}: how many copies of a task it holds
    attempts,       \* the attempts field of a task's JSON
    pc,             \* the next command of each process
    hand,           \* the task each process works on
    seen,           \* what its last ZRANGEBYSCORE or HGETALL returned
    published,      \* history: the tasks published
    finished,       \* history: the tasks some worker ran to the end
    buried,         \* history: the tasks some worker dead-lettered
    fails,          \* history: how many runs of a task raised
    used            \* how much of each bound is used

redis == <<queue, delayed, processing, deadline, dead>>
history == <<published, finished, buried, fails>>
vars == <<redis, attempts, pc, hand, seen, history, used>>

Actors == Workers \cup Reapers

\* The steps of a worker: claim_ready, the handler, then ack, requeue or
\* dead_letter.
WorkerSteps == {"idle", "promote", "pop", "store", "stamp", "work",
                "ack", "forget", "unlist", "postpone", "bury", "entomb"}
\* The steps of a reaper: requeue_stuck_processing.
ReaperSteps == {"rest", "sweep", "take", "clear", "return"}

\* The steps before which a command removed the task from one key and after
\* which the next command puts it under another.
Carrying == {"store", "postpone", "entomb", "clear", "return"}

\* The steps of a process that has a task in hand.
Holding == {"store", "stamp", "work", "ack", "forget", "unlist", "postpone",
            "bury", "entomb", "take", "clear", "return"}

Home(a) == IF a \in Workers THEN "idle" ELSE "rest"

\* The orders in which a pipeline may push the members of a sorted set: their
\* scores are not modelled.
Orderings(S) == {s \in [1..Cardinality(S) -> S] : Range(s) = S}

\* retry_manager.can_retry
CanRetry(n) == n < MaxAttempts

Init ==
    /\ queue = <<>>
    /\ delayed = [t \in Tasks |-> "absent"]
    /\ processing = [t \in Tasks |-> 0]
    /\ deadline = [t \in Tasks |-> "none"]
    /\ dead = [t \in Tasks |-> 0]
    /\ attempts = [t \in Tasks |-> 0]
    /\ pc = [a \in Actors |-> Home(a)]
    /\ hand = [a \in Actors |-> None]
    /\ seen = [a \in Actors |-> {}]
    /\ published = {} /\ finished = {} /\ buried = {}
    /\ fails = [t \in Tasks |-> 0]
    /\ used = [crashes |-> 0, errors |-> 0, slow |-> 0, requeues |-> 0]

Goto(a, step) == pc' = [pc EXCEPT ![a] = step]
Drop(a) == hand' = [hand EXCEPT ![a] = None]
Use(what) == used' = [used EXCEPT ![what] = @ + 1]
\* LREM processing 0 task: every copy goes.
Unlisted(t) == processing' = [processing EXCEPT ![t] = 0]

----------------------------------------------------------------------------
(* publish, and the clock *)

Publish(t) ==
    /\ t \notin published
    /\ published' = published \cup {t}
    /\ queue' = Append(queue, t)
    /\ UNCHANGED <<delayed, processing, deadline, dead, attempts, pc, hand,
                   seen, finished, buried, fails, used>>

\* The score of a delayed member is reached.
DelayElapses(t) ==
    /\ delayed[t] = "waiting"
    /\ delayed' = [delayed EXCEPT ![t] = "due"]
    /\ UNCHANGED <<queue, processing, deadline, dead, attempts, pc, hand, seen, history, used>>

\* A visibility deadline passes.  If a worker that set it still holds the task
\* that worker is slow, and MaxSlow bounds how often it happens; the deadlines
\* left by a requeue, a burial or a death pass freely.
DeadlinePasses(t) ==
    /\ deadline[t] = "live"
    /\ deadline' = [deadline EXCEPT ![t] = "passed"]
    /\ IF \E w \in Workers : hand[w] = t /\ pc[w] \notin {"store", "stamp"}
       THEN used.slow < MaxSlow /\ Use("slow")
       ELSE UNCHANGED used
    /\ UNCHANGED <<queue, delayed, processing, dead, attempts, pc, hand, seen, history>>

----------------------------------------------------------------------------
(* claim_ready *)

\* ZRANGEBYSCORE: the delayed members whose time has come.
Scan(w) ==
    /\ pc[w] = "idle"
    /\ LET due == {t \in Tasks : delayed[t] = "due"}
       IN /\ seen' = [seen EXCEPT ![w] = due]
          /\ Goto(w, IF due = {} THEN "pop" ELSE "promote")
    /\ UNCHANGED <<redis, attempts, hand, history, used>>

\* Mutant of Promote: the members are removed and not pushed.
PromoteLoses(w) ==
    /\ pc[w] = "promote"
    /\ delayed' = [t \in Tasks |-> IF t \in seen[w] THEN "absent" ELSE delayed[t]]
    /\ seen' = [seen EXCEPT ![w] = {}]
    /\ Goto(w, "pop")
    /\ UNCHANGED <<queue, processing, deadline, dead, attempts, hand, history, used>>

\* The pipeline (MULTI/EXEC) pushes every member of the list read before and
\* removes it from the sorted set, whether it is still there or not.
Promote(w) ==
    /\ pc[w] = "promote"
    /\ \E order \in Orderings(seen[w]) : queue' = order \o queue
    /\ delayed' = [t \in Tasks |-> IF t \in seen[w] THEN "absent" ELSE delayed[t]]
    /\ seen' = [seen EXCEPT ![w] = {}]
    /\ Goto(w, "pop")
    /\ UNCHANGED <<processing, deadline, dead, attempts, hand, history, used>>

\* RPOPLPUSH queue processing.
Pop(w) ==
    /\ pc[w] = "pop"
    /\ \/ /\ queue = <<>>
          /\ Goto(w, "idle")
          /\ UNCHANGED <<queue, processing, hand>>
       \/ /\ queue # <<>>
          /\ LET t == queue[Len(queue)]
             IN /\ queue' = SubSeq(queue, 1, Len(queue) - 1)
                /\ processing' = [processing EXCEPT ![t] = @ + 1]
                /\ hand' = [hand EXCEPT ![w] = t]
          /\ Goto(w, "stamp")
    /\ UNCHANGED <<delayed, deadline, dead, attempts, seen, history, used>>

\* RPOPLPUSH raises: RPOP and then LPUSH instead.
PopFallback(w) ==
    /\ pc[w] = "pop" /\ "pop" \in FailAt
    /\ used.errors < MaxErrors
    /\ Use("errors")
    /\ queue # <<>>
    /\ hand' = [hand EXCEPT ![w] = queue[Len(queue)]]
    /\ queue' = SubSeq(queue, 1, Len(queue) - 1)
    /\ Goto(w, "store")
    /\ UNCHANGED <<delayed, processing, deadline, dead, attempts, seen, history>>

Store(w) ==
    /\ pc[w] = "store"
    /\ processing' = [processing EXCEPT ![hand[w]] = @ + 1]
    /\ Goto(w, "stamp")
    /\ UNCHANGED <<queue, delayed, deadline, dead, attempts, hand, seen, history, used>>

\* Mutant of Stamp: HSET raises, and its except clause passes.
StampSkipped(w) ==
    /\ pc[w] = "stamp"
    /\ Goto(w, "work")
    /\ UNCHANGED <<redis, attempts, hand, seen, history, used>>

\* HSET processing:vis task now+60.
Stamp(w) ==
    /\ pc[w] = "stamp"
    /\ deadline' = [deadline EXCEPT ![hand[w]] = "live"]
    /\ Goto(w, "work")
    /\ UNCHANGED <<queue, delayed, processing, dead, attempts, hand, seen, history, used>>

----------------------------------------------------------------------------
(* The handler: what a worker decides after it ran the task *)

Succeed(w) ==
    /\ pc[w] = "work"
    /\ finished' = finished \cup {hand[w]}
    /\ Goto(w, "ack")
    /\ UNCHANGED <<redis, attempts, hand, seen, published, buried, fails, used>>

\* The run raises: retry if the attempts of this task allow it.
Raise(w) ==
    /\ pc[w] = "work"
    /\ fails' = [fails EXCEPT ![hand[w]] = @ + 1]
    /\ IF CanRetry(attempts[hand[w]] + 1)
       THEN /\ used.requeues < MaxRequeues
            /\ Use("requeues")
            /\ Goto(w, "unlist")
       ELSE /\ Goto(w, "bury")
            /\ UNCHANGED used
    /\ UNCHANGED <<redis, attempts, hand, seen, published, finished, buried>>

\* process_retry_jobs requeues what it claims without running it.
PassBack(w) ==
    /\ pc[w] = "work"
    /\ used.requeues < MaxRequeues
    /\ Use("requeues")
    /\ Goto(w, "unlist")
    /\ UNCHANGED <<redis, attempts, hand, seen, history>>

----------------------------------------------------------------------------
(* ack, requeue, dead_letter *)

\* Mutant of AckRemove: the serialised task is not the text that was pushed, so
\* LREM finds nothing.
AckMisses(w) ==
    /\ pc[w] = "ack"
    /\ Goto(w, "forget")
    /\ UNCHANGED <<redis, attempts, hand, seen, history, used>>

AckRemove(w) ==
    /\ pc[w] = "ack"
    /\ Unlisted(hand[w])
    /\ Goto(w, "forget")
    /\ UNCHANGED <<queue, delayed, deadline, dead, attempts, hand, seen, history, used>>

\* Mutant of AckForget: the worker goes on with the task still in hand.
AckKeepsHand(w) ==
    /\ pc[w] = "forget"
    /\ deadline' = [deadline EXCEPT ![hand[w]] = "none"]
    /\ Goto(w, "idle")
    /\ UNCHANGED <<queue, delayed, processing, dead, attempts, hand, seen, history, used>>

AckForget(w) ==
    /\ pc[w] = "forget"
    /\ deadline' = [deadline EXCEPT ![hand[w]] = "none"]
    /\ Goto(w, "idle") /\ Drop(w)
    /\ UNCHANGED <<queue, delayed, processing, dead, attempts, seen, history, used>>

\* Mutant of RequeueRemove: the method returns before ZADD.
RequeueOnlyRemoves(w) ==
    /\ pc[w] = "unlist"
    /\ Unlisted(hand[w])
    /\ Goto(w, "idle") /\ Drop(w)
    /\ UNCHANGED <<queue, delayed, deadline, dead, attempts, seen, history, used>>

RequeueRemove(w) ==
    /\ pc[w] = "unlist"
    /\ Unlisted(hand[w])
    /\ Goto(w, "postpone")
    /\ UNCHANGED <<queue, delayed, deadline, dead, attempts, hand, seen, history, used>>

\* ZADD of the same member overwrites its score.  The deadline stays, and so
\* does the attempts field.
RequeueDelay(w) ==
    /\ pc[w] = "postpone"
    /\ delayed' = [delayed EXCEPT ![hand[w]] = "waiting"]
    /\ Goto(w, "idle") /\ Drop(w)
    /\ UNCHANGED <<queue, processing, deadline, dead, attempts, seen, history, used>>

BuryRemove(w) ==
    /\ pc[w] = "bury"
    /\ Unlisted(hand[w])
    /\ Goto(w, "entomb")
    /\ UNCHANGED <<queue, delayed, deadline, dead, attempts, hand, seen, history, used>>

BuryPush(w) ==
    /\ pc[w] = "entomb"
    /\ dead' = [dead EXCEPT ![hand[w]] = @ + 1]
    /\ buried' = buried \cup {hand[w]}
    /\ Goto(w, "idle") /\ Drop(w)
    /\ UNCHANGED <<queue, delayed, processing, deadline, attempts, seen,
                   published, finished, fails, used>>

----------------------------------------------------------------------------
(* requeue_stuck_processing *)

\* HGETALL: the deadlines that have passed now.
Survey(r) ==
    /\ pc[r] = "rest"
    /\ LET overdue == {t \in Tasks : deadline[t] = "passed"}
       IN /\ overdue # {}
          /\ seen' = [seen EXCEPT ![r] = overdue]
    /\ Goto(r, "sweep")
    /\ UNCHANGED <<redis, attempts, hand, history, used>>

Onward(r) == Goto(r, IF seen'[r] = {} THEN "rest" ELSE "sweep")

\* Mutant of Sweep: the deadline is deleted before the task is moved.
SweepForgetsFirst(r) ==
    /\ pc[r] = "sweep"
    /\ \E t \in seen[r] :
        /\ seen' = [seen EXCEPT ![r] = @ \ {t}]
        /\ deadline' = [deadline EXCEPT ![t] = "none"]
        /\ \/ /\ processing[t] > 0
              /\ hand' = [hand EXCEPT ![r] = t]
              /\ Goto(r, "take")
           \/ /\ processing[t] = 0
              /\ Onward(r)
              /\ UNCHANGED hand
    /\ UNCHANGED <<queue, delayed, processing, dead, attempts, history, used>>

\* LRANGE: is an overdue task in the processing list?
Sweep(r) ==
    /\ pc[r] = "sweep"
    /\ \E t \in seen[r] :
        /\ seen' = [seen EXCEPT ![r] = @ \ {t}]
        /\ \/ /\ processing[t] > 0
              /\ hand' = [hand EXCEPT ![r] = t]
              /\ Goto(r, "take")
           \/ /\ processing[t] = 0
              /\ Onward(r)
              /\ UNCHANGED hand
    /\ UNCHANGED <<redis, attempts, history, used>>

\* Mutant of ReapRemove: the deadline is not deleted before the push.
ReapKeepsDeadline(r) ==
    /\ pc[r] = "take"
    /\ Unlisted(hand[r])
    /\ Goto(r, "return")
    /\ UNCHANGED <<queue, delayed, deadline, dead, attempts, hand, seen, history, used>>

ReapRemove(r) ==
    /\ pc[r] = "take"
    /\ Unlisted(hand[r])
    /\ Goto(r, "clear")
    /\ UNCHANGED <<queue, delayed, deadline, dead, attempts, hand, seen, history, used>>

ReapForget(r) ==
    /\ pc[r] = "clear"
    /\ deadline' = [deadline EXCEPT ![hand[r]] = "none"]
    /\ Goto(r, "return")
    /\ UNCHANGED <<queue, delayed, processing, dead, attempts, hand, seen, history, used>>

ReapPush(r) ==
    /\ pc[r] = "return"
    /\ queue' = <<hand[r]>> \o queue
    /\ UNCHANGED seen
    /\ Onward(r) /\ Drop(r)
    /\ UNCHANGED <<delayed, processing, deadline, dead, attempts, history, used>>

----------------------------------------------------------------------------
(* Redis errors and deaths *)

\* Where the except clauses lead when the command of a step raises.  A task
\* in hand is dropped when the step leads home.
ErrorExit ==
    [promote  |-> "idle",     store    |-> "idle", stamp  |-> "work",
     ack      |-> "idle",     forget   |-> "idle",
     unlist   |-> "postpone", postpone |-> "idle",
     bury     |-> "entomb",   entomb   |-> "idle",
     take     |-> "rest",     clear    |-> "rest", return |-> "rest"]

CommandRaises(a) ==
    /\ pc[a] \in FailAt \cap DOMAIN ErrorExit
    /\ used.errors < MaxErrors
    /\ Use("errors")
    /\ IF ErrorExit[pc[a]] = Home(a)
       THEN /\ Drop(a)
            /\ IF a \in Reapers
               THEN UNCHANGED seen /\ Onward(a)
               ELSE Goto(a, "idle") /\ seen' = [seen EXCEPT ![a] = {}]
       ELSE /\ Goto(a, ErrorExit[pc[a]])
            /\ UNCHANGED <<hand, seen>>
    /\ UNCHANGED <<redis, attempts, history>>

\* A process dies before the command of its step, and starts again.
Crash(a) ==
    /\ pc[a] \in CrashAt
    /\ used.crashes < MaxCrashes
    /\ Use("crashes")
    /\ Goto(a, Home(a)) /\ Drop(a)
    /\ seen' = [seen EXCEPT ![a] = {}]
    /\ UNCHANGED <<redis, attempts, history>>

----------------------------------------------------------------------------

WorkerNext(w) ==
    \/ Scan(w) \/ Promote(w) \/ Pop(w) \/ Store(w) \/ Stamp(w)
    \/ Succeed(w) \/ Raise(w) \/ PassBack(w)
    \/ AckRemove(w) \/ AckForget(w)
    \/ RequeueRemove(w) \/ RequeueDelay(w)
    \/ BuryRemove(w) \/ BuryPush(w)

ReaperNext(r) ==
    Survey(r) \/ Sweep(r) \/ ReapRemove(r) \/ ReapForget(r) \/ ReapPush(r)

Clock(t) == DelayElapses(t) \/ DeadlinePasses(t)

Next ==
    \/ \E t \in Tasks : Publish(t) \/ Clock(t)
    \/ \E w \in Workers : WorkerNext(w) \/ PopFallback(w)
    \/ \E r \in Reapers : ReaperNext(r)
    \/ \E a \in Actors : CommandRaises(a) \/ Crash(a)

Spec == Init /\ [][Next]_vars

\* The worker loop (runner.py) polls for ever, the reaper thread wakes every
\* ten seconds, and time passes.  Nothing forces a worker to be slow, a run to
\* raise or a process to die.
Fairness ==
    /\ \A w \in Workers : WF_vars(WorkerNext(w))
    /\ \A r \in Reapers : WF_vars(ReaperNext(r))
    /\ \A t \in Tasks : WF_vars(Clock(t))

LiveSpec == Spec /\ Fairness

----------------------------------------------------------------------------
(* Properties *)

\* Every key holds tasks of the queue.
StoreOK ==
    /\ queue \in Seq(Tasks)
    /\ delayed \in [Tasks -> {"absent", "waiting", "due"}]
    /\ processing \in [Tasks -> Nat]
    /\ deadline \in [Tasks -> {"none", "live", "passed"}]
    /\ dead \in [Tasks -> Nat]
    /\ attempts \in [Tasks -> Nat]
    /\ published \subseteq Tasks /\ finished \subseteq Tasks /\ buried \subseteq Tasks
    /\ fails \in [Tasks -> Nat]
    /\ used \in [crashes : Nat, errors : Nat, slow : Nat, requeues : Nat]

\* A process has a task in hand exactly between its claim and its return home,
\* and a snapshot is a set of tasks.
ControlOK ==
    /\ pc \in [Actors -> WorkerSteps \cup ReaperSteps]
    /\ \A w \in Workers : pc[w] \in WorkerSteps
    /\ \A r \in Reapers : pc[r] \in ReaperSteps
    /\ hand \in [Actors -> Tasks \cup {None}]
    /\ \A a \in Actors : pc[a] \in Holding <=> hand[a] # None
    /\ seen \in [Actors -> SUBSET Tasks]

\* Types: what the keys and the processes hold.
TypeOK == StoreOK /\ ControlOK

\* A process between two commands of a move.
Carried(t) == \E a \in Actors : hand[a] = t /\ pc[a] \in Carrying

Stored(t) == t \in Range(queue) \/ delayed[t] # "absent" \/ processing[t] > 0

\* No task is lost: as long as no process dies and no command raises between
\* the two commands of a move, a published task that no worker finished or
\* dead-lettered is in a list, in the sorted set, or in the hands of a process
\* whose next command puts it there.  (Late acks, double promotions and
\* several reapers may copy a task, they never lose it.)
Conserved ==
    (CrashAt \cup FailAt) \cap Carrying = {} =>
        \A t \in published : t \in finished \cup buried \/ Stored(t) \/ Carried(t)

Holds(w, t) == hand[w] = t /\ w \in Workers

\* No live worker missed its deadline, nothing was requeued, one reaper.
OnTime == used.slow = 0 /\ used.requeues = 0 /\ Cardinality(Reapers) <= 1

\* One worker at a time: two workers hold the same task only if a live worker
\* missed its deadline, a task was requeued (and promoted twice), or several
\* reapers gave it back.  Deaths and recovered tasks do not break it.
Exclusive ==
    OnTime => \A t \in Tasks : \A v, w \in Workers : Holds(v, t) /\ Holds(w, t) => v = w

\* The reaper sees every claim: with one reaper, on time workers and no HSET
\* cut short, every task of the processing list has a visibility deadline as
\* soon as the worker that popped it is past its HSET.
Watched ==
    OnTime /\ "stamp" \notin CrashAt \cup FailAt =>
        \A t \in Tasks :
            processing[t] > 0 =>
                \/ deadline[t] # "none"
                \/ \E a \in Actors : hand[a] = t /\ pc[a] = "stamp"

\* An outcome is final: with one reaper and workers on time, a task that ended
\* is in no queue and in no hand but its worker's, on its way home, and is not
\* both finished and dead.  Only a death or an error at the LREM of an ack, or an
\* error at the LREM of a burial, can have it run once more.
OutcomesFinal ==
    OnTime /\ "ack" \notin CrashAt \cup FailAt /\ "bury" \notin FailAt =>
        /\ finished \cap buried = {}
        /\ (finished \cup buried) \cap Range(queue) = {}
        /\ \A a \in Actors : hand[a] \in finished \cup buried => pc[a] \in {"ack", "forget"}

\* Every published task is in the end finished or dead-lettered, although its
\* worker may die while it runs it.
Settles == \A t \in Tasks : t \in published ~> t \in finished \cup buried

\* ... and every list of the queue is in the end empty for good: no copy of a
\* settled task stays behind in the processing list.
Drains ==
    <>[](queue = <<>> /\ \A t \in Tasks : delayed[t] = "absent" /\ processing[t] = 0)

\* A task that raised max_attempts times is dead-lettered, not run again.
DeadAfterMaxAttempts == \A t \in Tasks : fails[t] <= MaxAttempts
=============================================================================
