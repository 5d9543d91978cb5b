# Verification of the AI orchestrator backend

This directory specifies the backend (`backend/app`) and the alert webhook
(`docker/alert_webhook.py`) in TLA+: queues, workers, submission, the graphs a
run walks, tool and LLM calls and their accounting, and alerts. TLC checks the
modules on small instances; every invariant and action property they check is
also proved with TLAPS, for every value of the constants. All paths below are
relative to `backend/app` unless they start with `docs/`, `docker/` or name a file of
the repository's root.

## The system

A client posts a run of a workflow. The API checks the tenant's quota and the
idempotency key, stores an execution, creates its *lifecycle*, publishes a job
and answers 202. Workers poll the queue, run the workflow graph, and write the
outcome to a *shared state* record and to the stored execution; a job that
raises is requeued with a delay or dead-lettered. A workflow may publish a tool
job. Clients poll the execution; each GET "refreshes" it from the clock.
Reaper threads give back jobs whose worker seems dead. A run walks a graph chosen
by the workflow's definition, may pause for an approval, and leaves a checkpoint;
its nodes call tools, which are charged to a quota, and LLM providers, which are
accounted per execution. A dead-lettered job raises an alert.

| Component | State | Operations | What is hard |
|---|---|---|---|
| Redis queue backend, `workers/celery.py:113-310` | `queue:*`, `queue:delayed:*`, `processing:*`, `processing:vis:*`, `queue:dead:*` | publish, claim_ready, requeue, dead_letter, ack, requeue_stuck_processing | every method is several Redis commands; processes die; several reapers; swallowed errors |
| In-memory queue backend, `workers/celery.py:37-112` | `_tasks`, `_dead_letter` under one lock | the same without ack and reaping | delays, attempts, threads |
| Workers, `workers/*_worker.py`, `runner.py` | the task in hand | run_once: one workflow job, all tool jobs, the retry loop | the retry loop claims jobs it does not run |
| Reaper, `workers/reaper.py`, `orchestrator/scheduler.py` | a thread | a sweep every ten seconds | stale deadlines and stale lists |
| Submission, `api/v1/automations.py`, `orchestrator/execution_manager.py:29-62`, `billing/quota_manager.py`, `tenancy/usage_meter.py` | stored executions, idempotency map, lifecycles, usage | quota check, lookup, create, publish, register, meter | concurrent requests between check and act, a counter without a lock |
| Execution state, `state/*.py`, `execution_manager.py:64-93` | lifecycles, shared records, status and output | transitions, refresh | workers and pollers write the same object |
| Workflow runner and checkpoints, `orchestrator/workflow_runner.py`, `memory/short_term` | checkpoint files | build_execution_plan, resume | keyed by workflow, not execution; a write is not atomic |
| Graphs, nodes, agents, `graphs/`, `nodes/`, `agents/primitives.py`, `workflows/` | the state dict of a run | routing, approval, fallback, the choice of a graph | loops, pauses, missing nodes, routes around an approval |
| Engine configuration, `orchestrator/engine.py`, `api/v1/workflows.py` | workflow definitions | create, update | lost updates |
| Tool layer, `tools/registry.py`, `tools/quota.py`, `api/v1/admin.py` | quotas in memory, Redis or a database | run_tool in four modes, check, charge, set | check-then-act, read-modify-write, stores that raise, timeouts |
| LLM router, `llm/`, `observability/llm_usage.py` | trackers, usage cache, llm_usage table | select_route, complete, record_llm_usage | partial failures, double accounting, unlocked cache |
| Alerting, `orchestrator/event_bus.py`, `observability/alerts.py`, `docker/alert_webhook.py`, `alertmanager.yml` | alert list, notification table | dead_letter, notify, do_POST, fetch_records | senders that give up, one lock over a database, restarts |
| Celery stub, auth, repositories, traces, frontend | – | – | not modelled, see the end |

## Modules

| Module | Models | 
|---|---|
| `RedisQueue` | the Redis backend, its workers and its reapers, one Redis command per step |
| `RedisQueue_proofs` | `TypeCorrect`, `NoTaskLost`, `OneWorkerAtATime`, `ReaperSeesEveryClaim` and `OutcomesAreFinal` of `RedisQueue` |
| `Submission_proofs` | `SubmissionTyped`, `RetriesReplay`, `AnswersNameExecutions` and `OvershootIsBounded` of `Submission` |
| `JobQueue` | what a queue backend promises: the abstract specification |
| `MemoryQueue` | the in-memory backend and run_once; refines `JobQueue` |
| `Submission` | the run endpoint from the quota check to the answer, on top of `JobQueue` |
| `Executions` | extends `Submission` with workers, tool workers, pollers and the clock of the lifecycles |
| `Executions_proofs` | `ExecutionsTyped`, `EndedWithOutput`, `OutcomeIsTold`, `RecordsTell` and `SubmissionThroughout` of `Executions` |
| `FlowGraphs` | the nodes, graphs, templates and their choice, as operators on the state of a run |
| `Flows` | the runs of one workflow on those graphs, its definition and its editors, the checkpoint file, an operator who approves and resumes |
| `Flows_proofs` | `TypesHold`, `NoActBeforeApproval`, `ApprovalsTakeEffect`, `EffectsAreBounded`, `NoSequentialEditLost` and `RunsForward` of `Flows` |
| `ToolCalls` | run_tool in its four modes, the quota in its three stores, the admin request |
| `LLMCalls` | calls of the LLM router and the accounting of their answers |
| `Alerts` | from a dead letter to the webhook's table, with Alertmanager |
| `Alerts_proofs` | `WellTyped`, `StoredFirst` and `LatestIsTold` of `Alerts` |
| `ToolCalls_proofs` | `NothingOutlives`, `Accounted`, `UsageIsKept`, `ToolsTyped` and `OvershootOfRuns` of `ToolCalls` |
| `LLMCalls_proofs` | `LLMTyped`, `EveryProviderIsAsked`, `RouteIsAskedFirst`, `Accounting` and `UsageIsComplete` of `LLMCalls` |
| `MemoryQueue_proofs` | `QueueTyped`, `DeadHaveCause` and `Implements` (the refinement of `JobQueue`) of `MemoryQueue` |
| `MCRedisQueue`, `MCMemoryQueue`, `MCSubmission`, `MCExecutions`, `MCFlows`, `MCToolCalls`, `MCLLMCalls`, `MCAlerts` | instances for TLC |

The layers meet in `JobQueue`: `MemoryQueue` is checked to implement it, and
`Submission` and `Executions` take it for the queue between the API and the
workers. The Redis backend does not implement it (two workers may hold one job,
a job may run more often than allowed), which is why it has properties of its
own. `Flows` also rests on what `JobQueue` promises: a job is claimed at most
`MaxTries` times, by one worker at a time. `ToolCalls`, `LLMCalls` and `Alerts` are
what a node, an agent and a worker call; a caller appears there only as the
thread that waits for the answer.

### RedisQueue

One queue name. A task is the JSON text the lists hold; `claim_ready` converts
`available_at` to a datetime and `asdict` with `default=str` gives the same text
back, so LREM by value finds it, and a task is a model value. `queue` is a
sequence (served from the right: RPUSH by publish, LPUSH by promotions and the
reaper); the sorted set keeps for each member whether its score is reached; the
processing list is a count per task because nobody looks at its order; a
visibility deadline is live or passed.

A worker is a program counter: `idle` –ZRANGEBYSCORE→ `promote` –MULTI→ `pop`
–RPOPLPUSH→ `stamp` –HSET→ `work`, and from there ack (`ack`, `forget`),
requeue (`unlist`, `postpone`) or dead_letter (`bury`, `entomb`). The fallback of
a failing RPOPLPUSH goes through `store`. A reaper goes `rest` –HGETALL→ `sweep`
–LRANGE→ `take` –LREM→ `clear` –HDEL→ `return` –LPUSH→. `Crash` kills a process
before any step of the constant `CrashAt`, `CommandRaises` makes the command of a
step of `FailAt` raise and follows its except clause. The history variables
`published`, `finished`, `buried` and `fails` are not in the code.

`attempts` never changes: `requeue` writes the task back unchanged. It is kept
as a variable because the retry decision reads it. Celery's stub, `pending`,
`dead_letters` and `clear` are left out.

### MemoryQueue and JobQueue

Every method of the in-memory backend holds the lock for all of its effect, so a
method is a step. `stage` follows run_once: `workflow` (one job), `tool` (until
none), `retry` (claims a workflow job only to requeue it with delay 0) and
`follow` (the job processed after that). Delays are relative and `Tick` lets a
second pass. `can_retry` treats all attempts from `MaxAttempts` on alike, so
`Count` stops there: no bound is needed on the hand-backs. The retry policy's `2 **`
is the recursive function `Power`, about which one can prove something.

`JobOf` maps a task to `absent`, `waiting`, `running`, `finished` or `dead`; a job
the retry loop holds is still waiting. `ImplementsJobQueue` is the refinement.

### Submission and Executions

The in-memory stores of one process, one tenant. A request that creates an
execution shares its name with it. `CheckQuota` is the dependency of the route,
the other actions are the lines of `submit_execution`, each access to shared data
one step. The meter has no lock, and its `_USAGE[tenant]["executions"] += 1` is
`FindDict`, `MakeDict` (a missing dict is made by a Python lambda, so another thread
may make one meanwhile), `ReadCount` and `WriteCount`; a dict is named after the
request that made it. In `Executions` a worker is again a program counter; the assignments to
`status` and to `output` are separate steps because `get_by_id` returns the stored
object itself. `Elapse` is the 75 ms and 175 ms of the lifecycle. A poller decides
(`Decide`), then writes status, output and history. Two equal transitions in a row
(`mark_running` after `transition`) are one step. Input, results, errors and
timestamps are abstracted; a run returns any of completed, paused, failed, or
raises. Whether an execution of `WithTool` asks for a tool is chosen when its run
returns, which happens once.

With a database (`REPO_BACKEND=DB`) a worker started by `runner.py` calls
`get_execution_repository()` outside a request and gets FastAPI's `Depends` object
for a session; its reads raise, the except clauses pass, and nothing is persisted.
That configuration is not modelled.

### FlowGraphs and Flows

`FlowGraphs` is BaseGraph.run without its loop: `Node` and `Step` are the handlers,
a graph is its entry and its edges, `Turn` is one pass of the loop and `NextNode`
where it goes. Of the state of a run it keeps what routing reads, whether the run
called a tool or sent its outreach (`acted`), and how often it planned. `Resolve`
is graph_registry.resolve. The input is a record of what routing asks of it; an
input that is no mapping (`Text`) is what `tests/integration/test_graph_recovery.py`
drives the graph with.

In `Flows` an execution goes `waiting` –claim→ `walk` (one step per node) → `save`
–truncate→ `writing` –write→ `publish` → `over`, or back to `waiting` while attempts
last. The file is one variable for all executions of the workflow; while it is
truncated it is `Torn`, and of two writers that truncated together one may leave
it torn. A death during the walk leaves the same as a death at its end, so
`WorkerDies` starts at `save`. An editor reads the definition and writes it back
with its field. The operator is the test's: it loads a paused checkpoint, marks
the input approved, saves it and resumes; no route of the API does. `allowed_tools`
are stored in the state and read by nobody.

### ToolCalls

A call is at `call` while its tool runs, `late` when its timeout was raised but the
thread pool still waits for the tool, `record` while it charges, then `answered`.
`tool` is what runs the tool and outlives the call if nobody ends it. `stuck` is a
child process whose result does not fit the pipe: it is joined before the result
is read, so it cannot exit. The quota is one record; in Redis a charge reads the CPU
time and then executes a pipeline, in the database a charge and a set read a row
and merge it. A merge of a row that was absent at the read inserts: if it was
created meanwhile the other columns are reset, or the INSERT fails. Redis and the
database may raise whenever they are asked: a check then refuses its call, a charge or a
set fails before it is applied (`RecordFails`, `SetFails`) or after (`RecordUnheard`,
`SetUnheard`: the answer is lost, and the clients do not send a command again). Nothing in
run_tool catches that, although the comment at `tools/registry.py:187` calls the charge
best-effort: the call raises with its result lost and its other charge undone. CPU time is
0 or 1 a charge.

### LLMCalls

The chain of a call is a rotation of the order of priority, with a name the router
does not know in front, and `turn` is the place in it the call has come to. What an
answer leaves is written line by line: the trackers and a metric of the router, then the
cache of `llm_usage.py` (check, create, look up, append), its own metric, and the row (its
number, its commit). `ledger` has, for each call and provider, how many records the two
trackers of the router hold and what `record_llm_call` added to the three counters of
`metrics.py`: requests by status, tokens, cost. The tokens and the cost of one answer are
the unit. A usage entry is named after the call that created it. A crash empties everything
but the table.

### Alerts

A burial is the worker's side of EventBus.dead_letter; a post of it or of
Alertmanager is served by a thread of the webhook, which goes `insert` → `forward`
(each channel) → `reply`. `waits` says whether the sender still listens.
Alertmanager is what `alertmanager.yml` configures: an alert a label set, repeated
notifications until one is answered, resolved ones too. Faults are bounded
together: a notification that times out, a crash of the webhook, an insert that
fails, a connection that hangs while it holds `DB_LOCK`.

## Runs

| Run | Shows |
|---|---|
| `RedisOneTask` | `TypeOK`, `Conserved`: one task, two workers, two reapers, a death, an error, a missed deadline and two requeues. One task suffices for loss, since commands on different tasks commute except for their place in the list |
| `RedisRecovery` | `Exclusive`, `Watched`, `Settles`, `Drains`: two tasks, two workers, one reaper, two deaths; no requeue, no slow worker. Under these conditions recovery is exact |
| `MemoryTwoWorkers` | `TypeOK` (with every task in one place), `DeadForCause`, `ImplementsJobQueue`: two workflow jobs, a tool job, two threads, two attempts |
| `MemoryRetries` | `Settles`: the same jobs, one thread, three attempts, so two different delays |
| `Submission` | three properties of the endpoint: five requests, two in flight, quota two, a shared key, an unknown workflow; two meters that interleave |
| `ExecRuns` | five properties of an execution with two workers, a poller (two rewriting polls), a possible tool job and a retry |
| `Flows` | seven properties of runs: two executions, two editors, three definitions (two graphs by name, one list of steps that loops), inputs that ask for an approval, a tool, research, nothing, or are no mapping; two attempts, a death, an operator |
| `ToolCalls` | five properties of tool calls: three calls, two in flight, in every mode but async, every store, an admin request, limits of one run and two seconds; the store may raise to one call and to the admin request |
| `LLMCalls` | five properties of LLM calls: three calls, two of them of one execution, three routers (default with two keys, without keys, given two providers), a crash |
| `Alerts` | five properties of alerts: two burials of one task name, two threads, two channels, Alertmanager, one fault |
| `RedisRetryLimit` | a violation: a failing task runs for ever, against `docs/BUILD_PLAN.md:134` |
| `FlowPaused` | a violation: a run that pauses for approval has its tool job published, against `docs/BUILD_PLAN.md:185` |

`CHECK_DEADLOCK FALSE` appears in the configurations of `Submission`, `Executions`,
`Flows`, `ToolCalls`, `LLMCalls` and `Alerts`: a server whose clients have all been
answered and whose jobs are done stops, and their instances have finitely many
clients. Symmetry is used only in `RedisOneTask`, which has no liveness property.

What the passing runs say, in words:

* **Conserved** – no interleaving of late acks, double promotions, competing
  reapers and deaths loses a task, as long as the process that carries it from one
  key to another survives. Deaths there do lose it, which the property excludes
  explicitly and the model can show (`CrashAt` with a step of `Carrying`).
* **Exclusive, Watched, Drains** – the conditions in the properties are the
  boundary TLC found: with a requeue *and* a death, `Drains` fails (a double
  promotion, then the HDEL of one worker's ack takes away the deadline of the
  other, which dies: its entry stays for ever); with a slow worker or two
  reapers, `Exclusive` fails.
* **ImplementsJobQueue, DeadForCause** – one worker at a time, at most
  `MaxAttempts` starts, one outcome, no copy. A dead-lettered job used up its
  attempts, but hand-backs of the retry loop count: it may have run only once.
  The attempts a runner wastes this way are not a matter of chance: its retry
  loop claims any ready workflow job.
* **QuotaOvershootBounded** – the usage counts no execution twice, and can miss only
  those whose requests metered while another did. But for these, the quota is overshot by
  at most the requests in flight minus one.
* **SequentialRetriesReplay, AnswersExist** – duplicates arise only between
  overlapping requests, and an answer always names a stored execution with a
  lifecycle and with a job, or one that its own request is about to publish.
* **ActsOnlyIfApproved, ApprovalTakesEffect** – in the graphs chosen by name no
  route leads to a tool or an outreach around the approval node, also not after a
  resume, and an approval that no worker overwrote in the shared file completes
  the run in its own definition. A list of steps has no such guarantee: its
  `approval` step is the validator, which never pauses.
* **RunsGoForward, RunsEnd** – every turn leads to a later node and every run ends,
  unless its workflow lists its steps and its input asks for approval or research,
  and also if a step is listed twice. Those two do loop: with a router and a research
  query, `router` and `research` alternate for ever.
* **EffectsPerAttempt, SequentialEditsKept** – a retry is the only source of a
  repeated effect, and an update of a definition is lost only to an overlapping one,
  or to a later one of the same field, which means to overwrite it.
* **UsageKept, QuotaBoundsRuns, AnswersAccounted** – what a quota may miss and when:
  memory loses nothing, Redis the CPU time of overlapping charges, the database
  whatever overlaps; the runs admitted under a limit and charged exceed it by less
  than those in flight. A call that returns a result was observed as a success and charged
  twice (process), once (container) or never; one that is refused or times out is charged
  nothing; and a success that was observed is not returned only where Redis or the
  database raised at its charge.
* **NothingLeftRunning, CallsAnswered** – a timed-out child is ended, a timed-out
  container is not; every sandboxed call is answered, provided its child dies of
  `terminate()`, which the code joins without a timeout.
* **RaisesOnlyAfterAll, RouteIsFirstTried, AttemptsAccounted, UsageComplete** – the chain
  asks every usable provider once, whatever was preferred; the route that runs
  report is the provider that is asked first; every attempt is attributed to the provider
  that was asked, a failure as one failed request and nothing else, an answer with exactly
  what the code records of it (the repetitions listed below included); an execution's
  usage is complete if its calls do not overlap.
* **StoredBeforeTold, LatestTellsStatus, FiringIsStored, BurialsEnd** – an alert is
  in the table before anybody is forwarded it or answered, the newest record tells
  the status unless a notification was given up, an alert that stays firing reaches the
  table unless the database hangs, and no worker waits for any of it for ever.
* **EndedHasOutput, StatusTellsOutcome, ExecutionsSettle** – order of the writes
  to a stored execution, and that every execution ends or is dead-lettered.
* **RecordTells** – the shared record of an execution that is over tells how it ended,
  with two exceptions that happen: it was made after its worker looked for it and stays
  `queued`, or the worker that handed the job back wrote `retrying` last. It never
  stays `running`.

Met while modelling, not among the runs:

* Redis queue. Two workers that read the same due member both push it
  (`workers/celery.py:145`): a task runs twice. A reaper pushes a task back without
  looking at what its LREM removed (`:249`), so one its slow worker acknowledged
  runs again. A worker that dies between RPOPLPUSH and HSET (`:174`) leaves a task
  that no reaper ever looks at. A stale promotion cuts a backoff short.
* Submission and executions. Two requests with one key in flight at once create
  two executions (`execution_manager.py:37`; `docs/BUILD_PLAN.md:108` says duplicates
  do not). A GET turns a paused execution, or one no worker has run, into a completed
  one (`execution_manager.py:71`). The shared record is registered after the
  publication, so a fast worker's marks are lost. Two requests that meter at once lose
  a count (`tenancy/usage_meter.py:14`), or all that was counted in the dict that the second
  replaces; the quota then lets that many more in.
* Tools. The docstring of run_tool says a thread pool enforces the timeout
  (`tools/registry.py:122`), but leaving the pool waits for the tool (`:356`). Inline calls
  and timeouts are never charged, a call in a child process is charged twice. A Redis or
  database error at the charge makes a call fail whose tool succeeded.
* LLM. An answer is told to the metrics by `llm/router.py:151` and again by
  `observability/llm_usage.py:31`: `llm_requests_total` and `llm_tokens_total` count it twice,
  and a cost tracker that the router shares with the module (the default one) has its cost
  twice, though only the second metric adds the cost. `docs/BUILD_PLAN.md:159` asks that "each
  request records the correct provider, token usage, and cost metadata", `:166` that "Cost
  accounting records each request"; `AttemptsAccounted` states the code's counts. `LLM_TEST_MODE`
  changes select_route only: complete still asks the real providers. Row ids start again at 1 after a restart, so the first rows of an
  execution that goes on are refused. get_usage_for_execution reads the cache of
  the API's process, while the calls are made in the workers'.
* Alerts. The status of Alertmanager's answer is not looked at, so a refusal (say, of
  the v1 API) goes unnoticed. Alerts of one task name are one alert. A direct post
  is forwarded as just "alert", for it has no labels.

## Bounds

`MaxCrashes`, `MaxErrors`, `MaxSlow` and `MaxRequeues` bound how often something bad
happens in `RedisQueue`; `MaxInFlight` and `MaxPolls` bound concurrency in
`Submission` and `Executions`, and calls in `ToolCalls`; `MaxDeaths` bounds dying
workers in `Flows`, `MaxCrashes` crashes in `LLMCalls`, and `MaxFaults` all faults in
`Alerts` together. All are in the guards. Two workers and two reapers
give every pairwise race; the bad events are bounded at one or two each because
the known failures combine at most two of them. Tasks, requests, calls and attempts are
finite by the constants. In `Flows` two executions share the file, and the second
has a plain input, since it matters only as a writer; in `ToolCalls` two overlapping
read-modify-writes suffice for every loss, and a third call meets the limit that
the first two have raised; `Faulty` names who may meet a raising store, one call and the
setter in the run; an async call is left to the proofs, because it takes the steps of an
inline one that ends in time; in `Alerts` one name, because names share nothing but the
table and the lock.

## Fairness

Workers poll for ever (`run_loop`), the reaper wakes every ten seconds, time
passes and a request handler that began goes on: weak fairness of
`WorkerNext`/`RunOnce`, `ReaperNext`, `Clock`/`Tick` and `Submit`. Nothing is
assumed of clients (`Publish`, `CheckQuota`, `Refresh`), of deaths, errors, slow
workers or the outcome of a run. With two runner threads two retry loops can hand
one job to and fro for ever without running it, and no fairness of the code
excludes that, so `MemoryRetries` has one thread.

In `Flows` a run that was claimed goes on (`Run`): nothing is assumed of editors, of
the operator, or of who submits. In `ToolCalls` the calling thread runs and its
clock ticks (`Proceed`), but a tool need never end (`ToolEnds`). In `Alerts` a burial that
began goes on, a post ends by its timeout of five seconds, the webhook's threads run
and forward with timeouts, and Alertmanager repeats its notification; a hung
connection need never return, which is why `FiringIsStored` excepts it. `LLMCalls`
has no liveness property: the chain is finite by its construction.

## Proofs

`RedisQueue_proofs` proves, from the five named assumptions of `RedisQueue`
(workers and reapers are distinct, `None` is no task, finitely many tasks and
reapers, natural bounds):

* `TypeCorrect == Spec => []TypeOK`. `StoreOK` is inductive given `ControlOK`, and
  `ControlOK` is shown once for any step that changes one process (`Moves`), so
  each action only states where it goes.
* `NoTaskLost == Spec => []Conserved`. `Conserved` needs one strengthening,
  `AcksFinished`: a worker at `ack` holds a finished task, otherwise the LREM of
  an ack could remove an unfinished one. `KeptStep` then shows action by action
  that a task that is stored, carried or settled stays so (`Kept`), and a newly
  published one is in the queue. The four lemmas on sequences give the range of a
  list after LPUSH, RPUSH and RPOPLPUSH.
* `OneWorkerAtATime == Spec => []Exclusive`. While no worker is late, nothing was
  requeued and there is one reaper at most (`OnTime`), a task has one owner: `Ownership`
  says that it stands in the queue once, or is held by one process, or was left with a
  deadline; no worker holds a task whose deadline has passed, and what a reaper goes
  through has passed. Deaths and errors do not break it.
* `ReaperSeesEveryClaim == Spec => []Watched`, from `Ownership` and `Claims`: a task in the
  processing list has a deadline or a worker about to stamp it (`Visible`), because
  who is about to delete a deadline has just removed the one entry (`Unlisting`).
* `OutcomesAreFinal == Spec => []OutcomesFinal`, from `Ownership` and `SettledAside`: a task
  that ended is in the processing list only until the LREM of its ack, and who is past
  that LREM or a burial's knows it gone from there (`Ownership` lists it once). A reaper
  does not take it meanwhile, because what a reaper goes through has a passed deadline
  and a worker on time holds no such task. `SettledWorker`, `SettledReaper` and
  `SettledEnvironment` are the steps. The conditions are needed: after a death or an error
  at the LREM of an ack the task is finished, still listed with a deadline, and a
  reaper returns it.

`Submission_proofs` proves of the requests alone (`Spec`, no worker takes a job),
for any set of requests and keys and any limits, from `KeyIsKey`, `NoneIsNeither`
and the definitions of the queue:

* `SubmissionTyped == Spec => []SubmissionTypeOK`, through `Typed`, which adds the
  types of the jobs, that a request in progress has no answer and that only a
  request with a key looks one up.
* `RetriesReplay == Spec => []SequentialRetriesReplay`. The strengthening is
  `KeyedReplay`: an execution past its lifecycle has its key recorded, and the key
  leads to a stored execution, so a request that begins after it never stands at
  `create`.
* `AnswersNameExecutions == Spec => []AnswersExist`. The strengthening is
  `NamesFindable`: recorded keys and answers both name an execution of that key
  whose lifecycle exists; `StepFindable` shows that none disappears.
* `OvershootIsBounded == Spec => []QuotaOvershootBounded`, from `Quota`: the
  executions that are sure to be counted (those whose request ended and never metered
  together with another) are at most the usage, and together with the requests in flight
  never exceed `Limit - 1 + MaxInFlight`. A request that passes the check joins that
  set while it counts at most `Limit - 1` of them and fewer than `MaxInFlight` others.
  `Ledger` says why none of these counts is lost: two meters at work are both `overlapped`,
  and one that is not holds the current dict and has read no fewer than are sure
  (`MeterGoesOn`, `MeterEnds`); nor does any count exceed the requests that metered.

`Executions_proofs` proves of the whole, with workers, pollers and the clock, from the
assumptions of `Submission` and `Executions`:

* `SubmissionThroughout == SpecAll => [](SequentialRetriesReplay /\ AnswersExist /\
  QuotaOvershootBounded)`: what holds of the requests alone holds when workers take the jobs.
* `ExecutionsTyped == SpecAll => []ExecutionsTypeOK`, from `Base`. Its parts `Hands` (a running
  job is in one hand; a worker that has handed its job back may still hold it while
  another runs it) and `Polls` (a poller at work refreshes a stored execution) are
  what the other two need.
* `EndedWithOutput == SpecAll => []EndedHasOutput`, from `Outputs`: a status without an output
  is one whose writer, a worker or a poller, is about to write the output (`Pending`).
* `OutcomeIsTold == SpecAll => []StatusTellsOutcome`, from `Told`: until a poll begins,
  a status once written is the outcome of the run, or what its tool job wrote after it.
* `RecordsTell == SpecAll => []RecordTells`, from `Records`: `RecordOf` says for each execution
  whose jobs are over what its record may hold, depending on whether a worker is about
  to mark it (`Marking`) or once gave the job back (`GivenBack`, which only happens to a job
  that is run again). A step writes the record of the execution in its hand at most
  (`OthersRecord`), so only `OwnRecord` and `ClaimRecords` have to look at what is written.

`Flows_proofs` proves, for any graphs among those of `FlowGraphs`, any lists of steps, inputs,
editors and attempts, from the named assumptions of `Flows`:

* `TypesHold == Spec => []FlowsTypeOK`, `NoActBeforeApproval == Spec => []ActsOnlyIfApproved`,
  `ApprovalsTakeEffect == Spec => []ApprovalTakesEffect` and
  `EffectsAreBounded == Spec => []EffectsPerAttempt`, from one invariant, `FlowsInv`:
  `Attempts` (a run's state is one its graph can reach, so that it acted only behind
  an approval, and its effects are at most its attempts), `Edited` (definitions),
  `Filed` (the file holds an ended run), `Approving` (what the operator holds is an
  approved run and, unless a worker overwrote it, also what the file holds) and
  `TakesEffect` (a resumed run stands behind the approval and can only complete). The graphs
  chosen by name are closed, which is shown edge by edge, once for every input; a
  list of steps is a graph over its own positions.
* `NoSequentialEditLost == Spec => []SequentialEditsKept`. The proof found that the property
  as first stated was false: two editors of one field that follow one another lose
  the first one's value, as they mean to. It now excepts them.
* `RunsForward == Spec => RunsGoForward`, an action property. A named graph has a rank for
  each of its nodes; in a list of steps the rank of a node is the last place that names
  it (`LastPlace`), because the code looks for the step after that one (`FollowingIsLater`).
  `TurnsForward` compares the ranks of a node and of the next, edge by edge. Together
  with the length of the list as the highest rank this is why such a run ends.

`Alerts_proofs` proves, for any burials, threads, channels and bounds, from
`ManagerIsNoBurial`, `ChannelsAreASequence` and `ListMaxIsPositive`:

* `WellTyped == Spec => []AlertsTypeOK` and `StoredFirst == Spec => []StoredBeforeTold`,
  from one inductive invariant, `Inv`. Neither property is inductive: a burial could be
  stored twice if two threads served it. `PostsOnce` rules that out (before it posts nothing
  of it is served or stored, one thread serves it at most, and until that thread inserts
  nothing of it is stored), and `TriesInOrder` says that what a thread tried is a
  prefix of the channels. Four lemmas stand for the kinds of steps: a burial moves on
  (`MoveInv`), a sender is connected (`ConnectInv`) or gives up (`AbandonInv`), threads end
  (`CloseInv`). `FetchLists` says what a GET returns.
* `LatestIsTold == Spec => []LatestTellsStatus`, from `Latest`: of a name no notification of which
  was given up, one notification at a time is served and waited for, and the record it
  inserts is the last; without one, the last record tells what Alertmanager got an answer
  for (`Tells`). `InsertLatest`, `ReplyLatest` and `CrashLatest` are the steps that matter.

`ToolCalls_proofs` proves, for any calls, setters, modes, limits and bounds, from the
five named assumptions of `ToolCalls`:

* `NothingOutlives == Spec => []NothingLeftRunning` and
  `Accounted == Spec => []AnswersAccounted`, from `CallInv`: what each stage of a call has
  left running (`ToolsBelong`) and observed (`Observed`), and, for `Accounted`, from `Billed`: the
  charges a success has had and has yet to record are its mode's bill. Only a child gets
  stuck, and only a store that raises, of the charges of a sandboxed call, turns an
  observed success into a failure.
* `UsageIsKept == Spec => []UsageKept`, from `QuotaInv`. Besides what the property says it
  needs `NeverMore`, as a stale read is written back, and `OneReader`: until two
  overlap there is one reader at most, and what it read still holds (in Redis only
  the CPU time, since a limit may be set meanwhile). `WriteKept` is the argument for all
  writes; `ChargedFields`, `SetInFields` and `MergedFields` say what is written.
* `ToolsTyped == Spec => []ToolsTypeOK` puts the types of both together (`Reading`: a
  call reads a quota only while it records, a setter only while it sets).
* `OvershootOfRuns == Spec => []QuotaBoundsRuns`, from `Overshoot`: the runs counted never
  exceed what was recorded, which in memory and Redis is what the check reads (`UsageIsKept`),
  so a run is admitted only while fewer than `Limit` are counted, and then there are
  fewer than `MaxInFlight` others.

`LLMCalls_proofs` proves, for any finite set of calls, any routers and preferences, from the
four named assumptions of `LLMCalls`:

* `EveryProviderIsAsked == Spec => []RaisesOnlyAfterAll` and
  `RouteIsAskedFirst == Spec => []RouteIsFirstTried`, from `Routes`: what a call asked are places
  of its chain up to where it has come, each once, and no usable one is left out.
  `ChainIs` and its likes give the chains name by name: every provider is in each of them,
  and the first usable one is the route.

* `Accounting == Spec => []AttemptsAccounted`. The property speaks of the two ends of a call;
  `Books` says for every stage what is recorded of every provider by then (`Account`), which is
  inductive together with `Routes`: no provider is asked twice, so what a new attempt
  finds recorded of its provider is nothing (`AskBooks`). `MetricAdds` and `StageRecords` say
  what each line adds, `OneBook` that a step of a call leaves the others' accounts alone,
  `NothingRecorded` and `SomethingRecorded` are the two kinds of steps.
* `UsageIsComplete == Spec => []UsageComplete`, from `Usage`: while the calls of an execution do
  not overlap, one of them at a time is recorded, the entry it holds is the cached one
  (`Alone`), and the rows are numbered without a gap in a process that lives on (`Numbered`).
* `LLMTyped == Spec => []LLMTypeOK` puts the types of `Books`, `Routes` and `Usage` together.

`MemoryQueue_proofs` proves, for any tasks, threads, queue names and retry policy, from the
three named assumptions of `MemoryQueue`:

* `QueueTyped == Spec => []TypeOK`, from `Inv` and `Placed` (what is listed or in hand was
  published). The bound on delays needs facts about powers of two (`PowerFacts` and its
  likes), which are shown by a least counterexample, since the library's induction
  theorems take an operator as parameter and no installed prover can instantiate them.
* `DeadHaveCause == Spec => []DeadForCause` and `Implements == Spec => ImplementsJobQueue`,
  from one inductive invariant, `Inv`. `OnePlace` says that a task is listed once, or in one
  hand, or finished, or dead. `Counts` bounds what a queue task counts: a waiting one has as
  many attempts as starts at least, at most as many as starts and hand-backs, and fewer starts
  than `MaxAttempts`; a running one may have had its last. Without it neither a dead letter's
  attempts nor the guard of `JobQueue`'s `Start` would follow. `ClaimStep`, `HandBackStep`
  and `EndStep` are the three ways a task changes place. For the refinement, each action is
  shown to be one step of `JobQueue` (`PublishMaps` and its likes) or to leave every job alone
  (`Stutters`): the retry loop's claims, a fruitless claim and the clock.

Only model-checked: the liveness properties `Settles`, `Drains`, `RunsEnd`, `CallsAnswered`,
`FiringIsStored`, `BurialsEnd` and `ExecutionsSettle`, for the prover has no rules for
fairness here. Only proved: `OutcomesFinal` and `ToolsTypeOK`, which no run checks;
`SubmissionTypeOK` is checked as a part of `ExecutionsTypeOK`.

## Plan

1. Done: the modules above, with proofs of every invariant and action property the
   runs check.
2. Proofs: action properties of the stores that only grow.
3. `ReaperThread`: start and stop, at most one loop.
4. The stores of several processes over one database, with restarts of the API.

## Not modelled

The Celery backend is a stub whose claims raise. Authentication, tenancy
middleware and the CRUD of users, tenants, workspaces and workflows are
sequential reads and writes of single rows (the workspace limit is checked before
the workspace is created, as the execution quota is). Traces, logs and the metrics
exporter are write-only. The individual tools, the providers' HTTP, the prompts and
the contents of plans, research and outreach are data. Input keys that fill in for a
definition's missing graph, type or steps are left out. The frontend, the migrations
and the infrastructure hold no state of the orchestrator. The database session is
external; the stores are the in-memory ones, except where rows race (`ToolCalls`,
`LLMCalls`).
