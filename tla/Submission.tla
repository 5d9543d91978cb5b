----------------------------- MODULE Submission -----------------------------
(***************************************************************************)
(* POST /automations/{workflow_id}/run for one tenant: the quota check of    *)
(* quota_manager.py, then submit_execution of execution_manager.py, which    *)
(* looks the idempotency key up, stores the execution, creates its           *)
(* lifecycle, publishes its job, registers it in the shared state and        *)
(* meters it.  The handlers run in a thread pool: every access to shared     *)
(* data is one step, and the steps of the requests interleave.  The meter of *)
(* usage_meter.py has no lock: its += looks the tenant's dict up, reads the  *)
(* count and writes it in three steps, and makes a missing dict in between.  *)
(*                                                                         *)
(* A request that creates an execution gives it its own name: execution r    *)
(* is the one request r created.  The queue is the abstract JobQueue, with   *)
(* a workflow job and a tool job per execution.                              *)
(***************************************************************************)
EXTENDS Integers, FiniteSets

CONSTANTS
    Requests,       \* the requests that may arrive
    Keys,           \* the idempotency keys
    None,           \* no key, no execution
    Key,            \* the key each request carries, or None
    Known,          \* the requests that name a workflow of the tenant
    Limit,          \* EXECUTION_LIMITS of the tenant's plan
    MaxInFlight,    \* bound on the requests in progress at once
    MaxAttempts     \* RetryPolicy.max_attempts

ASSUME KeyIsKey == Key \in [Requests -> Keys \cup {None}]
ASSUME NoneIsNeither == None \notin Keys \cup Requests
ASSUME RequestsAreFinite == IsFiniteSet(Requests)
ASSUME LimitsArePositive == {Limit, MaxInFlight, MaxAttempts} \subseteq Nat \ {0}

VARIABLES
    step,           \* the next step of each request
    reply,          \* the execution each request was answered with
    keyOf,          \* _execution_by_idempotency_key
    status,         \* the stored executions: their status, or "absent"
    lifecycle,      \* the lifecycles: which of their times are reached
    shared,         \* the status of the shared-state records
    dict,           \* _USAGE[tenant]: the request whose look-up made it, or None
    counts,         \* "executions" in the dict that each request made
    meter,          \* the dict and the count each request has read: [dict, seen]
    overlapped,     \* history: the requests that metered while another one did
    job, runs,      \* the queue
    earlier         \* history: the requests that had ended when each one began

usage == <<dict, counts, meter, overlapped>>
api == <<step, reply, keyOf, usage, earlier>>
queue == <<job, runs>>
vars == <<api, status, lifecycle, shared, queue>>

Flow(r) == <<r, "flow">>
Tool(r) == <<r, "tool">>
Queue == INSTANCE JobQueue WITH Tasks <- Requests \X {"flow", "tool"}

Steps == {"new", "lookup", "create", "lifecycle", "publish", "register",
          "meter", "factory", "count", "store", "ended"}
InFlight == {r \in Requests : step[r] \notin {"new", "ended"}}
Created == {r \in Requests : status[r] # "absent"}
Metering == {r \in Requests : step[r] \in {"factory", "count", "store"}}

\* The count a quota check reads.
Used == IF dict = None THEN 0 ELSE counts[dict]

Unread == [dict |-> None, seen |-> 0]

Init ==
    /\ step = [r \in Requests |-> "new"]
    /\ reply = [r \in Requests |-> None]
    /\ keyOf = [k \in Keys |-> None]
    /\ status = [r \in Requests |-> "absent"]
    /\ lifecycle = [r \in Requests |-> "none"]
    /\ shared = [r \in Requests |-> "absent"]
    /\ dict = None
    /\ counts = [r \in Requests |-> 0]
    /\ meter = [r \in Requests |-> Unread]
    /\ overlapped = {}
    /\ Queue!Init
    /\ earlier = [r \in Requests |-> {}]

Goto(r, s) == step' = [step EXCEPT ![r] = s]
Answer(r, e) == Goto(r, "ended") /\ reply' = [reply EXCEPT ![r] = e]

----------------------------------------------------------------------------

\* Mutant of CheckQuota: the limit itself still passes.
CheckQuotaLate(r) ==
    /\ step[r] = "new"
    /\ Cardinality(InFlight) < MaxInFlight
    /\ earlier' = [earlier EXCEPT ![r] = {q \in Requests : step[q] = "ended"}]
    /\ Goto(r, IF Used > Limit THEN "ended"
               ELSE IF Key[r] = None THEN "create" ELSE "lookup")
    /\ UNCHANGED <<reply, keyOf, usage, status, lifecycle, shared, queue>>

\* ensure_execution_quota, a dependency of the route: 429 at the limit.
CheckQuota(r) ==
    /\ step[r] = "new"
    /\ Cardinality(InFlight) < MaxInFlight
    /\ earlier' = [earlier EXCEPT ![r] = {q \in Requests : step[q] = "ended"}]
    /\ Goto(r, IF Used >= Limit THEN "ended"
               ELSE IF Key[r] = None THEN "create" ELSE "lookup")
    /\ UNCHANGED <<reply, keyOf, usage, status, lifecycle, shared, queue>>

\* A key seen before is answered with its execution.
Lookup(r) ==
    /\ step[r] = "lookup"
    /\ LET e == keyOf[Key[r]]
       IN IF e # None /\ e \in Created
          THEN Answer(r, e)
          ELSE Goto(r, "create") /\ UNCHANGED reply
    /\ UNCHANGED <<keyOf, usage, earlier, status, lifecycle, shared, queue>>

\* LookupError: no such workflow.
Reject(r) ==
    /\ step[r] = "create" /\ r \notin Known
    /\ Goto(r, "ended")
    /\ UNCHANGED <<reply, keyOf, usage, earlier, status, lifecycle, shared, queue>>

\* Mutant of Create: the job is published before the lifecycle exists.
CreateSkipsLifecycle(r) ==
    /\ step[r] = "create" /\ r \in Known
    /\ status' = [status EXCEPT ![r] = "queued"]
    /\ Goto(r, "publish")
    /\ UNCHANGED <<reply, keyOf, usage, earlier, lifecycle, shared, queue>>

Create(r) ==
    /\ step[r] = "create" /\ r \in Known
    /\ status' = [status EXCEPT ![r] = "queued"]
    /\ Goto(r, "lifecycle")
    /\ UNCHANGED <<reply, keyOf, usage, earlier, lifecycle, shared, queue>>

\* Mutant of CreateLifecycle: the map of the keys is not written.
CreateLifecycleWithoutKey(r) ==
    /\ step[r] = "lifecycle"
    /\ lifecycle' = [lifecycle EXCEPT ![r] = "queued"]
    /\ Goto(r, "publish")
    /\ UNCHANGED <<reply, keyOf, usage, earlier, status, shared, queue>>

\* create_lifecycle sets both maps under its lock.
CreateLifecycle(r) ==
    /\ step[r] = "lifecycle"
    /\ lifecycle' = [lifecycle EXCEPT ![r] = "queued"]
    /\ keyOf' = IF Key[r] = None THEN keyOf ELSE [keyOf EXCEPT ![Key[r]] = r]
    /\ Goto(r, "publish")
    /\ UNCHANGED <<reply, usage, earlier, status, shared, queue>>

\* schedule_execution
Publish(r) ==
    /\ step[r] = "publish"
    /\ Queue!Submit(Flow(r))
    /\ Goto(r, "register")
    /\ UNCHANGED <<reply, keyOf, usage, earlier, status, lifecycle, shared>>

\* queue_execution: a new record replaces whatever is there.
Register(r) ==
    /\ step[r] = "register"
    /\ shared' = [shared EXCEPT ![r] = "queued"]
    /\ Goto(r, "meter")
    /\ UNCHANGED <<reply, keyOf, usage, earlier, status, lifecycle, queue>>

\* record_usage: _USAGE[tenant], whose missing dict is made by a function.
FindDict(r) ==
    /\ step[r] = "meter"
    /\ meter' = [meter EXCEPT ![r].dict = dict]
    /\ Goto(r, IF dict = None THEN "factory" ELSE "count")
    /\ overlapped' = IF Metering = {} THEN overlapped ELSE overlapped \cup Metering \cup {r}
    /\ UNCHANGED <<dict, counts, reply, keyOf, earlier, status, lifecycle, shared, queue>>

\* A second new dict replaces the first, with what was counted in it.
MakeDict(r) ==
    /\ step[r] = "factory"
    /\ dict' = r
    /\ meter' = [meter EXCEPT ![r].dict = r]
    /\ Goto(r, "count")
    /\ UNCHANGED <<counts, overlapped, reply, keyOf, earlier, status, lifecycle, shared, queue>>

ReadCount(r) ==
    /\ step[r] = "count"
    /\ meter' = [meter EXCEPT ![r].seen = counts[meter[r].dict]]
    /\ Goto(r, "store")
    /\ UNCHANGED <<dict, counts, overlapped, reply, keyOf, earlier, status, lifecycle, shared, queue>>

\* The count that was read, plus one; and the answer.
WriteCount(r) ==
    /\ step[r] = "store"
    /\ counts' = [counts EXCEPT ![meter[r].dict] = meter[r].seen + 1]
    /\ meter' = [meter EXCEPT ![r] = Unread]
    /\ Answer(r, r)
    /\ UNCHANGED <<dict, overlapped, keyOf, earlier, status, lifecycle, shared, queue>>

Submit(r) ==
    \/ Lookup(r) \/ Reject(r) \/ Create(r) \/ CreateLifecycle(r)
    \/ Publish(r) \/ Register(r)
    \/ FindDict(r) \/ MakeDict(r) \/ ReadCount(r) \/ WriteCount(r)

ApiNext == \E r \in Requests : CheckQuota(r) \/ Submit(r)

\* The requests alone: no worker takes the jobs.
Spec == Init /\ [][ApiNext]_vars

----------------------------------------------------------------------------
(* Properties *)

\* Types, and what a request has written at each of its steps.
SubmissionTypeOK ==
    /\ step \in [Requests -> Steps]
    /\ reply \in [Requests -> Requests \cup {None}]
    /\ keyOf \in [Keys -> Requests \cup {None}]
    /\ DOMAIN status = Requests
    /\ lifecycle \in [Requests -> {"none", "queued", "running", "over"}]
    /\ DOMAIN shared = Requests
    /\ dict \in Requests \cup {None}
    /\ counts \in [Requests -> Nat]
    /\ meter \in [Requests -> [dict : Requests \cup {None}, seen : Nat]]
    /\ overlapped \subseteq Requests
    /\ earlier \in [Requests -> SUBSET Requests]
    /\ \A r \in Requests :
        /\ r \in Created <=>
                reply[r] = r \/ step[r] \in Steps \ {"new", "lookup", "create", "ended"}
        /\ step[r] \in {"count", "store"} => meter[r].dict # None
        /\ lifecycle[r] # "none" <=> r \in Created /\ step[r] # "lifecycle"
        /\ job[Flow(r)] = "absent" <=> r \notin Created \/ step[r] \in {"lifecycle", "publish"}

\* The usage counts no execution twice, and misses only some of those whose
\* requests metered while another one did.  Apart from them the quota is
\* overshot by the requests in flight and by no more, because the check reads a
\* usage that each of those has yet to raise.
QuotaOvershootBounded ==
    LET ended == {r \in Created : step[r] = "ended"} IN
    /\ Cardinality(ended \ overlapped) <= Used /\ Used <= Cardinality(ended)
    /\ Cardinality(Created \ overlapped) <= Limit - 1 + MaxInFlight

\* Idempotency between requests that do not overlap: two executions with one
\* key were created only by requests that were in flight at once.
SequentialRetriesReplay ==
    \A q, r \in Created :
        q # r /\ Key[q] = Key[r] /\ Key[r] # None => q \notin earlier[r]

\* An answer names an execution of the same key that is stored and has a
\* lifecycle and a job, so that the client can poll it and a worker will run it.
\* (A replay may come before the first request has published its job.)
AnswersExist ==
    \A r \in Requests : reply[r] # None =>
        /\ reply[r] \in Created /\ lifecycle[reply[r]] # "none"
        /\ Key[reply[r]] = Key[r]
        /\ job[Flow(reply[r])] = "absent" => reply[r] \in InFlight
=============================================================================
