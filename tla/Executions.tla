----------------------------- MODULE Executions -----------------------------
(***************************************************************************)
(* An execution from its submission to its outcome, in the process that      *)
(* holds the in-memory stores: the requests of Submission, the workflow and  *)
(* tool workers (workflow_worker.py, tool_worker.py), which run the jobs and *)
(* write the outcome to the shared state and to the stored execution, and    *)
(* the pollers, the GET handlers of api/v1/executions.py, each of which      *)
(* calls refresh_execution of execution_manager.py, which rewrites the       *)
(* stored execution from the times of its lifecycle.                         *)
(*                                                                         *)
(* The store hands every caller the same object, so an assignment to one of  *)
(* its attributes is a step that all see at once.                            *)
(***************************************************************************)
EXTENDS Submission, Sequences

CONSTANTS
    Workers,        \* the threads that run workflow and tool jobs
    Pollers,        \* the threads that answer GET requests
    WithTool,       \* the executions whose input may have a tool_request
    MaxPolls        \* bound on the GET requests that change something

ASSUME ToolRequests == WithTool \subseteq Requests
ASSUME PollsAreNatural == MaxPolls \in Nat
ASSUME NoneIsNoJob == None \notin Requests \X {"flow", "tool"}

VARIABLES
    output,         \* output_payload_json: whose output an execution stores
    history,        \* the history of the lifecycles, after "queued"
    at,             \* the next step of each worker
    task,           \* the job a worker runs
    result,         \* the status a worker is to write
    poll,           \* what each poller decided, and its next step
    polls,          \* how many GET requests changed something
    outcome         \* history: the status the last run of a job returned

running == <<at, task, result, outcome>>
polling == <<poll, polls>>
allVars == <<vars, output, history, running, polling>>

Terminal == {"completed", "paused", "failed"}
Idle == [step |-> "idle", of |-> None, to |-> "none"]

InitAll ==
    /\ Init
    /\ output = [r \in Requests |-> "none"]
    /\ history = [r \in Requests |-> <<>>]
    /\ at = [w \in Workers |-> "idle"]
    /\ task = [w \in Workers |-> None]
    /\ result = [w \in Workers |-> "none"]
    /\ poll = [p \in Pollers |-> Idle]
    /\ polls = 0
    /\ outcome = [r \in Requests |-> "none"]

\* The execution of a worker's job.
Of(w) == task[w][1]
Move(w, s) == at' = [at EXCEPT ![w] = s]
Drop(w) == Move(w, "idle") /\ task' = [task EXCEPT ![w] = None]

\* SharedState.transition does nothing for an execution without a record.
Transition(r, s) ==
    shared' = IF shared[r] = "absent" THEN shared ELSE [shared EXCEPT ![r] = s]

----------------------------------------------------------------------------
(* The workers *)

Claim(w) ==
    /\ at[w] = "idle"
    /\ \E j \in Requests \X {"flow", "tool"} :
        /\ Queue!Start(j)
        /\ task' = [task EXCEPT ![w] = j]
    /\ Move(w, "mark")
    /\ UNCHANGED <<api, status, lifecycle, shared, output, history, result, outcome, polling>>

MarkRunning(w) ==
    /\ at[w] = "mark"
    /\ Transition(Of(w), "running")
    /\ Move(w, "persist")
    /\ UNCHANGED <<api, status, lifecycle, queue, output, history, task, result, outcome, polling>>

PersistRunning(w) ==
    /\ at[w] = "persist"
    /\ status' = [status EXCEPT ![Of(w)] = "running"]
    /\ Move(w, "run")
    /\ UNCHANGED <<api, lifecycle, shared, queue, output, history, task, result, outcome, polling>>

\* build_execution_plan returns; if the input asks for a tool, its job is
\* published whatever the status of the graph.
RunFlow(w) ==
    /\ at[w] = "run" /\ task[w] = Flow(Of(w))
    /\ \E s \in Terminal :
        /\ result' = [result EXCEPT ![w] = s]
        /\ outcome' = [outcome EXCEPT ![Of(w)] = s]
    /\ \/ UNCHANGED queue
       \/ Of(w) \in WithTool /\ Queue!Submit(Tool(Of(w)))
    /\ Move(w, "settle")
    /\ UNCHANGED <<api, status, lifecycle, shared, output, history, task, polling>>

\* A failing tool leaves its input as the result: the job always completes.
RunTool(w) ==
    /\ at[w] = "run" /\ task[w] = Tool(Of(w))
    /\ result' = [result EXCEPT ![w] = "completed"]
    /\ Move(w, "settle")
    /\ UNCHANGED <<api, status, lifecycle, shared, queue, output, history, task, outcome, polling>>

\* Mutant of WriteStatus: the status of the graph is not looked at.
WriteCompleted(w) ==
    /\ at[w] = "status"
    /\ status' = [status EXCEPT ![Of(w)] = "completed"]
    /\ Move(w, "output")
    /\ UNCHANGED <<api, lifecycle, shared, queue, output, history, task, result, outcome, polling>>

\* Mutant of SettleShared: a paused run is marked running and nothing else.
SettlePausedRuns(w) ==
    /\ at[w] = "settle"
    /\ Transition(Of(w), IF result[w] = "paused" THEN "running" ELSE result[w])
    /\ Move(w, "status")
    /\ UNCHANGED <<api, status, lifecycle, queue, output, history, task, result, outcome, polling>>

\* mark_running, mark_failed or mark_completed, and the same transition.
SettleShared(w) ==
    /\ at[w] = "settle"
    /\ Transition(Of(w), result[w])
    /\ Move(w, "status")
    /\ UNCHANGED <<api, status, lifecycle, queue, output, history, task, result, outcome, polling>>

WriteStatus(w) ==
    /\ at[w] = "status"
    /\ status' = [status EXCEPT ![Of(w)] = result[w]]
    /\ Move(w, "output")
    /\ UNCHANGED <<api, lifecycle, shared, queue, output, history, task, result, outcome, polling>>

\* Mutant of WriteOutput: the worker goes on without telling the queue.
WriteOutputUnacked(w) ==
    /\ at[w] = "output"
    /\ output' = [output EXCEPT ![Of(w)] = task[w][2]]
    /\ Drop(w)
    /\ UNCHANGED <<api, status, lifecycle, shared, queue, history, result, outcome, polling>>

\* The output, and the ack, which the in-memory queue does not have.
WriteOutput(w) ==
    /\ at[w] = "output"
    /\ output' = [output EXCEPT ![Of(w)] = task[w][2]]
    /\ Queue!Finish(task[w])
    /\ Drop(w)
    /\ UNCHANGED <<api, status, lifecycle, shared, history, result, outcome, polling>>

\* Mutant of RunRaises: the worker tries again at once.
RunAgain(w) ==
    /\ at[w] = "run" /\ task[w] = Flow(Of(w))
    /\ Move(w, "mark")
    /\ UNCHANGED <<api, status, lifecycle, shared, queue, output, history, task,
                   result, outcome, polling>>

\* The run raises: the job goes back or to the dead letters first, and the
\* shared state follows.  The stored execution keeps its status.
RunRaises(w) ==
    /\ at[w] = "run" /\ task[w] = Flow(Of(w))
    /\ \/ Queue!GiveBack(task[w]) /\ Move(w, "retrying")
       \/ Queue!Bury(task[w]) /\ Move(w, "dead_letter")
    /\ UNCHANGED <<api, status, lifecycle, shared, output, history, task, result,
                   outcome, polling>>

MarkRaised(w) ==
    /\ at[w] \in {"retrying", "dead_letter"}
    /\ Transition(Of(w), at[w])
    /\ Drop(w)
    /\ UNCHANGED <<api, status, lifecycle, queue, output, history, result, outcome, polling>>

WorkerNext(w) ==
    \/ Claim(w) \/ MarkRunning(w) \/ PersistRunning(w)
    \/ RunFlow(w) \/ RunTool(w) \/ RunRaises(w)
    \/ SettleShared(w) \/ WriteStatus(w) \/ WriteOutput(w) \/ MarkRaised(w)

----------------------------------------------------------------------------
(* refresh_execution *)

\* running_at (75 ms after create_lifecycle) and completed_at (175 ms) pass.
Elapse(r) ==
    /\ lifecycle[r] \in {"queued", "running"}
    /\ lifecycle' = [lifecycle EXCEPT ![r] = IF @ = "queued" THEN "running" ELSE "over"]
    /\ UNCHANGED <<api, status, shared, queue, output, history, running, polling>>

\* The status a refresh would give an execution now.
Due(r) ==
    IF lifecycle[r] = "over" /\ status[r] # "completed" THEN "completed"
    ELSE IF lifecycle[r] \in {"running", "over"} /\ status[r] = "queued" THEN "running"
    ELSE "none"

\* The comparisons; a refresh that changes nothing is no step.
Decide(p) ==
    /\ poll[p] = Idle
    /\ polls < MaxPolls
    /\ \E r \in Requests :
        /\ Due(r) # "none"
        /\ poll' = [poll EXCEPT ![p] = [step |-> "status", of |-> r, to |-> Due(r)]]
    /\ polls' = polls + 1
    /\ UNCHANGED <<vars, output, history, running>>

Onward(p, s) == poll' = [poll EXCEPT ![p].step = s]

\* Mutant of RefreshStatus: the history is appended before the output is stored.
RefreshHistoryFirst(p) ==
    /\ poll[p].step = "status"
    /\ status' = [status EXCEPT ![poll[p].of] = poll[p].to]
    /\ Onward(p, "history")
    /\ UNCHANGED <<api, lifecycle, shared, queue, output, history, running, polls>>

RefreshStatus(p) ==
    /\ poll[p].step = "status"
    /\ status' = [status EXCEPT ![poll[p].of] = poll[p].to]
    /\ Onward(p, IF poll[p].to = "completed" THEN "output" ELSE "history")
    /\ UNCHANGED <<api, lifecycle, shared, queue, output, history, running, polls>>

\* The output is the one create_lifecycle made of the input.
RefreshOutput(p) ==
    /\ poll[p].step = "output"
    /\ output' = [output EXCEPT ![poll[p].of] = "canned"]
    /\ Onward(p, "history")
    /\ UNCHANGED <<vars, history, running, polls>>

RefreshHistory(p) ==
    /\ poll[p].step = "history"
    /\ history' = [history EXCEPT ![poll[p].of] = Append(@, poll[p].to)]
    /\ poll' = [poll EXCEPT ![p] = Idle]
    /\ UNCHANGED <<vars, output, running, polls>>

Refresh(p) == Decide(p) \/ RefreshStatus(p) \/ RefreshOutput(p) \/ RefreshHistory(p)

----------------------------------------------------------------------------

Api(r) ==
    /\ CheckQuota(r) \/ Submit(r)
    /\ UNCHANGED <<output, history, running, polling>>

NextAll ==
    \/ \E r \in Requests : Api(r) \/ Elapse(r)
    \/ \E w \in Workers : WorkerNext(w)
    \/ \E p \in Pollers : Refresh(p)

SpecAll == InitAll /\ [][NextAll]_allVars

\* A request that began goes on, and the workers poll for ever.  No client has
\* to submit anything or to poll.
LiveSpecAll ==
    /\ SpecAll
    /\ \A r \in Requests : WF_allVars(Submit(r) /\ UNCHANGED <<output, history, running, polling>>)
    /\ \A w \in Workers : WF_allVars(WorkerNext(w))

----------------------------------------------------------------------------
(* Properties *)

\* Types, and the jobs in hand are the running jobs, in one hand each.
ExecutionsTypeOK ==
    /\ SubmissionTypeOK
    /\ status \in [Requests -> {"absent", "queued", "running"} \cup Terminal]
    /\ output \in [Requests -> {"none", "flow", "tool", "canned"}]
    /\ \A w \in Workers : at[w] = "idle" <=> task[w] = None
    /\ \A j \in Requests \X {"flow", "tool"} :
            job[j] = "running" <=>
                \E w \in Workers : task[w] = j /\ at[w] \notin {"retrying", "dead_letter"}
    /\ \A v, w \in Workers :
            v # w /\ task[v] = task[w] /\ task[v] # None =>
                "retrying" \in {at[v], at[w]}

\* A client that reads a status a run can end with finds an output, unless the
\* thread that wrote the status has still to write the output; and a history
\* that tells the completion comes with an output in any case.
EndedHasOutput ==
    \A r \in Requests :
        /\ (\E i \in DOMAIN history[r] : history[r][i] = "completed") => output[r] # "none"
        /\ status[r] \in Terminal /\ output[r] = "none" =>
            \/ \E w \in Workers : task[w] # None /\ Of(w) = r /\ at[w] = "output"
            \/ \E p \in Pollers : poll[p].of = r /\ poll[p].step = "output"

\* Until a poll rewrites it, a stored execution tells the outcome of its run
\* once its jobs are done; a tool job may turn it into completed.
StatusTellsOutcome ==
    polls = 0 =>
        \A r \in Requests : job[Flow(r)] = "finished" =>
            CASE job[Tool(r)] = "absent" -> status[r] = outcome[r]
              [] job[Tool(r)] = "finished" -> status[r] \in {outcome[r], "completed"}
              [] OTHER -> TRUE

\* A shared record that was there when its jobs were run tells how they ended.
\* It is made after the job is published, so it may come too late and stay
\* "queued"; and the worker that gave a job back may write "retrying" after
\* another one has run the job to its end.  No record stays "running".
RecordTells ==
    \A r \in Requests :
        /\ job[Flow(r)] = "finished" /\ job[Tool(r)] \in {"absent", "finished"} =>
            \/ shared[r] \in {"absent", "queued", outcome[r]}
            \/ shared[r] = "completed" /\ job[Tool(r)] = "finished"
            \/ shared[r] = "retrying" /\ runs[Flow(r)] > 1
        /\ job[Flow(r)] = "dead" =>
            \/ shared[r] \in {"absent", "queued", "dead_letter"}
            \/ shared[r] = "retrying" /\ runs[Flow(r)] > 1
            \/ \E w \in Workers : task[w] = Flow(r) /\ at[w] = "dead_letter"

\* Every execution a request created is in the end run to an outcome or
\* dead-lettered, however often it raised and whoever polls it.
ExecutionsSettle ==
    \A r \in Requests :
        status[r] # "absent" ~> job[Flow(r)] \in {"finished", "dead"}
=============================================================================
