-------------------------- MODULE Executions_proofs --------------------------
(***************************************************************************)
(* Proofs about Executions, for any requests, workers, pollers and bounds:   *)
(* who holds which job, that a client that reads an outcome finds an output, *)
(* that what is stored tells how the run ended, and what the shared record   *)
(* tells of it.                                                              *)
(***************************************************************************)
EXTENDS Executions, Submission_proofs

Jobs == Requests \X {"flow", "tool"}

\* A worker whose job the queue counts as running.
Active(w) == at[w] \in {"mark", "persist", "run", "settle", "status", "output"}

Polled == [step : {"idle", "status", "output", "history"}, of : Requests \cup {None},
           to : {"none", "running", "completed"}]

RunTypes ==
    /\ at \in [Workers -> {"idle", "mark", "persist", "run", "settle", "status", "output",
                           "retrying", "dead_letter"}]
    /\ task \in [Workers -> Jobs \cup {None}]
    /\ result \in [Workers -> Terminal \cup {"none"}]
    /\ outcome \in [Requests -> Terminal \cup {"none"}]
    /\ output \in [Requests -> {"none", "flow", "tool", "canned"}]
    /\ poll \in [Pollers -> Polled]
    /\ polls \in Nat

\* The jobs in hand: a running job is in one hand; a worker that has handed its
\* job back still holds it until it has told the shared state.
Hands ==
    /\ \A w \in Workers :
        /\ at[w] = "idle" <=> task[w] = None
        /\ Active(w) => job[task[w]] = "running"
        /\ at[w] = "retrying" => job[task[w]] # "absent"
        /\ at[w] = "dead_letter" => job[task[w]] = "dead"
        /\ at[w] \in {"settle", "status"} => result[w] \in Terminal
    /\ \A j \in Jobs : job[j] = "running" => \E w \in Workers : task[w] = j /\ Active(w)
    /\ \A v, w \in Workers : Active(v) /\ Active(w) /\ task[v] = task[w] => v = w
    /\ \A v, w \in Workers :
            v # w /\ task[v] = task[w] /\ task[v] # None => "retrying" \in {at[v], at[w]}
    /\ \A r \in Requests : job[Tool(r)] # "absent" => r \in Created

\* A poller at work refreshes a stored execution.
Polls ==
    \A p \in Pollers :
        /\ poll[p].step = "idle" => poll[p] = Idle
        /\ poll[p].step # "idle" =>
            polls > 0 /\ poll[p].of \in Created /\ poll[p].to \in {"running", "completed"}

Base == Typed /\ RunTypes /\ Hands /\ Polls

----------------------------------------------------------------------------
(* Jobs and hands *)

\* The jobs of an execution.
LEMMA JobsOfRequests ==
    /\ \A r \in Requests : Flow(r) \in Jobs /\ Tool(r) \in Jobs
    /\ \A q, r \in Requests : Flow(q) # Tool(r)
    /\ \A q, r \in Requests : (Flow(q) = Flow(r) => q = r) /\ (Tool(q) = Tool(r) => q = r)
    /\ \A j \in Jobs : /\ j[1] \in Requests /\ j[2] \in {"flow", "tool"}
                       /\ j = Flow(j[1]) \/ j = Tool(j[1])
    /\ \A r \in Requests : Flow(r)[1] = r /\ Tool(r)[1] = r
    /\ None \notin Jobs
BY NoneIsNoJob DEF Jobs, Flow, Tool

\* What a worker that is not idle holds.
LEMMA HandOf ==
    ASSUME Typed, RunTypes, Hands, NEW w \in Workers, at[w] # "idle"
    PROVE  /\ task[w] \in Jobs /\ task[w] # None /\ Of(w) \in Requests /\ Of(w) \in Created
           /\ task[w] = Flow(Of(w)) \/ task[w] = Tool(Of(w))
           /\ task[w][2] \in {"flow", "tool"}
           /\ job[task[w]] # "absent" /\ status[Of(w)] # "absent"
<1>1. task[w] \in Jobs /\ task[w] # None
    BY DEF RunTypes, Hands
<1>2. at[w] \in {"mark", "persist", "run", "settle", "status", "output", "retrying", "dead_letter"}
    BY DEF RunTypes
<1>3. job[task[w]] # "absent"
    BY <1>2 DEF Hands, Active
<1>4. /\ Of(w) \in Requests
      /\ task[w] = Flow(Of(w)) \/ task[w] = Tool(Of(w))
      /\ task[w][2] \in {"flow", "tool"}
    BY <1>1, JobsOfRequests DEF Of
<1>5. Of(w) \in Created
    <2>1. CASE task[w] = Flow(Of(w))
        <3>1. job[Flow(Of(w))] # "absent"
            BY <1>3, <2>1
        <3>2. QED BY <1>4, <3>1 DEF Typed, SubmissionTypeOK
    <2>2. CASE task[w] = Tool(Of(w))
        BY <1>3, <1>4, <2>2 DEF Hands
    <2>3. QED BY <1>4, <2>1, <2>2
<1>6. QED BY <1>1, <1>3, <1>4, <1>5 DEF Created

\* At first nobody holds a job.
LEMMA InitBase == InitAll => Base
<1>1. SUFFICES ASSUME InitAll PROVE Base
    OBVIOUS
<1>2. Typed
    BY <1>1, InitTyped DEF InitAll
<1>3. /\ at = [w \in Workers |-> "idle"] /\ task = [w \in Workers |-> None]
      /\ poll = [p \in Pollers |-> Idle] /\ polls = 0
      /\ result = [w \in Workers |-> "none"] /\ outcome = [r \in Requests |-> "none"]
      /\ output = [r \in Requests |-> "none"]
      /\ job = [j \in Jobs |-> "absent"]
    BY <1>1 DEF InitAll, Init, Queue!Init, Jobs
<1>4. Idle \in Polled /\ Idle.step = "idle"
    BY DEF Idle, Polled
<1>5. RunTypes
    BY <1>3, <1>4 DEF RunTypes
<1>6. Hands
    BY <1>3, JobsOfRequests DEF Hands, Active
<1>7. Polls
    BY <1>3, <1>4 DEF Polls
<1>8. QED BY <1>2, <1>5, <1>6, <1>7 DEF Base

\* A step of a worker or a poller leaves what the requests wrote in order.
LEMMA TypedKept ==
    ASSUME Typed, api' = api, status' \in [Requests -> {"absent", "queued", "running"} \cup Terminal],
           Created' = Created, DOMAIN shared' = Requests,
           lifecycle' \in [Requests -> {"none", "queued", "running", "over"}],
           \A r \in Requests : lifecycle'[r] = "none" <=> lifecycle[r] = "none",
           JobsOK', \A r \in Requests : job'[Flow(r)] = "absent" <=> job[Flow(r)] = "absent"
    PROVE  Typed'
<1>1. /\ UNCHANGED <<step, reply, keyOf, dict, counts, meter, overlapped, earlier>>
      /\ DOMAIN status' = Requests
      /\ status' \in [Requests -> {"absent", "queued", "running", "completed", "paused", "failed"}]
    BY DEF api, usage, Terminal
<1>2. SubmissionTypeOK'
    BY <1>1 DEF Typed, SubmissionTypeOK, Flow
<1>3. QED BY <1>1, <1>2 DEF Typed

\* A step that writes the status of executions that exist.
LEMMA StatusKept ==
    ASSUME Typed, NEW r \in Created, NEW s \in {"queued", "running"} \cup Terminal,
           status' = [status EXCEPT ![r] = s] \/ status' = status
    PROVE  /\ status' \in [Requests -> {"absent", "queued", "running"} \cup Terminal]
           /\ Created' = Created
<1>1. status \in [Requests -> {"absent", "queued", "running"} \cup Terminal]
    BY DEF Typed, Terminal
<1>2. r \in Requests /\ s # "absent" /\ status[r] # "absent"
    BY DEF Created, Terminal
<1>3. QED BY <1>1, <1>2 DEF Created

\* SharedState.transition writes one record.
LEMMA TransitionKept ==
    ASSUME Typed, NEW r \in Requests, NEW s, Transition(r, s)
    PROVE  DOMAIN shared' = Requests
BY DEF Typed, SubmissionTypeOK, Transition

\* A step of one worker: the others keep what they hold, requests and pollers
\* are not concerned.
LEMMA OneWorkerMoves ==
    ASSUME RunTypes, NEW w \in Workers, WorkerNext(w)
    PROVE  /\ UNCHANGED <<api, lifecycle, history, poll, polls>>
           /\ \A v \in Workers \ {w} :
                at'[v] = at[v] /\ task'[v] = task[v] /\ result'[v] = result[v]
<1>1. UNCHANGED <<api, lifecycle, history, poll, polls>>
    BY DEF WorkerNext, Claim, MarkRunning, PersistRunning, RunFlow, RunTool, RunRaises, SettleShared,
        WriteStatus, WriteOutput, MarkRaised, polling
<1>2. /\ at' = [at EXCEPT ![w] = at'[w]] /\ task' = [task EXCEPT ![w] = task'[w]]
      /\ result' = [result EXCEPT ![w] = result'[w]]
    BY DEF WorkerNext, Claim, MarkRunning, PersistRunning, RunFlow, RunTool, RunRaises, SettleShared,
        WriteStatus, WriteOutput, MarkRaised, Move, Drop, RunTypes
<1>3. QED BY <1>1, <1>2 DEF RunTypes

\* What the queue does to a job.
LEMMA QueueMoves ==
    ASSUME JobsOK, NEW j \in Jobs, NEW s \in {"waiting", "running", "finished", "dead"},
           job' = [job EXCEPT ![j] = s]
    PROVE  /\ JobsOK' /\ job'[j] = s
           /\ \A i \in Jobs \ {j} : job'[i] = job[i]
           /\ job[j] # "absent" =>
                \A r \in Requests : job'[Flow(r)] = "absent" <=> job[Flow(r)] = "absent"
           /\ \A r \in Requests : j = Tool(r) =>
                \A q \in Requests : job'[Flow(q)] = "absent" <=> job[Flow(q)] = "absent"
<1>1. JobsOK' /\ job'[j] = s /\ \A i \in Jobs \ {j} : job'[i] = job[i]
    BY DEF JobsOK, Jobs
<1>2. QED BY <1>1, JobsOfRequests

\* Every step keeps the types.
LEMMA StepTypes == Base /\ [NextAll]_allVars => Typed' /\ RunTypes'
<1>0. SUFFICES ASSUME Base, [NextAll]_allVars PROVE Typed' /\ RunTypes'
    OBVIOUS
<1>1. /\ Typed /\ RunTypes /\ Hands /\ Polls /\ JobsOK
      /\ DOMAIN shared = Requests
      /\ status \in [Requests -> {"absent", "queued", "running"} \cup Terminal]
      /\ lifecycle \in [Requests -> {"none", "queued", "running", "over"}]
    BY <1>0 DEF Base, Typed, SubmissionTypeOK, Terminal
<1>a. ASSUME UNCHANGED <<vars, output, running, polling>> PROVE Typed' /\ RunTypes'
    <2>1. Typed'
        BY <1>1, <1>a, StepTyped
    <2>2. RunTypes'
        BY <1>1, <1>a DEF RunTypes, running, polling
    <2>3. QED BY <2>1, <2>2
<1>b. ASSUME UNCHANGED <<api, status, lifecycle, shared, job>> PROVE Typed'
    BY <1>1, <1>b, TypedKept DEF Created, JobsOK
<1>2. CASE UNCHANGED allVars
    BY <1>a, <1>2 DEF allVars
<1>3. ASSUME NEW r \in Requests, Api(r) PROVE Typed' /\ RunTypes'
    <2>1. Typed'
        BY <1>1, <1>3, StepTyped DEF Api, ApiNext
    <2>2. RunTypes'
        BY <1>1, <1>3 DEF Api, RunTypes, running, polling
    <2>3. QED BY <2>1, <2>2
<1>4. ASSUME NEW r \in Requests, Elapse(r) PROVE Typed' /\ RunTypes'
    <2>1. /\ UNCHANGED <<api, status, shared, job>>
          /\ lifecycle[r] \in {"queued", "running"}
          /\ lifecycle' = [lifecycle EXCEPT ![r] = IF @ = "queued" THEN "running" ELSE "over"]
        BY <1>4 DEF Elapse, queue
    <2>2. /\ lifecycle' \in [Requests -> {"none", "queued", "running", "over"}]
          /\ \A q \in Requests : lifecycle'[q] = "none" <=> lifecycle[q] = "none"
        BY <1>1, <2>1
    <2>3. Typed'
        BY <1>1, <2>1, <2>2, TypedKept DEF Created, JobsOK
    <2>4. RunTypes'
        BY <1>1, <1>4 DEF Elapse, RunTypes, running, polling
    <2>5. QED BY <2>3, <2>4
<1>5. ASSUME NEW w \in Workers, Claim(w) PROVE Typed' /\ RunTypes'
    <2>1. PICK j \in Jobs : Queue!Start(j) /\ task' = [task EXCEPT ![w] = j]
        BY <1>5 DEF Claim, Jobs
    <2>2. job[j] = "waiting" /\ job' = [job EXCEPT ![j] = "running"]
        BY <2>1 DEF Queue!Start, Queue!Move
    <2>3. JobsOK' /\ \A r \in Requests : job'[Flow(r)] = "absent" <=> job[Flow(r)] = "absent"
        BY <1>1, <2>2, QueueMoves
    <2>4. /\ UNCHANGED <<api, status, lifecycle, shared, result, outcome, output, poll, polls>>
          /\ at' = [at EXCEPT ![w] = "mark"]
        BY <1>5 DEF Claim, Move, polling
    <2>5. Typed'
        BY <1>1, <2>3, <2>4, TypedKept DEF Created
    <2>6. RunTypes'
        BY <1>1, <2>1, <2>4 DEF RunTypes
    <2>7. QED BY <2>5, <2>6
<1>6. ASSUME NEW w \in Workers, MarkRunning(w) \/ SettleShared(w) \/ MarkRaised(w)
      PROVE  Typed' /\ RunTypes'
    <2>1. /\ UNCHANGED <<api, status, lifecycle, job, output, result, outcome, poll, polls>>
          /\ at[w] # "idle"
          /\ \E s : Transition(Of(w), s)
          /\ at' = [at EXCEPT ![w] = "persist"] \/ at' = [at EXCEPT ![w] = "status"]
                \/ at' = [at EXCEPT ![w] = "idle"]
          /\ task' = task \/ task' = [task EXCEPT ![w] = None]
        BY <1>6 DEF MarkRunning, SettleShared, MarkRaised, Move, Drop, queue, polling
    <2>2. Of(w) \in Requests
        BY <1>1, <2>1, HandOf
    <2>3. DOMAIN shared' = Requests
        BY <1>1, <2>1, <2>2, TransitionKept
    <2>4. Typed'
        BY <1>1, <2>1, <2>3, TypedKept DEF Created, JobsOK
    <2>5. RunTypes'
        BY <1>1, <2>1 DEF RunTypes
    <2>6. QED BY <2>4, <2>5
<1>7. ASSUME NEW w \in Workers, PersistRunning(w) \/ WriteStatus(w) PROVE Typed' /\ RunTypes'
    <2>1. /\ UNCHANGED <<api, shared, lifecycle, job, task, output, result, outcome, poll, polls>>
          /\ at[w] \in {"persist", "status"}
          /\ at' = [at EXCEPT ![w] = "run"] \/ at' = [at EXCEPT ![w] = "output"]
          /\ \/ status' = [status EXCEPT ![Of(w)] = "running"]
             \/ at[w] = "status" /\ status' = [status EXCEPT ![Of(w)] = result[w]]
        BY <1>7 DEF PersistRunning, WriteStatus, Move, queue, polling
    <2>2. Of(w) \in Created
        BY <1>1, <2>1, HandOf
    <2>3. at[w] = "status" => result[w] \in Terminal
        BY <1>1 DEF Hands
    <2>4. /\ status' \in [Requests -> {"absent", "queued", "running"} \cup Terminal]
          /\ Created' = Created
        BY <1>1, <2>1, <2>2, <2>3, StatusKept
    <2>5. Typed'
        BY <1>1, <2>1, <2>4, TypedKept DEF JobsOK
    <2>6. RunTypes'
        BY <1>1, <2>1 DEF RunTypes
    <2>7. QED BY <2>5, <2>6
<1>8. ASSUME NEW w \in Workers, RunFlow(w) PROVE Typed' /\ RunTypes'
    <2>1. /\ UNCHANGED <<api, status, lifecycle, shared, task, output, poll, polls>>
          /\ at[w] = "run" /\ at' = [at EXCEPT ![w] = "settle"]
          /\ \E s \in Terminal : /\ result' = [result EXCEPT ![w] = s]
                                 /\ outcome' = [outcome EXCEPT ![Of(w)] = s]
          /\ \/ job' = job
             \/ job[Tool(Of(w))] = "absent" /\ job' = [job EXCEPT ![Tool(Of(w))] = "waiting"]
        BY <1>8 DEF RunFlow, Move, queue, polling, Queue!Submit, Queue!Move
    <2>2. Of(w) \in Requests /\ Tool(Of(w)) \in Jobs
        BY <1>1, <2>1, HandOf, JobsOfRequests
    <2>3. JobsOK' /\ \A r \in Requests : job'[Flow(r)] = "absent" <=> job[Flow(r)] = "absent"
        BY <1>1, <2>1, <2>2, QueueMoves DEF JobsOK
    <2>4. Typed'
        BY <1>1, <2>1, <2>3, TypedKept DEF Created
    <2>5. RunTypes'
        BY <1>1, <2>1, <2>2 DEF RunTypes
    <2>6. QED BY <2>4, <2>5
<1>9. ASSUME NEW w \in Workers, RunTool(w) PROVE Typed' /\ RunTypes'
    <2>1. /\ UNCHANGED <<api, status, lifecycle, shared, job, task, output, outcome, poll, polls>>
          /\ at' = [at EXCEPT ![w] = "settle"] /\ result' = [result EXCEPT ![w] = "completed"]
        BY <1>9 DEF RunTool, Move, queue, polling
    <2>2. RunTypes'
        BY <1>1, <2>1 DEF RunTypes, Terminal
    <2>3. QED BY <1>b, <2>1, <2>2
<1>10. ASSUME NEW w \in Workers, RunRaises(w) \/ WriteOutput(w) PROVE Typed' /\ RunTypes'
    <2>1. /\ UNCHANGED <<api, status, lifecycle, shared, result, outcome, poll, polls>>
          /\ at[w] \in {"run", "output"}
          /\ \E s \in {"retrying", "dead_letter", "idle"} : at' = [at EXCEPT ![w] = s]
          /\ task' = task \/ task' = [task EXCEPT ![w] = None]
          /\ output' = output \/ output' = [output EXCEPT ![Of(w)] = task[w][2]]
          /\ \E s \in {"waiting", "dead", "finished"} : job' = [job EXCEPT ![task[w]] = s]
        BY <1>10 DEF RunRaises, WriteOutput, Move, Drop, polling, Queue!GiveBack, Queue!Bury,
            Queue!Finish, Queue!Move
    <2>2. /\ task[w] \in Jobs /\ Of(w) \in Requests /\ task[w][2] \in {"flow", "tool"}
          /\ job[task[w]] # "absent"
        BY <1>1, <2>1, HandOf
    <2>3. JobsOK' /\ \A r \in Requests : job'[Flow(r)] = "absent" <=> job[Flow(r)] = "absent"
        <3>1. PICK s \in {"waiting", "dead", "finished"} : job' = [job EXCEPT ![task[w]] = s]
            BY <2>1
        <3>2. s \in {"waiting", "running", "finished", "dead"}
            BY <3>1
        <3>3. QED BY <1>1, <2>2, <3>1, <3>2, QueueMoves
    <2>4. Typed'
        BY <1>1, <2>1, <2>3, TypedKept DEF Created
    <2>5. RunTypes'
        BY <1>1, <2>1, <2>2 DEF RunTypes
    <2>6. QED BY <2>4, <2>5
<1>11. ASSUME NEW p \in Pollers, Decide(p) PROVE Typed' /\ RunTypes'
    <2>1. PICK r \in Requests : Due(r) # "none"
            /\ poll' = [poll EXCEPT ![p] = [step |-> "status", of |-> r, to |-> Due(r)]]
        BY <1>11 DEF Decide
    <2>2. Due(r) \in {"running", "completed"}
        BY <2>1 DEF Due
    <2>3. [step |-> "status", of |-> r, to |-> Due(r)] \in Polled
        BY <2>2 DEF Polled
    <2>4. /\ UNCHANGED <<api, status, lifecycle, shared, job, at, task, result, output, outcome>>
          /\ polls' = polls + 1
        BY <1>11 DEF Decide, vars, queue, running
    <2>5. RunTypes'
        BY <1>1, <2>1, <2>3, <2>4 DEF RunTypes
    <2>6. QED BY <1>b, <2>4, <2>5
<1>12. ASSUME NEW p \in Pollers, RefreshStatus(p) \/ RefreshOutput(p) \/ RefreshHistory(p)
       PROVE  Typed' /\ RunTypes'
    <2>1. /\ UNCHANGED <<api, lifecycle, shared, job, at, task, result, outcome, polls>>
          /\ poll[p].step \in {"status", "output", "history"}
          /\ status' = status \/ status' = [status EXCEPT ![poll[p].of] = poll[p].to]
          /\ output' = output \/ output' = [output EXCEPT ![poll[p].of] = "canned"]
        BY <1>12 DEF RefreshStatus, RefreshOutput, RefreshHistory, vars, queue, running
    <2>2. poll[p] \in Polled /\ Idle \in Polled
        BY <1>1 DEF RunTypes, Idle, Polled
    <2>3. \/ \E s \in {"output", "history"} : poll' = [poll EXCEPT ![p].step = s]
          \/ poll' = [poll EXCEPT ![p] = Idle]
        BY <1>12 DEF RefreshStatus, RefreshOutput, RefreshHistory, Onward
    <2>4. poll' \in [Pollers -> Polled]
        <3>1. \A s \in {"output", "history"} : [poll[p] EXCEPT !.step = s] \in Polled
            BY <2>2 DEF Polled
        <3>2. \/ \E s \in {"output", "history"} : poll' = [poll EXCEPT ![p] = [poll[p] EXCEPT !.step = s]]
              \/ poll' = [poll EXCEPT ![p] = Idle]
            BY <2>3
        <3>3. QED BY <1>1, <2>2, <3>1, <3>2 DEF RunTypes
    <2>5. poll[p].of \in Created
        BY <1>1, <2>1 DEF Polls
    <2>6. poll[p].to \in {"running", "completed"}
        BY <1>1, <2>1 DEF Polls
    <2>7. /\ status' \in [Requests -> {"absent", "queued", "running"} \cup Terminal]
          /\ Created' = Created
        BY <1>1, <2>1, <2>5, <2>6, StatusKept DEF Terminal
    <2>8. Typed'
        BY <1>1, <2>1, <2>7, TypedKept DEF JobsOK
    <2>9. poll[p].of \in Requests
        BY <2>5 DEF Created
    <2>10. RunTypes'
        BY <1>1, <2>1, <2>4, <2>9 DEF RunTypes
    <2>11. QED BY <2>8, <2>10
<1>13. QED BY <1>0, <1>2, <1>3, <1>4, <1>5, <1>6, <1>7, <1>8, <1>9, <1>10, <1>11, <1>12
           DEF NextAll, WorkerNext, Refresh

\* Workers that go on with their jobs, and jobs that are submitted.
LEMMA HandsKept ==
    ASSUME Base, RunTypes', Created \subseteq Created',
           \A v \in Workers :
              /\ task'[v] = task[v]
              /\ \/ at'[v] = at[v] /\ result'[v] = result[v]
                 \/ /\ Active(v) /\ at'[v] \in {"persist", "run", "settle", "status", "output"}
                    /\ at'[v] \in {"settle", "status"} => result'[v] \in Terminal,
           \A j \in Jobs : \/ job'[j] = job[j]
                           \/ job[j] = "absent" /\ job'[j] = "waiting",
           \A r \in Requests : job'[Tool(r)] # job[Tool(r)] => r \in Created'
    PROVE  Hands'
<1>1. /\ Hands /\ RunTypes
      /\ \A v \in Workers : task[v] \in Jobs \cup {None}
      /\ \A r \in Requests : Tool(r) \in Jobs
    BY JobsOfRequests DEF Base, RunTypes
<1>2. \A v \in Workers : /\ Active(v)' <=> Active(v)
                         /\ ~Active(v) => at'[v] = at[v]
    BY DEF Active
<1>3. \A v \in Workers : (at[v] # "idle" => task[v] \in Jobs) /\ (Active(v) => at[v] # "idle")
    BY <1>1 DEF Hands, Active
<1>4. \A v \in Workers :
        /\ at'[v] = "idle" <=> task'[v] = None
        /\ Active(v)' => job'[task'[v]] = "running"
        /\ at'[v] = "retrying" => job'[task'[v]] # "absent"
        /\ at'[v] = "dead_letter" => job'[task'[v]] = "dead"
        /\ at'[v] \in {"settle", "status"} => result'[v] \in Terminal
    <2>1. TAKE v \in Workers
    <2>2. at'[v] = "idle" <=> at[v] = "idle"
        BY DEF Active
    <2>3. at[v] # "idle" => job'[task[v]] = job[task[v]] \/ job[task[v]] = "absent"
        BY <1>3
    <2>4. CASE Active(v)
        <3>1. job[task[v]] = "running" /\ Active(v)' /\ at'[v] \notin {"retrying", "dead_letter", "idle"}
            BY <1>1, <1>2, <2>4 DEF Hands, Active
        <3>2. QED BY <1>1, <1>3, <2>2, <2>3, <2>4, <3>1 DEF Hands
    <2>5. CASE ~Active(v)
        <3>1. at'[v] = at[v] /\ result'[v] = result[v] /\ ~Active(v)'
            BY <1>2, <2>5
        <3>2. /\ at[v] = "idle" <=> task[v] = None
              /\ at[v] = "retrying" => job[task[v]] # "absent"
              /\ at[v] = "dead_letter" => job[task[v]] = "dead"
              /\ at[v] \in {"settle", "status"} => result[v] \in Terminal
            BY <1>1 DEF Hands
        <3>3. at'[v] = "retrying" => job'[task'[v]] # "absent"
            BY <2>3, <3>1, <3>2
        <3>4. at'[v] = "dead_letter" => job'[task'[v]] = "dead"
            BY <2>3, <3>1, <3>2
        <3>5. QED BY <3>1, <3>2, <3>3, <3>4
    <2>6. QED BY <2>4, <2>5
<1>5. \A j \in Jobs : job'[j] = "running" => \E w \in Workers : task'[w] = j /\ Active(w)'
    BY <1>1, <1>2 DEF Hands
<1>6. \A v, w \in Workers : Active(v)' /\ Active(w)' /\ task'[v] = task'[w] => v = w
    BY <1>1, <1>2 DEF Hands
<1>7. \A v, w \in Workers :
        v # w /\ task'[v] = task'[w] /\ task'[v] # None => "retrying" \in {at'[v], at'[w]}
    BY <1>1, <1>2 DEF Hands, Active
<1>8. \A r \in Requests : job'[Tool(r)] # "absent" => r \in Created'
    BY <1>1 DEF Hands
<1>9. QED BY <1>4, <1>5, <1>6, <1>7, <1>8 DEF Hands

\* Every step keeps one hand on every running job.
LEMMA StepHands == Base /\ Typed' /\ RunTypes' /\ [NextAll]_allVars => Hands'
<1>0. SUFFICES ASSUME Base, Typed', RunTypes', [NextAll]_allVars PROVE Hands'
    OBVIOUS
<1>1. /\ Typed /\ RunTypes /\ Hands /\ JobsOK
      /\ at \in [Workers -> {"idle", "mark", "persist", "run", "settle", "status", "output",
                           "retrying", "dead_letter"}]
      /\ task \in [Workers -> Jobs \cup {None}]
      /\ result \in [Workers -> Terminal \cup {"none"}]
    BY <1>0 DEF Base, Typed, RunTypes
<1>a. ASSUME UNCHANGED <<at, task, result, job>>, Created \subseteq Created' PROVE Hands'
    BY <1>0, <1>a, HandsKept
<1>2. CASE UNCHANGED allVars
    BY <1>a, <1>2 DEF allVars, vars, queue, running, Created
<1>3. ASSUME NEW r \in Requests, Api(r) PROVE Hands'
    <2>1. UNCHANGED <<at, task, result>>
        BY <1>3 DEF Api, running
    <2>2. CASE Publish(r)
        <3>1. /\ job[Flow(r)] = "absent" /\ job' = [job EXCEPT ![Flow(r)] = "waiting"]
              /\ status' = status
            BY <2>2 DEF Publish, Queue!Submit, Queue!Move
        <3>2. /\ \A j \in Jobs : job'[j] = job[j] \/ (job[j] = "absent" /\ job'[j] = "waiting")
              /\ \A q \in Requests : job'[Tool(q)] = job[Tool(q)]
            BY <1>1, <3>1, JobsOfRequests DEF JobsOK, Jobs
        <3>3. Created' = Created
            BY <3>1 DEF Created
        <3>4. QED BY <1>0, <2>1, <3>2, <3>3, HandsKept
    <2>3. CASE ~Publish(r)
        <3>1. /\ job' = job
              /\ status' = status \/ status' = [status EXCEPT ![r] = "queued"]
            BY <1>3, <2>3 DEF Api, CheckQuota, Submit, Lookup, Reject, Create, CreateLifecycle, Register,
                FindDict, MakeDict, ReadCount, WriteCount, queue
        <3>2. Created \subseteq Created'
            BY <1>1, <3>1 DEF Created, Typed
        <3>3. QED BY <1>a, <2>1, <3>1, <3>2
    <2>4. QED BY <2>2, <2>3
<1>4. ASSUME NEW r \in Requests, Elapse(r) PROVE Hands'
    BY <1>a, <1>4 DEF Elapse, running, queue, Created
<1>5. ASSUME NEW p \in Pollers, Refresh(p) PROVE Hands'
    <2>1. UNCHANGED <<at, task, result, job>>
        BY <1>5 DEF Refresh, Decide, RefreshStatus, RefreshOutput, RefreshHistory, vars, queue, running
    <2>2. \/ status' = status
          \/ poll[p].step = "status" /\ status' = [status EXCEPT ![poll[p].of] = poll[p].to]
        BY <1>5 DEF Refresh, Decide, RefreshStatus, RefreshOutput, RefreshHistory, vars
    <2>3. poll[p].step = "status" => poll[p].to \in {"running", "completed"}
        BY <1>0 DEF Base, Polls
    <2>4. Created \subseteq Created'
        BY <1>1, <2>2, <2>3 DEF Created, Typed
    <2>5. QED BY <1>a, <2>1, <2>4
<1>6. ASSUME NEW w \in Workers,
             MarkRunning(w) \/ PersistRunning(w) \/ RunTool(w) \/ SettleShared(w) \/ WriteStatus(w)
      PROVE  Hands'
    <2>1. /\ UNCHANGED <<task, job>>
          /\ at[w] \in {"mark", "persist", "run", "settle", "status"}
          /\ \E s \in {"persist", "run", "settle", "status", "output"} : at' = [at EXCEPT ![w] = s]
          /\ \/ result' = [result EXCEPT ![w] = "completed"]
             \/ /\ result' = result
                /\ at[w] = "settle" \/ (at[w] # "settle" /\ at'[w] \notin {"settle", "status"})
          /\ status' = status \/ \E s : status' = [status EXCEPT ![Of(w)] = s]
        BY <1>1, <1>6 DEF MarkRunning, PersistRunning, RunTool, SettleShared, WriteStatus, Move, queue
    <2>2. \A v \in Workers \ {w} : at'[v] = at[v] /\ task'[v] = task[v] /\ result'[v] = result[v]
        BY <1>6, <1>1, OneWorkerMoves DEF WorkerNext
    <2>3. Active(w) /\ at'[w] \in {"persist", "run", "settle", "status", "output"}
        BY <1>1, <2>1 DEF Active
    <2>4. at[w] = "settle" => result[w] \in Terminal
        BY <1>1 DEF Hands
    <2>5. at'[w] \in {"settle", "status"} => result'[w] \in Terminal
        BY <1>1, <2>1, <2>4 DEF Terminal
    <2>6. Created \subseteq Created'
        <3>1. /\ MarkRunning(w) \/ RunTool(w) \/ SettleShared(w) => status' = status
              /\ PersistRunning(w) => status' = [status EXCEPT ![Of(w)] = "running"]
              /\ WriteStatus(w) => at[w] = "status" /\ status' = [status EXCEPT ![Of(w)] = result[w]]
            BY DEF MarkRunning, RunTool, SettleShared, PersistRunning, WriteStatus
        <3>2. at[w] = "status" => result[w] \in Terminal
            BY <1>1 DEF Hands
        <3>3. QED BY <1>1, <1>6, <3>1, <3>2 DEF Created, Typed, Terminal
    <2>7. QED BY <1>0, <2>1, <2>2, <2>3, <2>5, <2>6, HandsKept
<1>7. ASSUME NEW w \in Workers, RunFlow(w) PROVE Hands'
    <2>1. /\ at[w] = "run" /\ at' = [at EXCEPT ![w] = "settle"] /\ UNCHANGED <<task, status>>
          /\ \E s \in Terminal : result' = [result EXCEPT ![w] = s]
          /\ \/ job' = job
             \/ job[Tool(Of(w))] = "absent" /\ job' = [job EXCEPT ![Tool(Of(w))] = "waiting"]
        BY <1>7 DEF RunFlow, Move, queue, Queue!Submit, Queue!Move
    <2>2. Of(w) \in Created /\ Of(w) \in Requests
        BY <1>1, <2>1, HandOf
    <2>3. /\ \A j \in Jobs : job'[j] = job[j] \/ (job[j] = "absent" /\ job'[j] = "waiting")
          /\ \A q \in Requests : job'[Tool(q)] # job[Tool(q)] => q = Of(w)
        BY <1>1, <2>1, <2>2, JobsOfRequests DEF JobsOK, Jobs
    <2>4. Created' = Created
        BY <2>1 DEF Created
    <2>5. Active(w) /\ at'[w] = "settle" /\ result'[w] \in Terminal
        BY <1>1, <2>1 DEF Active
    <2>6. \A v \in Workers \ {w} : at'[v] = at[v] /\ result'[v] = result[v]
        BY <1>1, <2>1
    <2>7. QED BY <1>0, <2>1, <2>2, <2>3, <2>4, <2>5, <2>6, HandsKept
<1>8. ASSUME NEW w \in Workers, Claim(w) PROVE Hands'
    <2>1. PICK j \in Jobs : Queue!Start(j) /\ task' = [task EXCEPT ![w] = j]
        BY <1>8 DEF Claim, Jobs
    <2>2. /\ job[j] = "waiting" /\ job' = [job EXCEPT ![j] = "running"] /\ Created' = Created
          /\ at[w] = "idle" /\ at' = [at EXCEPT ![w] = "mark"] /\ result' = result
        BY <1>8, <2>1 DEF Queue!Start, Queue!Move, Claim, Move, Created
    <2>3. /\ job'[j] = "running" /\ \A i \in Jobs \ {j} : job'[i] = job[i]
          /\ at'[w] = "mark" /\ task'[w] = j /\ Active(w)' /\ j # None
          /\ \A v \in Workers \ {w} : at'[v] = at[v] /\ task'[v] = task[v]
          /\ \A v \in Workers \ {w} : Active(v)' <=> Active(v)
        <3>1. job'[j] = "running" /\ \A i \in Jobs \ {j} : job'[i] = job[i]
            BY <1>1, <2>2 DEF JobsOK, Jobs
        <3>2. /\ at'[w] = "mark" /\ task'[w] = j
              /\ \A v \in Workers \ {w} : at'[v] = at[v] /\ task'[v] = task[v]
            BY <1>1, <2>1, <2>2
        <3>3. j # None
            BY JobsOfRequests
        <3>4. QED BY <3>1, <3>2, <3>3 DEF Active
    <2>4. \A v \in Workers : task[v] = j => at[v] = "retrying"
        <3>1. \A v \in Workers : task[v] = j => at[v] \notin {"idle", "dead_letter"} /\ ~Active(v)
            BY <1>1, <2>2, <2>3 DEF Hands
        <3>2. QED BY <1>1, <3>1 DEF Active
    <2>5. \A v \in Workers \ {w} : task[v] \in Jobs \cup {None} /\ (at[v] # "idle" => task[v] \in Jobs)
        BY <1>1 DEF Hands
    <2>6. \A v \in Workers :
            /\ at'[v] = "idle" <=> task'[v] = None
            /\ Active(v)' => job'[task'[v]] = "running"
            /\ at'[v] = "retrying" => job'[task'[v]] # "absent"
            /\ at'[v] = "dead_letter" => job'[task'[v]] = "dead"
            /\ at'[v] \in {"settle", "status"} => result'[v] \in Terminal
        <3>1. TAKE v \in Workers
        <3>2. CASE v = w
            BY <2>3, <3>2
        <3>3. CASE v # w
            <4>1. /\ at[v] = "idle" <=> task[v] = None
                  /\ Active(v) => job[task[v]] = "running"
                  /\ at[v] = "retrying" => job[task[v]] # "absent"
                  /\ at[v] = "dead_letter" => job[task[v]] = "dead"
                  /\ at[v] \in {"settle", "status"} => result[v] \in Terminal
                BY <1>1 DEF Hands
            <4>2. at[v] # "idle" => \/ job'[task[v]] = job[task[v]]
                                    \/ at[v] = "retrying" /\ job'[task[v]] = "running"
                BY <2>3, <2>4, <2>5, <3>3
            <4>3. Active(v) => at[v] \notin {"idle", "retrying"}
                BY DEF Active
            <4>4. QED BY <2>2, <2>3, <3>3, <4>1, <4>2, <4>3
        <3>4. QED BY <3>2, <3>3
    <2>7. \A i \in Jobs : job'[i] = "running" => \E v \in Workers : task'[v] = i /\ Active(v)'
        <3>1. TAKE i \in Jobs
        <3>2. CASE i = j
            BY <2>3, <3>2
        <3>3. CASE i # j
            <4>1. SUFFICES ASSUME job[i] = "running"
                           PROVE  \E v \in Workers : task'[v] = i /\ Active(v)'
                BY <2>3, <3>3
            <4>2. PICK v \in Workers : task[v] = i /\ Active(v)
                BY <1>1, <4>1 DEF Hands
            <4>3. v # w
                BY <2>2, <4>2 DEF Active
            <4>4. QED BY <2>3, <4>2, <4>3
        <3>4. QED BY <3>2, <3>3
    <2>8. \A u, v \in Workers : Active(u)' /\ Active(v)' /\ task'[u] = task'[v] => u = v
        BY <1>1, <2>3, <2>4 DEF Hands, Active
    <2>9. \A u, v \in Workers :
            u # v /\ task'[u] = task'[v] /\ task'[u] # None => "retrying" \in {at'[u], at'[v]}
        BY <1>1, <2>3, <2>4 DEF Hands
    <2>10. \A r \in Requests : job'[Tool(r)] # "absent" => r \in Created'
        BY <1>1, <2>1, <2>2, <2>3, JobsOfRequests DEF Hands
    <2>11. QED BY <2>6, <2>7, <2>8, <2>9, <2>10 DEF Hands
<1>9. ASSUME NEW w \in Workers, WriteOutput(w) \/ RunRaises(w) \/ MarkRaised(w) PROVE Hands'
    <2> DEFINE j == task[w]
    <2>1. /\ result' = result /\ Created' = Created /\ at[w] # "idle"
          /\ \/ at' = [at EXCEPT ![w] = "idle"] /\ task' = [task EXCEPT ![w] = None]
             \/ at' = [at EXCEPT ![w] = "retrying"] /\ task' = task
             \/ at' = [at EXCEPT ![w] = "dead_letter"] /\ task' = task
        BY <1>9 DEF WriteOutput, RunRaises, MarkRaised, Move, Drop, Created
    <2>2. /\ at'[w] = "idle" => (at[w] \in {"retrying", "dead_letter"} /\ job' = job)
                                 \/ (Active(w) /\ job' = [job EXCEPT ![j] = "finished"])
          /\ at'[w] = "retrying" => Active(w) /\ job' = [job EXCEPT ![j] = "waiting"]
          /\ at'[w] = "dead_letter" => Active(w) /\ job' = [job EXCEPT ![j] = "dead"]
        BY <1>1, <1>9 DEF WriteOutput, RunRaises, MarkRaised, Move, Drop, Queue!GiveBack, Queue!Bury,
            Queue!Finish, Queue!Move, queue, Active
    <2>3. /\ j \in Jobs /\ j # None /\ job[j] # "absent"
        BY <1>1, <2>1, HandOf
    <2>4. /\ at'[w] \in {"idle", "retrying", "dead_letter"} /\ ~Active(w)'
          /\ task'[w] = IF at'[w] = "idle" THEN None ELSE j
          /\ \A v \in Workers \ {w} : /\ at'[v] = at[v] /\ task'[v] = task[v] /\ result'[v] = result[v]
                                      /\ Active(v)' <=> Active(v)
        BY <1>1, <2>1 DEF Active
    <2>5. /\ \A i \in Jobs \ {j} : job'[i] = job[i]
          /\ \/ job' = job /\ at'[w] = "idle" /\ ~Active(w)
             \/ Active(w) /\ job'[j] \in {"waiting", "dead", "finished"}
          /\ at'[w] = "dead_letter" => job'[j] = "dead"
          /\ job'[j] # "absent"
        <3>1. CASE job' = job /\ at'[w] = "idle" /\ at[w] \in {"retrying", "dead_letter"}
            BY <2>3, <3>1 DEF Active
        <3>2. ASSUME NEW s \in {"waiting", "dead", "finished"}, job' = [job EXCEPT ![j] = s]
              PROVE  job'[j] = s /\ \A i \in Jobs \ {j} : job'[i] = job[i]
            BY <1>1, <2>3, <3>2 DEF JobsOK, Jobs
        <3>3. QED BY <2>2, <2>4, <3>1, <3>2
    <2> HIDE DEF j
    <2>6. Active(w) => \A v \in Workers \ {w} : task[v] = j => at[v] = "retrying"
        <3>1. Active(w) => at[w] # "retrying"
            BY DEF Active
        <3>2. QED BY <1>1, <2>3, <3>1 DEF Hands, j
    <2>7. \A v \in Workers :
            /\ at'[v] = "idle" <=> task'[v] = None
            /\ Active(v)' => job'[task'[v]] = "running"
            /\ at'[v] = "retrying" => job'[task'[v]] # "absent"
            /\ at'[v] = "dead_letter" => job'[task'[v]] = "dead"
            /\ at'[v] \in {"settle", "status"} => result'[v] \in Terminal
        <3>1. TAKE v \in Workers
        <3>2. CASE v = w
            BY <2>3, <2>4, <2>5, <3>2
        <3>3. CASE v # w
            <4>1. /\ at[v] = "idle" <=> task[v] = None
                  /\ Active(v) => job[task[v]] = "running"
                  /\ at[v] = "retrying" => job[task[v]] # "absent"
                  /\ at[v] = "dead_letter" => job[task[v]] = "dead"
                  /\ at[v] \in {"settle", "status"} => result[v] \in Terminal
                BY <1>1 DEF Hands
            <4>2. at[v] # "idle" => task[v] \in Jobs
                BY <1>1, <4>1
            <4>3. Active(v) => at[v] \notin {"idle", "retrying"}
                BY DEF Active
            <4>4. CASE job' = job
                BY <2>4, <3>3, <4>1, <4>4
            <4>5. CASE Active(w)
                <5>1. at[v] # "idle" => job'[task[v]] = job[task[v]] \/ at[v] = "retrying"
                    BY <2>5, <2>6, <3>3, <4>2, <4>5
                <5>2. at[v] = "retrying" => job'[task[v]] # "absent"
                    BY <2>5, <4>1, <4>2
                <5>3. QED BY <2>4, <3>3, <4>1, <4>3, <5>1, <5>2
            <4>6. QED BY <2>5, <4>4, <4>5
        <3>4. QED BY <3>2, <3>3
    <2>8. \A i \in Jobs : job'[i] = "running" => \E v \in Workers : task'[v] = i /\ Active(v)'
        <3>1. SUFFICES ASSUME NEW i \in Jobs, job'[i] = "running"
                       PROVE  \E v \in Workers : task'[v] = i /\ Active(v)'
            OBVIOUS
        <3>2. job[i] = "running" /\ (Active(w) => i # j)
            BY <2>3, <2>5, <3>1
        <3>3. PICK v \in Workers : task[v] = i /\ Active(v)
            BY <1>1, <3>2 DEF Hands
        <3>4. v # w
            BY <3>2, <3>3 DEF j
        <3>5. QED BY <2>4, <3>3, <3>4
    <2>9. \A u, v \in Workers : Active(u)' /\ Active(v)' /\ task'[u] = task'[v] => u = v
        BY <1>1, <2>4 DEF Hands
    <2>10. \A u, v \in Workers :
            u # v /\ task'[u] = task'[v] /\ task'[u] # None => "retrying" \in {at'[u], at'[v]}
        <3>1. \A u \in Workers \ {w} : task'[u] = task'[w] /\ task'[u] # None =>
                "retrying" \in {at'[u], at'[w]}
            BY <2>4, <2>5, <2>6
        <3>2. \A u, v \in Workers \ {w} :
                u # v /\ task'[u] = task'[v] /\ task'[u] # None => "retrying" \in {at'[u], at'[v]}
            BY <1>1, <2>4 DEF Hands
        <3>3. QED BY <3>1, <3>2
    <2>11. \A r \in Requests : job'[Tool(r)] # "absent" => r \in Created'
        BY <1>1, <2>1, <2>3, <2>5, JobsOfRequests DEF Hands
    <2>12. QED BY <2>7, <2>8, <2>9, <2>10, <2>11 DEF Hands
<1>10. QED BY <1>0, <1>2, <1>3, <1>4, <1>5, <1>6, <1>7, <1>8, <1>9 DEF NextAll, WorkerNext

\* An execution that is stored stays so.
LEMMA CreatedGrows == Base /\ [NextAll]_allVars => Created \subseteq Created'
<1>0. SUFFICES ASSUME Base, [NextAll]_allVars PROVE Created \subseteq Created'
    OBVIOUS
<1>1. /\ status \in [Requests -> {"absent", "queued", "running"} \cup Terminal]
      /\ Hands /\ Polls
    BY <1>0 DEF Base, Typed, Terminal
<1>a. ASSUME status' = status PROVE Created \subseteq Created'
    BY <1>a DEF Created
<1>b. ASSUME NEW r, NEW s, s # "absent", status' = [status EXCEPT ![r] = s]
      PROVE  Created \subseteq Created'
    BY <1>1, <1>b DEF Created
<1>2. CASE UNCHANGED allVars
    BY <1>a, <1>2 DEF allVars, vars
<1>3. ASSUME NEW r \in Requests, Api(r) \/ Elapse(r) PROVE Created \subseteq Created'
    <2>1. status' = status \/ status' = [status EXCEPT ![r] = "queued"]
        BY <1>3 DEF Api, Elapse, CheckQuota, Submit, Lookup, Reject, Create, CreateLifecycle, Publish,
            Register, FindDict, MakeDict, ReadCount, WriteCount
    <2>2. QED BY <1>a, <1>b, <2>1
<1>4. ASSUME NEW w \in Workers, WorkerNext(w) PROVE Created \subseteq Created'
    <2>1. \/ status' = status
          \/ status' = [status EXCEPT ![Of(w)] = "running"]
          \/ at[w] = "status" /\ status' = [status EXCEPT ![Of(w)] = result[w]]
        BY <1>4 DEF WorkerNext, Claim, MarkRunning, PersistRunning, RunFlow, RunTool, RunRaises,
            SettleShared, WriteStatus, WriteOutput, MarkRaised
    <2>2. at[w] = "status" => result[w] # "absent"
        BY <1>1 DEF Hands, Terminal
    <2>3. QED BY <1>a, <1>b, <2>1, <2>2
<1>5. ASSUME NEW p \in Pollers, Refresh(p) PROVE Created \subseteq Created'
    <2>1. \/ status' = status
          \/ poll[p].step = "status" /\ status' = [status EXCEPT ![poll[p].of] = poll[p].to]
        BY <1>5 DEF Refresh, Decide, RefreshStatus, RefreshOutput, RefreshHistory, vars
    <2>2. poll[p].step = "status" => poll[p].to # "absent"
        BY <1>1 DEF Polls
    <2>3. QED BY <1>a, <1>b, <2>1, <2>2
<1>6. QED BY <1>0, <1>2, <1>3, <1>4, <1>5 DEF NextAll

\* What a poller does to its request.
LEMMA PollerMoves ==
    ASSUME RunTypes, Polls, NEW p \in Pollers, Refresh(p)
    PROVE  /\ \A q \in Pollers \ {p} : poll'[q] = poll[q]
           /\ UNCHANGED <<api, lifecycle, shared, job, at, task, result, outcome>>
           /\ \/ /\ Decide(p) /\ UNCHANGED <<status, output, history>> /\ polls' > 0
                 /\ poll[p] = Idle /\ poll'[p].step = "status"
                 /\ \E r \in Requests : /\ Due(r) # "none"
                                        /\ poll'[p].of = r /\ poll'[p].to = Due(r)
              \/ /\ RefreshStatus(p) /\ UNCHANGED <<output, history, polls>>
                 /\ poll[p].step = "status"
                 /\ status' = [status EXCEPT ![poll[p].of] = poll[p].to]
                 /\ poll'[p].step = IF poll[p].to = "completed" THEN "output" ELSE "history"
                 /\ poll'[p].of = poll[p].of /\ poll'[p].to = poll[p].to
              \/ /\ RefreshOutput(p) /\ UNCHANGED <<status, history, polls>>
                 /\ poll[p].step = "output" /\ poll'[p].step = "history"
                 /\ output' = [output EXCEPT ![poll[p].of] = "canned"]
                 /\ poll'[p].of = poll[p].of /\ poll'[p].to = poll[p].to
              \/ /\ RefreshHistory(p) /\ UNCHANGED <<status, output, polls>>
                 /\ poll[p].step = "history" /\ poll'[p] = Idle
                 /\ history' = [history EXCEPT ![poll[p].of] = Append(@, poll[p].to)]
<1>1. poll \in [Pollers -> Polled] /\ polls \in Nat
    BY DEF RunTypes
<1>2. poll[p] \in Polled
    BY <1>1
<1>3. UNCHANGED <<api, lifecycle, shared, job, at, task, result, outcome>>
    BY DEF Refresh, Decide, RefreshStatus, RefreshOutput, RefreshHistory, vars, queue, running
<1>4. ASSUME NEW x, poll' = [poll EXCEPT ![p] = x]
      PROVE  poll'[p] = x /\ \A q \in Pollers \ {p} : poll'[q] = poll[q]
    BY <1>1, <1>4
<1>5. ASSUME NEW s, Onward(p, s)
      PROVE  /\ poll'[p].step = s /\ poll'[p].of = poll[p].of /\ poll'[p].to = poll[p].to
             /\ \A q \in Pollers \ {p} : poll'[q] = poll[q]
    <2>1. poll' = [poll EXCEPT ![p] = [poll[p] EXCEPT !.step = s]]
        BY <1>5 DEF Onward
    <2>2. /\ poll'[p] = [poll[p] EXCEPT !.step = s]
          /\ \A q \in Pollers \ {p} : poll'[q] = poll[q]
        BY <1>1, <2>1
    <2>3. QED BY <1>2, <2>2 DEF Polled
<1>6. CASE Decide(p)
    <2>1. PICK r \in Requests : Due(r) # "none"
            /\ poll' = [poll EXCEPT ![p] = [step |-> "status", of |-> r, to |-> Due(r)]]
        BY <1>6 DEF Decide
    <2>2. /\ poll'[p] = [step |-> "status", of |-> r, to |-> Due(r)]
          /\ \A q \in Pollers \ {p} : poll'[q] = poll[q]
        BY <1>4, <2>1
    <2>3. poll'[p].step = "status" /\ poll'[p].of = r /\ poll'[p].to = Due(r)
        BY <2>2
    <2>4. UNCHANGED <<status, output, history>> /\ poll[p] = Idle /\ polls' > 0
        BY <1>1, <1>6 DEF Decide, vars
    <2>5. QED BY <1>3, <1>6, <2>1, <2>2, <2>3, <2>4
<1>7. CASE RefreshStatus(p)
    <2>1. /\ poll[p].step = "status" /\ status' = [status EXCEPT ![poll[p].of] = poll[p].to]
          /\ UNCHANGED <<output, history, polls>>
          /\ Onward(p, IF poll[p].to = "completed" THEN "output" ELSE "history")
        BY <1>7 DEF RefreshStatus
    <2>2. QED BY <1>3, <1>5, <1>7, <2>1
<1>8. CASE RefreshOutput(p)
    <2>1. /\ poll[p].step = "output" /\ output' = [output EXCEPT ![poll[p].of] = "canned"]
          /\ UNCHANGED <<status, history, polls>> /\ Onward(p, "history")
        BY <1>8 DEF RefreshOutput, vars
    <2>2. QED BY <1>3, <1>5, <1>8, <2>1
<1>9. CASE RefreshHistory(p)
    <2>1. /\ poll[p].step = "history" /\ poll' = [poll EXCEPT ![p] = Idle]
          /\ UNCHANGED <<status, output, polls>>
          /\ history' = [history EXCEPT ![poll[p].of] = Append(@, poll[p].to)]
        BY <1>9 DEF RefreshHistory, vars
    <2>2. QED BY <1>3, <1>4, <1>9, <2>1
<1>10. QED BY <1>6, <1>7, <1>8, <1>9 DEF Refresh

\* Every step keeps what pollers have decided about stored executions.
LEMMA StepPolls == Base /\ [NextAll]_allVars => Polls'
<1>0. SUFFICES ASSUME Base, [NextAll]_allVars PROVE Polls'
    OBVIOUS
<1>1. Typed /\ RunTypes /\ Polls /\ Created \subseteq Created'
    BY <1>0, CreatedGrows DEF Base
<1>2. CASE UNCHANGED <<poll, polls>>
    BY <1>1, <1>2 DEF Polls
<1>3. ASSUME NEW p \in Pollers, Refresh(p) PROVE Polls'
    <2>1. \A q \in Pollers \ {p} : poll'[q] = poll[q]
        BY <1>1, <1>3, PollerMoves
    <2>2. polls' = polls \/ polls' > 0
        BY <1>1, <1>3, PollerMoves
    <2>3. /\ poll'[p].step = "idle" => poll'[p] = Idle
          /\ poll'[p].step # "idle" =>
                polls' > 0 /\ poll'[p].of \in Created' /\ poll'[p].to \in {"running", "completed"}
        <3>1. poll[p].step # "idle" =>
                polls > 0 /\ poll[p].of \in Created' /\ poll[p].to \in {"running", "completed"}
            BY <1>1 DEF Polls
        <3>2. \A r \in Requests : Due(r) # "none" => r \in Created' /\ Due(r) \in {"running", "completed"}
            <4>1. \A r \in Requests : Due(r) # "none" => lifecycle[r] # "none"
                BY DEF Due
            <4>2. \A r \in Requests : Due(r) # "none" => r \in Created
                BY <1>1, <4>1 DEF Typed, SubmissionTypeOK
            <4>3. QED BY <1>1, <4>2 DEF Due
        <3>3. Idle.step = "idle"
            BY DEF Idle
        <3>4. QED BY <1>1, <1>3, <3>1, <3>2, <3>3, PollerMoves
    <2>4. QED BY <1>1, <2>1, <2>2, <2>3 DEF Polls
<1>4. QED
    <2>1. \A r \in Requests : Api(r) \/ Elapse(r) => UNCHANGED <<poll, polls>>
        BY DEF Api, Elapse, polling
    <2>2. UNCHANGED allVars => UNCHANGED <<poll, polls>>
        BY DEF allVars, polling
    <2>3. QED BY <1>0, <1>1, <1>2, <1>3, <2>1, <2>2, OneWorkerMoves DEF NextAll

\* So all of it holds in every state.
LEMMA BaseKeeps == SpecAll => []Base
<1>1. Base /\ [NextAll]_allVars => Base'
    BY StepTypes, StepHands, StepPolls DEF Base
<1>2. QED BY InitBase, <1>1, PTL DEF SpecAll

\* Executions are well typed while workers and pollers write to them, and a job
\* is running exactly while one worker has it in hand, whatever raises, retries
\* or polls.
THEOREM ExecutionsTyped == SpecAll => []ExecutionsTypeOK
<1>1. Base => ExecutionsTypeOK
    <2>1. SUFFICES ASSUME Base PROVE ExecutionsTypeOK
        OBVIOUS
    <2>2. /\ SubmissionTypeOK
          /\ status \in [Requests -> {"absent", "queued", "running"} \cup Terminal]
          /\ output \in [Requests -> {"none", "flow", "tool", "canned"}]
          /\ Hands
        BY <2>1 DEF Base, Typed, RunTypes, Terminal
    <2>3. \A w \in Workers : task[w] # None =>
            (Active(w) <=> at[w] \notin {"retrying", "dead_letter"})
        BY <2>1, <2>2 DEF Base, RunTypes, Hands, Active
    <2>4. \A j \in Jobs : j # None
        BY JobsOfRequests
    <2>5. \A j \in Jobs :
            job[j] = "running" <=>
                \E w \in Workers : task[w] = j /\ at[w] \notin {"retrying", "dead_letter"}
        BY <2>2, <2>3, <2>4 DEF Hands
    <2>6. QED BY <2>2, <2>5 DEF ExecutionsTypeOK, Hands, Jobs
<1>2. QED BY <1>1, BaseKeeps, PTL

----------------------------------------------------------------------------
(* Outputs *)

\* Somebody has written the status and is about to write the output.
Pending(r) ==
    \/ \E w \in Workers : task[w] # None /\ Of(w) = r /\ at[w] = "output"
    \/ \E p \in Pollers : poll[p].of = r /\ poll[p].step = "output"

Outputs ==
    /\ history \in [Requests -> Seq({"running", "completed"})]
    /\ \A p \in Pollers : poll[p].step = "history" /\ poll[p].to = "completed" =>
            output[poll[p].of] # "none"
    /\ \A r \in Requests :
        /\ (\E i \in DOMAIN history[r] : history[r][i] = "completed") => output[r] # "none"
        /\ status[r] \in Terminal /\ output[r] = "none" => Pending(r)

\* At first nothing is stored.
LEMMA InitOutputs == InitAll => Outputs
<1>1. SUFFICES ASSUME InitAll PROVE Outputs
    OBVIOUS
<1>2. /\ status = [r \in Requests |-> "absent"] /\ history = [r \in Requests |-> <<>>]
      /\ poll = [p \in Pollers |-> Idle]
    BY <1>1 DEF InitAll, Init
<1>3. \A r \in Requests : history[r] = <<>> /\ DOMAIN history[r] = {} /\ status[r] \notin Terminal
    BY <1>2 DEF Terminal
<1>4. \A p \in Pollers : poll[p].step # "history"
    BY <1>2 DEF Idle
<1>5. history \in [Requests -> Seq({"running", "completed"})]
    BY <1>2
<1>6. QED BY <1>3, <1>4, <1>5 DEF Outputs

\* What is appended to a history.
LEMMA LastEntry ==
    ASSUME NEW S, NEW s \in Seq(S), NEW x \in S
    PROVE  /\ Append(s, x) \in Seq(S)
           /\ \A i \in DOMAIN Append(s, x) :
                (i \in DOMAIN s /\ Append(s, x)[i] = s[i]) \/ Append(s, x)[i] = x
OBVIOUS

\* A worker writes the status before the output, and the output before it goes.
LEMMA WorkerOutputs ==
    ASSUME Base, Outputs, NEW w \in Workers, WorkerNext(w)
    PROVE  Outputs'
<1>1. /\ UNCHANGED <<history, poll, polls>>
      /\ \A v \in Workers \ {w} : at'[v] = at[v] /\ task'[v] = task[v]
    BY OneWorkerMoves DEF Base
<1>2. /\ status \in [Requests -> {"absent", "queued", "running"} \cup Terminal]
      /\ output \in [Requests -> {"none", "flow", "tool", "canned"}]
      /\ at \in [Workers -> {"idle", "mark", "persist", "run", "settle", "status", "output",
                           "retrying", "dead_letter"}]
    BY DEF Base, Typed, RunTypes, Terminal
<1>3. at[w] # "idle" => /\ task[w] # None /\ Of(w) \in Requests /\ task[w][2] \in {"flow", "tool"}
    BY HandOf DEF Base
<1>4. /\ \/ output' = output /\ at[w] # "output"
         \/ at[w] = "output" /\ output' = [output EXCEPT ![Of(w)] = task[w][2]]
      /\ \/ status' = status
         \/ status' = [status EXCEPT ![Of(w)] = "running"]
         \/ /\ at[w] = "status" /\ status' = [status EXCEPT ![Of(w)] = result[w]]
            /\ at' = [at EXCEPT ![w] = "output"] /\ task' = task
    BY DEF WorkerNext, Claim, MarkRunning, PersistRunning, RunFlow, RunTool, RunRaises, SettleShared,
        WriteStatus, WriteOutput, MarkRaised, Move
<1>5. \A r \in Requests : output[r] # "none" => output'[r] # "none"
    BY <1>2, <1>3, <1>4
<1>6. \A p \in Pollers : poll'[p].step = "history" /\ poll'[p].to = "completed" =>
            output'[poll'[p].of] # "none"
    <2>1. \A p \in Pollers : poll[p].step = "history" => poll[p].of \in Requests
        BY DEF Base, Polls, Created
    <2>2. QED BY <1>1, <1>5, <2>1 DEF Outputs
<1>7. ASSUME NEW r \in Requests, status'[r] \in Terminal, output'[r] = "none" PROVE Pending(r)'
    <2>1. CASE status'[r] # status[r]
        <3>1. Of(w) = r /\ at[w] = "status" /\ at'[w] = "output" /\ task'[w] = task[w]
            BY <1>2, <1>4, <1>7, <2>1 DEF Terminal
        <3>2. task'[w] # None /\ task'[w][1] = r
            BY <1>3, <3>1 DEF Of
        <3>3. QED BY <3>1, <3>2 DEF Pending, Of
    <2>2. CASE status'[r] = status[r]
        <3>1. Pending(r)
            BY <1>5, <1>7, <2>2 DEF Outputs
        <3>2. CASE \E p \in Pollers : poll[p].of = r /\ poll[p].step = "output"
            BY <1>1, <3>2 DEF Pending
        <3>3. CASE \E v \in Workers : task[v] # None /\ Of(v) = r /\ at[v] = "output"
            <4>1. PICK v \in Workers : task[v] # None /\ Of(v) = r /\ at[v] = "output"
                BY <3>3
            <4>2. v # w
                BY <1>2, <1>3, <1>4, <1>7, <4>1
            <4>3. QED BY <1>1, <4>1, <4>2 DEF Pending, Of
        <3>4. QED BY <3>1, <3>2, <3>3 DEF Pending
    <2>3. QED BY <2>1, <2>2
<1>8. QED BY <1>1, <1>5, <1>6, <1>7 DEF Outputs

\* A poller writes the status, then the output, then the history.
LEMMA PollerOutputs ==
    ASSUME Base, Base', Outputs, NEW p \in Pollers, Refresh(p)
    PROVE  Outputs'
<1>1. /\ \A q \in Pollers \ {p} : poll'[q] = poll[q]
      /\ UNCHANGED <<at, task>>
    BY PollerMoves DEF Base
<1>2. /\ status \in [Requests -> {"absent", "queued", "running"} \cup Terminal]
      /\ output \in [Requests -> {"none", "flow", "tool", "canned"}]
      /\ history \in [Requests -> Seq({"running", "completed"})]
    BY DEF Base, Typed, RunTypes, Terminal, Outputs
<1>3. poll[p].step # "idle" => poll[p].of \in Requests /\ poll[p].to \in {"running", "completed"}
    BY DEF Base, Polls, Created
<1>4. /\ output' = output \/ output' = [output EXCEPT ![poll[p].of] = "canned"]
      /\ output' # output => poll[p].step = "output"
    BY PollerMoves DEF Base
<1>5. \A r \in Requests : output[r] # "none" => output'[r] # "none"
    BY <1>2, <1>3, <1>4
<1>6. \A q \in Pollers : poll'[q].step = "history" /\ poll'[q].to = "completed" =>
            output'[poll'[q].of] # "none"
    <2>1. \A q \in Pollers \ {p} : poll'[q].step = "history" => poll'[q].of \in Requests
        BY <1>1 DEF Base, Polls, Created
    <2>2. \A q \in Pollers \ {p} : poll'[q].step = "history" /\ poll'[q].to = "completed" =>
            output'[poll'[q].of] # "none"
        BY <1>1, <1>5, <2>1 DEF Outputs
    <2>3. ASSUME poll'[p].step = "history", poll'[p].to = "completed"
          PROVE  output'[poll'[p].of] # "none"
        <3>1. Idle.step = "idle"
            BY DEF Idle
        <3>2. /\ poll[p].step = "output" /\ poll'[p].of = poll[p].of
              /\ output' = [output EXCEPT ![poll[p].of] = "canned"]
            BY <2>3, <3>1, PollerMoves DEF Base
        <3>3. QED BY <1>2, <1>3, <3>2
    <2>4. QED BY <2>2, <2>3
<1>7. /\ history' \in [Requests -> Seq({"running", "completed"})]
      /\ \A r \in Requests :
            (\E i \in DOMAIN history'[r] : history'[r][i] = "completed") => output'[r] # "none"
    <2>1. CASE history' = history
        BY <1>2, <1>5, <2>1 DEF Outputs
    <2>2. CASE history' # history
        <3>1. /\ poll[p].step = "history" /\ output' = output
              /\ history' = [history EXCEPT ![poll[p].of] = Append(@, poll[p].to)]
            BY <2>2, PollerMoves DEF Base
        <3> DEFINE q == poll[p].of
                   x == poll[p].to
        <3>2. q \in Requests /\ x \in {"running", "completed"} /\ (x = "completed" => output[q] # "none")
            BY <1>3, <3>1 DEF Outputs
        <3> HIDE DEF q, x
        <3>3. history' = [history EXCEPT ![q] = Append(history[q], x)]
            BY <3>1 DEF q, x
        <3>4. /\ history[q] \in Seq({"running", "completed"})
              /\ Append(history[q], x) \in Seq({"running", "completed"})
              /\ \A i \in DOMAIN Append(history[q], x) :
                    \/ i \in DOMAIN history[q] /\ Append(history[q], x)[i] = history[q][i]
                    \/ Append(history[q], x)[i] = x
            BY <1>2, <3>2, LastEntry
        <3>5. /\ history'[q] = Append(history[q], x)
              /\ \A r \in Requests \ {q} : history'[r] = history[r]
              /\ history' \in [Requests -> Seq({"running", "completed"})]
            BY <1>2, <3>2, <3>3, <3>4
        <3>6. (\E i \in DOMAIN history'[q] : history'[q][i] = "completed") => output'[q] # "none"
            BY <3>1, <3>2, <3>4, <3>5 DEF Outputs
        <3>7. QED BY <3>1, <3>5, <3>6 DEF Outputs
    <2>3. QED BY <2>1, <2>2
<1>8. ASSUME NEW r \in Requests, status'[r] \in Terminal, output'[r] = "none" PROVE Pending(r)'
    <2>1. CASE status'[r] # status[r]
        <3>1. /\ poll[p].step = "status" /\ status' = [status EXCEPT ![poll[p].of] = poll[p].to]
              /\ poll'[p].step = IF poll[p].to = "completed" THEN "output" ELSE "history"
              /\ poll'[p].of = poll[p].of
            BY <2>1, PollerMoves DEF Base
        <3>2. poll[p].of = r /\ poll[p].to = "completed"
            BY <1>2, <1>3, <1>8, <2>1, <3>1 DEF Terminal
        <3>3. QED BY <3>1, <3>2 DEF Pending
    <2>2. CASE status'[r] = status[r]
        <3>1. Pending(r)
            BY <1>5, <1>8, <2>2 DEF Outputs
        <3>2. CASE \E w \in Workers : task[w] # None /\ Of(w) = r /\ at[w] = "output"
            BY <1>1, <3>2 DEF Pending, Of
        <3>3. CASE \E q \in Pollers : poll[q].of = r /\ poll[q].step = "output"
            <4>1. PICK q \in Pollers : poll[q].of = r /\ poll[q].step = "output"
                BY <3>3
            <4>2. q # p
                <5>1. SUFFICES ASSUME q = p PROVE FALSE
                    OBVIOUS
                <5>2. Idle.step = "idle"
                    BY DEF Idle
                <5>3. output' = [output EXCEPT ![r] = "canned"]
                    BY <4>1, <5>1, <5>2, PollerMoves DEF Base
                <5>4. QED BY <1>2, <1>8, <5>3
            <4>3. QED BY <1>1, <4>1, <4>2 DEF Pending
        <3>4. QED BY <3>1, <3>2, <3>3 DEF Pending
    <2>3. QED BY <2>1, <2>2
<1>9. QED BY <1>6, <1>7, <1>8 DEF Outputs

\* A client that reads a final status finds an output, or its writer is about to
\* write it; one that reads the completion in the history finds it in any case.
THEOREM EndedWithOutput == SpecAll => []EndedHasOutput
<1>1. Base /\ Base' /\ Outputs /\ [NextAll]_allVars => Outputs'
    <2>0. SUFFICES ASSUME Base, Base', Outputs, [NextAll]_allVars PROVE Outputs'
        OBVIOUS
    <2>1. CASE UNCHANGED allVars
        BY <2>0, <2>1 DEF allVars, vars, running, polling, Outputs, Pending, Of
    <2>2. ASSUME NEW r \in Requests, Api(r) \/ Elapse(r) PROVE Outputs'
        <3>1. /\ UNCHANGED <<output, history, at, task, poll>>
              /\ status' = status \/ status' = [status EXCEPT ![r] = "queued"]
            BY <2>2 DEF Api, Elapse, CheckQuota, Submit, Lookup, Reject, Create, CreateLifecycle,
                Publish, Register, FindDict, MakeDict, ReadCount, WriteCount, running, polling
        <3>2. status \in [Requests -> {"absent", "queued", "running"} \cup Terminal]
            BY <2>0 DEF Base, Typed, Terminal
        <3>3. \A q \in Requests : status'[q] \in Terminal => status'[q] = status[q]
            BY <3>1, <3>2 DEF Terminal
        <3>4. QED BY <2>0, <3>1, <3>3 DEF Outputs, Pending, Of
    <2>3. QED BY <2>0, <2>1, <2>2, WorkerOutputs, PollerOutputs DEF NextAll
<1>2. Outputs => EndedHasOutput
    BY DEF Outputs, EndedHasOutput, Pending
<1>3. QED BY <1>1, <1>2, InitOutputs, BaseKeeps, PTL DEF SpecAll

----------------------------------------------------------------------------
(* What the stored status tells *)

\* The worker of the graph has written its status.
Written(r) ==
    job[Flow(r)] = "finished" \/ \E w \in Workers : task[w] = Flow(r) /\ at[w] = "output"

\* So has the worker of the tool job.
ToolWritten(r) ==
    job[Tool(r)] = "finished" \/ \E w \in Workers : task[w] = Tool(r) /\ at[w] = "output"

\* What a worker is going to write is the outcome of its run, or completed.
Reported ==
    \A w \in Workers : at[w] \in {"settle", "status"} =>
        \A r \in Requests :
            /\ task[w] = Flow(r) => result[w] = outcome[r]
            /\ task[w] = Tool(r) => result[w] = "completed"

\* A tool job that is under way may have written running.
Told ==
    /\ Reported
    /\ polls = 0 => \A r \in Requests : Written(r) =>
        /\ job[Tool(r)] = "absent" => status[r] = outcome[r]
        /\ ToolWritten(r) => status[r] \in {outcome[r], "completed"}

\* At first nothing has run.
LEMMA InitTold == InitAll => Told
<1>1. SUFFICES ASSUME InitAll PROVE Told
    OBVIOUS
<1>2. at = [w \in Workers |-> "idle"] /\ job = [j \in Jobs |-> "absent"]
    BY <1>1 DEF InitAll, Init, Queue!Init, Jobs
<1>3. QED BY <1>2, JobsOfRequests DEF Told, Reported, Written, ToolWritten

\* A step that leaves jobs, workers and statuses alone, or creates or submits.
LEMMA ToldKept ==
    ASSUME Base, Told, UNCHANGED <<at, task, result, outcome>>,
           polls' = 0 => polls = 0 /\ \A r \in Requests : status'[r] = status[r] \/ r \notin Created,
           \A r \in Requests : /\ job'[Tool(r)] = job[Tool(r)]
                               /\ job'[Flow(r)] = job[Flow(r)] \/ job'[Flow(r)] = "waiting"
    PROVE  Told'
<1>1. Reported'
    BY DEF Told, Reported
<1>2. \A r \in Requests : (Written(r)' => Written(r)) /\ (ToolWritten(r)' => ToolWritten(r))
    <2>1. \A r \in Requests : Flow(r)' = Flow(r) /\ Tool(r)' = Tool(r)
        BY DEF Flow, Tool
    <2>2. QED BY <2>1 DEF Written, ToolWritten
<1>3. \A r \in Requests : Written(r) => r \in Created
    <2>1. \A r \in Requests : Written(r) => job[Flow(r)] # "absent"
        BY DEF Base, Hands, Written, Active
    <2>2. QED BY <2>1 DEF Base, Typed, SubmissionTypeOK
<1>4. QED BY <1>1, <1>2, <1>3 DEF Told

\* A step of a worker.
LEMMA WorkerTold ==
    ASSUME Base, Base', Told, NEW w \in Workers, WorkerNext(w)
    PROVE  Told'
<1>1. /\ polls' = polls
      /\ \A v \in Workers \ {w} : at'[v] = at[v] /\ task'[v] = task[v] /\ result'[v] = result[v]
    BY OneWorkerMoves DEF Base
<1>2. /\ status \in [Requests -> {"absent", "queued", "running"} \cup Terminal]
      /\ job \in [Jobs -> {"absent", "waiting", "running", "finished", "dead"}]
      /\ at \in [Workers -> {"idle", "mark", "persist", "run", "settle", "status", "output",
                           "retrying", "dead_letter"}]
      /\ task \in [Workers -> Jobs \cup {None}]
      /\ result \in [Workers -> Terminal \cup {"none"}]
      /\ outcome \in [Requests -> Terminal \cup {"none"}]
    BY DEF Base, Typed, JobsOK, Jobs, RunTypes, Terminal
<1>3. /\ at[w] # "idle" => /\ task[w] \in Jobs /\ Of(w) \in Requests
                           /\ task[w] = Flow(Of(w)) \/ task[w] = Tool(Of(w))
      /\ Active(w) => job[task[w]] = "running"
      /\ \A v \in Workers : Active(v) /\ Active(w) /\ task[v] = task[w] => v = w
    BY HandOf DEF Base, Hands
<1>4. \A r \in Requests : Active(w) /\ at[w] # "output" =>
        /\ task[w] = Flow(r) => ~Written(r)
        /\ task[w] = Tool(r) => ~ToolWritten(r)
    BY <1>3 DEF Written, ToolWritten, Active
<1>r. Reported /\ (polls = 0 => \A r \in Requests : Written(r) =>
        /\ job[Tool(r)] = "absent" => status[r] = outcome[r]
        /\ ToolWritten(r) => status[r] \in {outcome[r], "completed"})
    BY DEF Told
<1>j. /\ \A r \in Requests : Flow(r) \in Jobs /\ Tool(r) \in Jobs
      /\ \A q, r \in Requests : Flow(q) # Tool(r)
      /\ \A q, r \in Requests : (Flow(q) = Flow(r) => q = r) /\ (Tool(q) = Tool(r) => q = r)
    BY JobsOfRequests
\* Steps after which w is not about to write a status.
<1>a. ASSUME at'[w] \notin {"settle", "status"}, outcome' = outcome PROVE Reported'
    BY <1>1, <1>a, <1>r DEF Reported
\* Steps that end no job, and after which w has not just written.
<1>b. ASSUME NEW r \in Requests, at'[w] # "output",
             job'[Flow(r)] = "finished" => Written(r),
             job'[Tool(r)] = "finished" => ToolWritten(r)
      PROVE  (Written(r)' => Written(r)) /\ (ToolWritten(r)' => ToolWritten(r))
    <2>1. Flow(r)' = Flow(r) /\ Tool(r)' = Tool(r)
        BY DEF Flow, Tool
    <2>2. QED BY <1>1, <1>b, <2>1 DEF Written, ToolWritten
<1>5. CASE Claim(w)
    <2>1. PICK j \in Jobs : Queue!Start(j) /\ task' = [task EXCEPT ![w] = j]
        BY <1>5 DEF Claim, Jobs
    <2>2. /\ job[j] = "waiting" /\ job' = [job EXCEPT ![j] = "running"]
          /\ at' = [at EXCEPT ![w] = "mark"] /\ UNCHANGED <<status, outcome>>
        BY <1>5, <2>1 DEF Queue!Start, Queue!Move, Claim, Move
    <2>3. Reported'
        BY <1>a, <1>2, <2>2
    <2>4. \A i \in Jobs : /\ job'[i] = "finished" => job[i] = "finished"
                          /\ job'[i] = "absent" => job[i] = "absent"
        BY <1>2, <2>1, <2>2
    <2>5. \A r \in Requests : (Written(r)' => Written(r)) /\ (ToolWritten(r)' => ToolWritten(r))
        BY <1>b, <1>2, <1>j, <2>2, <2>4 DEF Written, ToolWritten
    <2>6. QED BY <1>1, <1>j, <1>r, <2>2, <2>3, <2>4, <2>5 DEF Told
<1>6. CASE MarkRunning(w) \/ PersistRunning(w) \/ RunTool(w) \/ SettleShared(w)
    <2>1. /\ at[w] \in {"mark", "persist", "run", "settle"} /\ UNCHANGED <<job, task, outcome>>
          /\ \E s \in {"persist", "run", "settle", "status"} : at' = [at EXCEPT ![w] = s]
          /\ status' = status \/ status' = [status EXCEPT ![Of(w)] = "running"]
        BY <1>6 DEF MarkRunning, PersistRunning, RunTool, SettleShared, Move, queue
    <2>2. Active(w) /\ at'[w] # "output"
        BY <1>2, <2>1 DEF Active
    <2>3. Reported'
        <3>1. CASE MarkRunning(w) \/ PersistRunning(w)
            <4>1. at'[w] \notin {"settle", "status"}
                BY <1>2, <3>1 DEF MarkRunning, PersistRunning, Move
            <4>2. QED BY <1>a, <2>1, <4>1
        <3>2. CASE RunTool(w)
            <4>1. task[w] = Tool(Of(w)) /\ result'[w] = "completed"
                BY <1>2, <3>2 DEF RunTool
            <4>2. QED BY <1>1, <1>3, <1>j, <1>r, <2>1, <2>2, <4>1 DEF Reported, Active
        <3>3. CASE SettleShared(w)
            <4>1. at[w] = "settle" /\ result' = result
                BY <3>3 DEF SettleShared
            <4>2. QED BY <1>1, <1>r, <2>1, <4>1 DEF Reported
        <3>4. QED BY <1>6, <3>1, <3>2, <3>3
    <2>4. \A r \in Requests : (Written(r)' => Written(r)) /\ (ToolWritten(r)' => ToolWritten(r))
        BY <1>b, <2>1, <2>2 DEF Written, ToolWritten
    <2>5. \A r \in Requests : r # Of(w) => status'[r] = status[r]
        BY <1>2, <2>1
    <2>6. ASSUME polls' = 0, NEW r \in Requests, Written(r)'
          PROVE  /\ job'[Tool(r)] = "absent" => status'[r] = outcome'[r]
                 /\ ToolWritten(r)' => status'[r] \in {outcome'[r], "completed"}
        <3>1. Written(r) /\ polls = 0
            BY <1>1, <2>4, <2>6
        <3>2. CASE status'[r] = status[r]
            BY <1>r, <2>1, <2>4, <3>1, <3>2
        <3>3. CASE r = Of(w)
            <4>1. task[w] = Tool(r)
                BY <1>3, <1>4, <2>1, <2>2, <3>1, <3>3
            <4>2. ~ToolWritten(r) /\ job[Tool(r)] = "running"
                BY <1>3, <1>4, <2>1, <2>2, <4>1
            <4>3. QED BY <2>1, <2>4, <4>2
        <3>4. QED BY <2>5, <3>2, <3>3
    <2>7. QED BY <2>3, <2>6 DEF Told
<1>7. CASE RunFlow(w)
    <2> DEFINE q == Of(w)
    <2>1. /\ at[w] = "run" /\ at' = [at EXCEPT ![w] = "settle"] /\ UNCHANGED <<status, task>>
          /\ task[w] = Flow(q)
          /\ \E s \in Terminal : /\ result' = [result EXCEPT ![w] = s]
                                 /\ outcome' = [outcome EXCEPT ![q] = s]
          /\ \/ job' = job
             \/ job[Tool(q)] = "absent" /\ job' = [job EXCEPT ![Tool(q)] = "waiting"]
        BY <1>7 DEF RunFlow, Move, queue, Queue!Submit, Queue!Move
    <2>2. /\ q \in Requests /\ Active(w) /\ ~Written(q) /\ at'[w] = "settle"
        BY <1>2, <1>3, <1>4, <2>1 DEF Active
    <2> HIDE DEF q
    <2>3. /\ result'[w] = outcome'[q]
          /\ \A r \in Requests \ {q} : outcome'[r] = outcome[r]
          /\ \A r \in Requests : job'[Flow(r)] = job[Flow(r)]
          /\ \A r \in Requests \ {q} : job'[Tool(r)] = job[Tool(r)]
          /\ job'[Tool(q)] # "finished" \/ job'[Tool(q)] = job[Tool(q)]
        BY <1>2, <1>j, <2>1, <2>2
    <2>4. Reported'
        <3>1. \A v \in Workers \ {w} : at[v] \in {"settle", "status"} => task[v] # Flow(q)
            BY <1>3, <2>1, <2>2 DEF Active
        <3>2. QED BY <1>1, <1>j, <1>r, <2>1, <2>2, <2>3, <3>1 DEF Reported
    <2>5. \A r \in Requests : (Written(r)' => Written(r)) /\ (ToolWritten(r)' => ToolWritten(r))
        BY <1>b, <2>2, <2>3 DEF Written, ToolWritten
    <2>6. \A r \in Requests : Written(r)' => r # q
        BY <2>2, <2>5
    <2>7. QED BY <1>1, <1>r, <2>1, <2>3, <2>4, <2>5, <2>6 DEF Told
<1>8. CASE WriteStatus(w)
    <2> DEFINE q == Of(w)
    <2>1. /\ at[w] = "status" /\ at' = [at EXCEPT ![w] = "output"] /\ UNCHANGED <<job, task, result, outcome>>
          /\ status' = [status EXCEPT ![q] = result[w]]
        BY <1>8 DEF WriteStatus, Move, queue
    <2>2. q \in Requests /\ (task[w] = Flow(q) \/ task[w] = Tool(q))
        BY <1>3, <2>1
    <2>3. /\ task[w] = Flow(q) => result[w] = outcome[q]
          /\ task[w] = Tool(q) => result[w] = "completed" /\ job[Tool(q)] = "running"
        BY <1>3, <1>r, <2>1, <2>2 DEF Reported, Active
    <2> HIDE DEF q
    <2>4. Reported'
        BY <1>a, <1>2, <2>1
    <2>5. \A r \in Requests \ {q} :
            /\ status'[r] = status[r]
            /\ (Written(r)' => Written(r)) /\ (ToolWritten(r)' => ToolWritten(r))
        <3>1. \A r \in Requests : Flow(r)' = Flow(r) /\ Tool(r)' = Tool(r)
            BY DEF Flow, Tool
        <3>2. \A r \in Requests \ {q} : task'[w] # Flow(r) /\ task'[w] # Tool(r)
            BY <1>j, <2>1, <2>2
        <3>3. \A r \in Requests \ {q} :
                (Written(r)' => Written(r)) /\ (ToolWritten(r)' => ToolWritten(r))
            BY <1>1, <2>1, <3>1, <3>2 DEF Written, ToolWritten
        <3>4. QED BY <1>2, <2>1, <2>2, <3>3
    <2>6. status'[q] = result[w]
        BY <1>2, <2>1, <2>2
    <2>7. QED BY <1>1, <1>r, <2>1, <2>2, <2>3, <2>4, <2>5, <2>6 DEF Told
<1>9. CASE WriteOutput(w)
    <2>1. /\ at[w] = "output" /\ at' = [at EXCEPT ![w] = "idle"]
          /\ job' = [job EXCEPT ![task[w]] = "finished"] /\ UNCHANGED <<status, outcome>>
        BY <1>9 DEF WriteOutput, Move, Drop, Queue!Finish, Queue!Move
    <2>2. Reported' /\ at'[w] # "output"
        BY <1>a, <1>2, <2>1
    <2>3. \A i \in Jobs : job'[i] = job[i] \/ (i = task[w] /\ job'[i] = "finished")
        BY <1>2, <1>3, <2>1
    <2>4. \A r \in Requests : /\ job'[Flow(r)] = "finished" => Written(r)
                              /\ job'[Tool(r)] = "finished" => ToolWritten(r)
                              /\ job'[Tool(r)] = "absent" => job[Tool(r)] = "absent"
        BY <1>j, <2>1, <2>3 DEF Written, ToolWritten
    <2>5. \A r \in Requests : (Written(r)' => Written(r)) /\ (ToolWritten(r)' => ToolWritten(r))
        BY <1>b, <2>2, <2>4
    <2>6. QED BY <1>1, <1>r, <2>1, <2>2, <2>4, <2>5 DEF Told
<1>10. CASE RunRaises(w) \/ MarkRaised(w)
    <2>1. /\ UNCHANGED <<status, outcome>>
          /\ \E s \in {"retrying", "dead_letter", "idle"} : at' = [at EXCEPT ![w] = s]
          /\ \/ job' = job
             \/ at[w] = "run" /\ \E s \in {"waiting", "dead"} : job' = [job EXCEPT ![task[w]] = s]
        BY <1>10 DEF RunRaises, MarkRaised, Move, Drop, Queue!GiveBack, Queue!Bury, Queue!Move, queue
    <2>2. Reported' /\ at'[w] # "output"
        BY <1>a, <1>2, <2>1
    <2>3. \A i \in Jobs : job'[i] = job[i] \/ job'[i] \in {"waiting", "dead"}
        BY <1>2, <1>3, <2>1
    <2>4. \A r \in Requests : /\ job'[Flow(r)] = "finished" => Written(r)
                              /\ job'[Tool(r)] = "finished" => ToolWritten(r)
                              /\ job'[Tool(r)] = "absent" => job[Tool(r)] = "absent"
        BY <1>j, <2>3 DEF Written, ToolWritten
    <2>5. \A r \in Requests : (Written(r)' => Written(r)) /\ (ToolWritten(r)' => ToolWritten(r))
        BY <1>b, <2>2, <2>4
    <2>6. QED BY <1>1, <1>r, <2>1, <2>2, <2>4, <2>5 DEF Told
<1>11. QED BY <1>5, <1>6, <1>7, <1>8, <1>9, <1>10 DEF WorkerNext

\* So all of it holds in every state.
LEMMA ToldKeeps == SpecAll => []Told
<1>1. Base /\ Base' /\ Told /\ [NextAll]_allVars => Told'
    <2>0. SUFFICES ASSUME Base, Base', Told, [NextAll]_allVars PROVE Told'
        OBVIOUS
    <2>a. JobsOK /\ status \in [Requests -> {"absent", "queued", "running"} \cup Terminal]
        BY <2>0 DEF Base, Typed, Terminal
    <2>1. CASE UNCHANGED allVars
        BY <2>0, <2>1, ToldKept DEF allVars, vars, queue, running, polling
    <2>2. ASSUME NEW r \in Requests, Api(r) PROVE Told'
        <3>1. /\ UNCHANGED <<at, task, result, outcome, polls>>
              /\ \/ status' = status
                 \/ step[r] = "create" /\ status' = [status EXCEPT ![r] = "queued"]
              /\ job' = job \/ job' = [job EXCEPT ![Flow(r)] = "waiting"]
            BY <2>2 DEF Api, CheckQuota, Submit, Lookup, Reject, Create, CreateLifecycle, Publish,
                Register, FindDict, MakeDict, ReadCount, WriteCount, running, polling, queue,
                Queue!Submit, Queue!Move
        <3>2. step[r] = "create" => r \notin Created
            BY <2>0, NoneIsNeither DEF Base, Typed, SubmissionTypeOK
        <3>3. \A q \in Requests : status'[q] = status[q] \/ q \notin Created
            BY <2>a, <3>1, <3>2
        <3>4. \A q \in Requests : /\ job'[Tool(q)] = job[Tool(q)]
                                  /\ job'[Flow(q)] = job[Flow(q)] \/ job'[Flow(q)] = "waiting"
            BY <2>a, <3>1, JobsOfRequests DEF JobsOK, Jobs
        <3>5. QED BY <2>0, <3>1, <3>3, <3>4, ToldKept
    <2>3. ASSUME NEW r \in Requests, Elapse(r) PROVE Told'
        BY <2>0, <2>3, ToldKept DEF Elapse, running, polling, queue
    <2>4. ASSUME NEW p \in Pollers, Refresh(p) PROVE Told'
        <3>1. UNCHANGED <<at, task, result, outcome, job>>
            BY <2>0, <2>4, PollerMoves DEF Base
        <3>2. polls' # 0
            <4>1. polls \in Nat /\ (poll[p].step # "idle" => polls > 0)
                BY <2>0 DEF Base, RunTypes, Polls
            <4>2. polls' > 0 \/ (poll[p].step # "idle" /\ polls' = polls)
                BY <2>0, <2>4, PollerMoves DEF Base
            <4>3. polls' \in Nat
                BY <2>0 DEF Base, RunTypes
            <4>4. QED BY <4>1, <4>2, <4>3
        <3>3. QED BY <2>0, <3>1, <3>2, ToldKept
    <2>5. QED BY <2>0, <2>1, <2>2, <2>3, <2>4, WorkerTold DEF NextAll
<1>2. QED BY <1>1, InitTold, BaseKeeps, PTL DEF SpecAll

\* Until a poll rewrites it, a stored execution tells the outcome of the run of
\* its graph, or that its tool job completed, once both are done.
THEOREM OutcomeIsTold == SpecAll => []StatusTellsOutcome
<1>1. Told => StatusTellsOutcome
    BY DEF Told, StatusTellsOutcome, Written, ToolWritten
<1>2. QED BY <1>1, ToldKeeps, PTL

----------------------------------------------------------------------------
(* What the shared record tells *)

\* The graph of an execution has returned.
Returned(r) ==
    \/ job[Flow(r)] = "finished"
    \/ \E w \in Workers : task[w] = Flow(r) /\ at[w] \in {"settle", "status", "output"}

\* Its workflow job was handed back, and waits or was started again.
GivenBack(r) == runs[Flow(r)] >= 1 /\ (job[Flow(r)] = "waiting" \/ runs[Flow(r)] > 1)

\* A worker is still to write how a run ended.
Marking(r) ==
    \E w \in Workers : /\ task[w] \in {Flow(r), Tool(r)}
                       /\ at[w] \in {"mark", "persist", "run", "settle", "dead_letter"}

\* The record is not there yet, was made too late, or tells what happened last
\* to a job of its execution: "running" has a worker that will overwrite it.
RecordOf(r) ==
    \/ shared[r] \in {"absent", "queued"}
    \/ shared[r] = "running" /\ (job[Flow(r)] = "waiting" \/ Marking(r))
    \/ shared[r] = "retrying" /\ GivenBack(r)
    \/ shared[r] = "dead_letter" /\ job[Flow(r)] = "dead"
    \/ /\ Returned(r)
       /\ shared[r] = outcome[r] \/ (shared[r] = "completed" /\ job[Tool(r)] # "absent")

\* The starts are counted, only a workflow job is handed back or buried, and a
\* tool job comes from a graph that returned.
Starts ==
    /\ runs \in [Jobs -> Nat]
    /\ \A j \in Jobs : job[j] = "running" => runs[j] >= 1
    /\ \A w \in Workers : at[w] \in {"retrying", "dead_letter"} => task[w] = Flow(Of(w))
    /\ \A w \in Workers : at[w] = "retrying" => GivenBack(Of(w))
    /\ \A r \in Requests : job[Tool(r)] # "absent" => Returned(r)

Records == Starts /\ \A r \in Requests : RecordOf(r)

\* At first there is no record and no job.
LEMMA InitRecords == InitAll => Records
<1>1. SUFFICES ASSUME InitAll PROVE Records
    OBVIOUS
<1>2. /\ at = [w \in Workers |-> "idle"] /\ job = [j \in Jobs |-> "absent"]
      /\ runs = [j \in Jobs |-> 0] /\ shared = [r \in Requests |-> "absent"]
    BY <1>1 DEF InitAll, Init, Queue!Init, Jobs
<1>3. QED BY <1>2, JobsOfRequests DEF Records, Starts, RecordOf

\* A step that does not write the record of an execution and takes back nothing
\* of what the record tells.
LEMMA RecordKept ==
    ASSUME NEW r \in Requests, RecordOf(r), shared'[r] = shared[r],
           Returned(r) => Returned(r)' /\ outcome'[r] = outcome[r],
           GivenBack(r) => GivenBack(r)',
           job[Flow(r)] = "waiting" \/ Marking(r) => (job[Flow(r)] = "waiting" \/ Marking(r))',
           job[Flow(r)] = "dead" => job'[Flow(r)] = "dead",
           job[Tool(r)] # "absent" => job'[Tool(r)] # "absent"
    PROVE  RecordOf(r)'
<1>1. Flow(r)' = Flow(r) /\ Tool(r)' = Tool(r)
    BY DEF Flow, Tool
<1>2. CASE shared[r] \in {"absent", "queued"}
    BY <1>2 DEF RecordOf
<1>3. CASE shared[r] = "running" /\ (job[Flow(r)] = "waiting" \/ Marking(r))
    BY <1>1, <1>3 DEF RecordOf
<1>4. CASE shared[r] = "retrying" /\ GivenBack(r)
    BY <1>4 DEF RecordOf
<1>5. CASE shared[r] = "dead_letter" /\ job[Flow(r)] = "dead"
    BY <1>1, <1>5 DEF RecordOf
<1>6. CASE /\ Returned(r)
           /\ shared[r] = outcome[r] \/ (shared[r] = "completed" /\ job[Tool(r)] # "absent")
    BY <1>1, <1>6 DEF RecordOf
<1>7. QED BY <1>2, <1>3, <1>4, <1>5, <1>6 DEF RecordOf

\* A step of nobody's worker: it may submit a workflow job, or make a record.
LEMMA OthersRecord ==
    ASSUME Base, Records, UNCHANGED <<at, task, outcome, runs>>,
           \A r \in Requests : shared'[r] = shared[r] \/ shared'[r] = "queued",
           job' = job \/ \E r \in Requests : job[Flow(r)] = "absent"
                                             /\ job' = [job EXCEPT ![Flow(r)] = "waiting"]
    PROVE  Records'
<1>1. JobsOK
    BY DEF Base, Typed
<1>2. \A j \in Jobs : job'[j] = job[j] \/ (job[j] = "absent" /\ job'[j] = "waiting")
    BY <1>1, JobsOfRequests DEF JobsOK, Jobs
<1>3. \A r \in Requests : job'[Tool(r)] = job[Tool(r)]
    BY <1>1, JobsOfRequests DEF JobsOK, Jobs
<1>4. \A r \in Requests : Flow(r)' = Flow(r) /\ Tool(r)' = Tool(r) /\ Flow(r) \in Jobs
    BY JobsOfRequests DEF Flow, Tool
<1>5. \A r \in Requests :
        /\ Returned(r) => Returned(r)'
        /\ GivenBack(r) => GivenBack(r)'
        /\ job[Flow(r)] = "waiting" \/ Marking(r) => (job[Flow(r)] = "waiting" \/ Marking(r))'
    BY <1>2, <1>4 DEF Returned, GivenBack, Marking
<1>6. Starts'
    <2>1. \A w \in Workers : Of(w)' = Of(w) /\ (at[w] = "retrying" => Of(w) \in Requests)
        BY HandOf DEF Of, Base
    <2>2. \A w \in Workers : at'[w] \in {"retrying", "dead_letter"} => task'[w] = Flow(Of(w))'
        <3>1. \A w \in Workers : Flow(Of(w))' = Flow(Of(w))
            BY DEF Flow, Of
        <3>2. QED BY <3>1 DEF Records, Starts
    <2>3. \A w \in Workers : at'[w] = "retrying" => GivenBack(Of(w))'
        <3>1. SUFFICES ASSUME NEW w \in Workers, at'[w] = "retrying" PROVE GivenBack(Of(w))'
            OBVIOUS
        <3>2. PICK q \in Requests : q = Of(w) /\ q = Of(w)' /\ GivenBack(q)
            BY <2>1, <3>1 DEF Records, Starts
        <3>3. GivenBack(q)'
            BY <1>5, <3>2
        <3>4. QED BY <3>2, <3>3 DEF GivenBack, Flow
    <2>4. QED BY <1>2, <1>3, <1>4, <1>5, <2>2, <2>3 DEF Records, Starts
<1>7. ASSUME NEW r \in Requests PROVE RecordOf(r)'
    <2>1. CASE shared'[r] = "queued"
        BY <2>1 DEF RecordOf
    <2>2. CASE shared'[r] = shared[r]
        BY <1>2, <1>3, <1>4, <1>5, <2>2, RecordKept DEF Records
    <2>3. QED BY <2>1, <2>2
<1>8. QED BY <1>6, <1>7 DEF Records

\* What a step of worker w may do to the executions: it moves on with the job it
\* holds, and the queue moves that job.
LEMMA WorkerMoves ==
    ASSUME Base, NEW w \in Workers, WorkerNext(w), at[w] # "idle"
    PROVE  /\ \A v \in Workers \ {w} : at'[v] = at[v] /\ task'[v] = task[v]
           /\ task'[w] \in {task[w], None}
           /\ runs' = runs
           /\ \A r \in Requests \ {Of(w)} : shared'[r] = shared[r] /\ outcome'[r] = outcome[r]
           /\ \A j \in Jobs : j[1] # Of(w) => job'[j] = job[j]
<1>1. /\ JobsOK /\ outcome \in [Requests -> Terminal \cup {"none"}]
      /\ task \in [Workers -> Jobs \cup {None}]
      /\ DOMAIN shared = Requests
    BY DEF Base, Typed, SubmissionTypeOK, RunTypes
<1>2. /\ task[w] \in Jobs /\ Of(w) \in Requests
      /\ task[w] = Flow(Of(w)) \/ task[w] = Tool(Of(w))
      /\ Tool(Of(w))[1] = Of(w) /\ Flow(Of(w))[1] = Of(w)
    BY HandOf, JobsOfRequests DEF Base
<1>3. \A v \in Workers \ {w} : at'[v] = at[v] /\ task'[v] = task[v]
    BY OneWorkerMoves DEF Base
<1>4. /\ task' = task \/ task' = [task EXCEPT ![w] = None]
      /\ runs' = runs
      /\ shared' = shared \/ \E x : Transition(Of(w), x)
      /\ outcome' = outcome \/ \E x : outcome' = [outcome EXCEPT ![Of(w)] = x]
      /\ job' = job \/ \E j \in {task[w], Tool(Of(w))} : \E x : job' = [job EXCEPT ![j] = x]
    BY DEF WorkerNext, Claim, MarkRunning, PersistRunning, RunFlow, RunTool, RunRaises, SettleShared,
        WriteStatus, WriteOutput, MarkRaised, Move, Drop, queue, Queue!Submit, Queue!GiveBack,
        Queue!Bury, Queue!Finish, Queue!Move
<1>5. \A r \in Requests \ {Of(w)} : shared'[r] = shared[r] /\ outcome'[r] = outcome[r]
    BY <1>1, <1>4 DEF Transition
<1>6. \A j \in Jobs : j[1] # Of(w) => job'[j] = job[j]
    BY <1>1, <1>2, <1>4 DEF JobsOK, Jobs
<1>7. task'[w] \in {task[w], None}
    BY <1>1, <1>4
<1>8. QED BY <1>3, <1>4, <1>5, <1>6, <1>7

\* A worker with a job of another execution does not touch what the record of
\* this one tells.
LEMMA RecordElsewhere ==
    ASSUME Base, Starts, NEW w \in Workers, WorkerNext(w), at[w] # "idle",
           NEW r \in Requests, r # Of(w)
    PROVE  /\ Returned(r) => Returned(r)'
           /\ GivenBack(r) => GivenBack(r)'
           /\ RecordOf(r) => RecordOf(r)'
           /\ job'[Tool(r)] = job[Tool(r)]
<1>1. /\ Flow(r)' = Flow(r) /\ Tool(r)' = Tool(r) /\ Flow(r) \in Jobs /\ Tool(r) \in Jobs
      /\ Flow(r)[1] = r /\ Tool(r)[1] = r
    BY JobsOfRequests DEF Flow, Tool
<1>2. /\ \A v \in Workers \ {w} : at'[v] = at[v] /\ task'[v] = task[v]
      /\ runs' = runs /\ shared'[r] = shared[r] /\ outcome'[r] = outcome[r]
      /\ job'[Flow(r)] = job[Flow(r)] /\ job'[Tool(r)] = job[Tool(r)]
    BY <1>1, WorkerMoves
<1>3. task[w] # Flow(r) /\ task[w] # Tool(r)
    BY <1>1 DEF Of
<1>4. /\ Returned(r) => Returned(r)'
      /\ GivenBack(r) => GivenBack(r)'
      /\ Marking(r) => Marking(r)'
    BY <1>1, <1>2, <1>3 DEF Returned, GivenBack, Marking
<1>5. QED BY <1>1, <1>2, <1>4, RecordKept

\* A step of a worker keeps Records, when it does so for its own execution.
LEMMA OwnRecord ==
    ASSUME Base, Base', Records, NEW w \in Workers, WorkerNext(w), at[w] # "idle",
           NEW q \in Requests, q = Of(w),
           Returned(q) => Returned(q)', GivenBack(q) => GivenBack(q)', RecordOf(q)',
           job'[Tool(q)] # "absent" => job[Tool(q)] # "absent" \/ Returned(q)',
           \A j \in {Flow(q), Tool(q)} : job'[j] = "running" => job[j] = "running",
           at'[w] \in {"retrying", "dead_letter"} => task'[w] = Flow(q),
           at'[w] = "retrying" => GivenBack(q)'
    PROVE  Records'
<1> USE DEF Records, Starts
<1>1. /\ \A v \in Workers \ {w} : at'[v] = at[v] /\ task'[v] = task[v]
      /\ task'[w] \in {task[w], None} /\ runs' = runs
      /\ \A j \in Jobs : j[1] # Of(w) => job'[j] = job[j]
    BY WorkerMoves
<1>2. \A r \in Requests : /\ Returned(r) => Returned(r)'
                          /\ GivenBack(r) => GivenBack(r)'
                          /\ RecordOf(r)'
                          /\ Tool(r)' = Tool(r) /\ Flow(r)' = Flow(r)
    BY RecordElsewhere DEF Tool, Flow
<1>3. \A r \in Requests : job'[Tool(r)] # "absent" => Returned(r)'
    BY <1>2, RecordElsewhere
<1>4. \A j \in Jobs : job'[j] = "running" => runs'[j] >= 1
    BY <1>1, JobsOfRequests
<1>5. ASSUME NEW v \in Workers, at'[v] \in {"retrying", "dead_letter"}
      PROVE  /\ task'[v] = Flow(Of(v))'
             /\ at'[v] = "retrying" => GivenBack(Of(v))'
    <2>1. PICK r \in Requests : r = Of(v)' /\ task'[v] = Flow(r)
                                /\ (at'[v] = "retrying" => GivenBack(r)')
        <3>1. CASE v = w
            <4>1. Of(w)' = q
                BY <1>5, <3>1, JobsOfRequests DEF Of
            <4>2. QED BY <1>5, <3>1, <4>1
        <3>2. CASE v # w
            <4>1. /\ at'[v] = at[v] /\ task'[v] = task[v] /\ Of(v)' = Of(v)
                  /\ Of(v) \in Requests
                BY <1>1, <1>5, <3>2, HandOf DEF Of, Base
            <4>2. PICK r \in Requests : r = Of(v)
                BY <4>1
            <4>3. task[v] = Flow(r) /\ (at[v] = "retrying" => GivenBack(r))
                BY <1>5, <4>1, <4>2
            <4>4. QED BY <1>2, <4>1, <4>2, <4>3
        <3>3. QED BY <3>1, <3>2
    <2>2. Flow(Of(v))' = Flow(r)
        BY <2>1 DEF Flow
    <2>3. at'[v] = "retrying" => GivenBack(Of(v))'
        BY <2>1 DEF GivenBack, Flow
    <2>4. QED BY <2>1, <2>2, <2>3
<1>6. QED BY <1>1, <1>2, <1>3, <1>4, <1>5

\* A worker that claims a job takes nothing back, and is to mark it.
LEMMA ClaimRecords ==
    ASSUME Base, Records, NEW w \in Workers, Claim(w)
    PROVE  Records'
<1> USE DEF Records, Starts
<1>1. PICK i \in Jobs : Queue!Start(i) /\ task' = [task EXCEPT ![w] = i]
    BY DEF Claim, Jobs
<1>2. /\ JobsOK /\ task \in [Workers -> Jobs \cup {None}] /\ at[w] = "idle" /\ task[w] = None
      /\ at \in [Workers -> {"idle", "mark", "persist", "run", "settle", "status", "output",
                           "retrying", "dead_letter"}]
    BY DEF Base, Typed, RunTypes, Hands, Claim
<1>3. /\ job[i] = "waiting" /\ job' = [job EXCEPT ![i] = "running"]
      /\ runs' = [runs EXCEPT ![i] = @ + 1] /\ at' = [at EXCEPT ![w] = "mark"]
      /\ UNCHANGED <<shared, outcome>>
    BY <1>1 DEF Queue!Start, Queue!Move, Claim, Move
<1>4. /\ \A v \in Workers \ {w} : at'[v] = at[v] /\ task'[v] = task[v]
      /\ at'[w] = "mark" /\ task'[w] = i
    BY <1>1, <1>2, <1>3
<1>5. /\ \A j \in Jobs \ {i} : job'[j] = job[j] /\ runs'[j] = runs[j]
      /\ job'[i] = "running" /\ runs'[i] = runs[i] + 1 /\ runs' \in [Jobs -> Nat]
      /\ runs[i] \in Nat
    BY <1>2, <1>3 DEF JobsOK, Jobs
<1>6. \A r \in Requests : /\ Flow(r)' = Flow(r) /\ Tool(r)' = Tool(r)
                          /\ Flow(r) \in Jobs /\ Tool(r) \in Jobs
    BY JobsOfRequests DEF Flow, Tool
<1>7. ASSUME NEW r \in Requests
      PROVE  /\ Returned(r) => Returned(r)'
             /\ GivenBack(r) => GivenBack(r)'
             /\ job[Flow(r)] = "waiting" \/ Marking(r) => (job[Flow(r)] = "waiting" \/ Marking(r))'
             /\ job[Flow(r)] = "dead" => job'[Flow(r)] = "dead"
             /\ job[Tool(r)] # "absent" <=> job'[Tool(r)] # "absent"
    <2>1. Returned(r) => Returned(r)'
        BY <1>2, <1>3, <1>4, <1>5, <1>6 DEF Returned
    <2>2. GivenBack(r) => GivenBack(r)'
        <3>1. runs[Flow(r)] \in Nat
            BY <1>6
        <3>2. CASE i = Flow(r)
            BY <1>5, <1>6, <3>1, <3>2 DEF GivenBack
        <3>3. CASE i # Flow(r)
            BY <1>5, <1>6, <3>3 DEF GivenBack
        <3>4. QED BY <3>2, <3>3
    <2>3. job[Flow(r)] = "waiting" \/ Marking(r) => (job[Flow(r)] = "waiting" \/ Marking(r))'
        <3>1. Marking(r) => Marking(r)'
            BY <1>2, <1>4, <1>6 DEF Marking
        <3>2. i = Flow(r) => Marking(r)'
            BY <1>4, <1>6 DEF Marking
        <3>3. i # Flow(r) => job'[Flow(r)] = job[Flow(r)]
            BY <1>5, <1>6
        <3>4. QED BY <1>6, <3>1, <3>2, <3>3
    <2>4. QED BY <1>3, <1>5, <1>6, <2>1, <2>2, <2>3
<1>8. \A r \in Requests : RecordOf(r)'
    BY <1>3, <1>7, RecordKept
<1>9. ASSUME NEW v \in Workers, at'[v] \in {"retrying", "dead_letter"}
      PROVE  /\ task'[v] = Flow(Of(v))'
             /\ at'[v] = "retrying" => GivenBack(Of(v))'
    <2>1. v # w /\ at'[v] = at[v] /\ task'[v] = task[v]
        BY <1>4, <1>9
    <2>2. PICK r \in Requests : r = Of(v) /\ r = Of(v)' /\ task[v] = Flow(r)
                                /\ (at[v] = "retrying" => GivenBack(r))
        BY <1>9, <2>1, HandOf DEF Of, Base
    <2>3. Flow(Of(v))' = Flow(r)
        BY <2>2 DEF Flow
    <2>4. at'[v] = "retrying" => GivenBack(r)'
        BY <1>7, <2>1, <2>2
    <2>5. at'[v] = "retrying" => GivenBack(Of(v))'
        BY <2>2, <2>4 DEF GivenBack, Flow
    <2>6. QED BY <2>1, <2>2, <2>3, <2>5
<1>10. \A j \in Jobs : job'[j] = "running" => runs'[j] >= 1
    BY <1>5
<1>11. \A r \in Requests : job'[Tool(r)] # "absent" => Returned(r)'
    BY <1>6, <1>7
<1>12. QED BY <1>5, <1>8, <1>9, <1>10, <1>11

\* Every other step of a worker keeps Records.
LEMMA WorkerRecords ==
    ASSUME Base, Base', Told, Records, NEW w \in Workers, WorkerNext(w), ~Claim(w)
    PROVE  Records'
<1>1. at[w] # "idle"
    BY DEF WorkerNext, MarkRunning, PersistRunning, RunFlow, RunTool, RunRaises, SettleShared,
        WriteStatus, WriteOutput, MarkRaised
<1>2. PICK q \in Requests : q = Of(w) /\ (task[w] = Flow(q) \/ task[w] = Tool(q))
    BY <1>1, HandOf DEF Base
<1>3. /\ JobsOK /\ task \in [Workers -> Jobs \cup {None}] /\ DOMAIN shared = Requests
      /\ at \in [Workers -> {"idle", "mark", "persist", "run", "settle", "status", "output",
                           "retrying", "dead_letter"}]
      /\ outcome \in [Requests -> Terminal \cup {"none"}]
      /\ result \in [Workers -> Terminal \cup {"none"}]
    BY DEF Base, Typed, SubmissionTypeOK, RunTypes
<1>4. /\ \A v \in Workers \ {w} : at'[v] = at[v] /\ task'[v] = task[v]
      /\ runs' = runs
    BY <1>1, WorkerMoves
<1>5. /\ Flow(q)' = Flow(q) /\ Tool(q)' = Tool(q) /\ Flow(q) # Tool(q)
      /\ Flow(q) \in Jobs /\ Tool(q) \in Jobs
    BY JobsOfRequests DEF Flow, Tool
<1>6. /\ Active(w) => job[task[w]] = "running"
      /\ \A v \in Workers : Active(v) /\ Active(w) /\ task[v] = task[w] => v = w
      /\ at[w] = "dead_letter" => job[task[w]] = "dead"
    BY DEF Base, Hands
<1>7. /\ RecordOf(q) /\ (job[Tool(q)] # "absent" => Returned(q))
      /\ at[w] \in {"retrying", "dead_letter"} => task[w] = Flow(q)
      /\ at[w] = "retrying" => GivenBack(q)
      /\ \A j \in Jobs : job[j] = "running" => runs[j] >= 1
    BY <1>2 DEF Records, Starts
\* Before its graph has returned, nobody has returned it.
<1>8. at[w] \in {"mark", "persist", "run"} /\ task[w] = Flow(q) => ~Returned(q)
    BY <1>6 DEF Returned, Active
\* Steps that end in "mark" to "settle" and leave the jobs alone.
<1>a. ASSUME UNCHANGED <<job, task>>, Active(w), at'[w] \in {"persist", "run", "settle", "status", "output"},
             at[w] \in {"settle", "status", "output"} => at'[w] \in {"status", "output"}
      PROVE  /\ Returned(q) => Returned(q)'
             /\ GivenBack(q) => GivenBack(q)'
             /\ \A j \in {Flow(q), Tool(q)} : job'[j] = "running" => job[j] = "running"
             /\ job'[Tool(q)] # "absent" => job[Tool(q)] # "absent"
    BY <1>4, <1>5, <1>a DEF Returned, GivenBack
<1>b. ASSUME UNCHANGED task, at'[w] \in {"persist", "run", "settle"} PROVE Marking(q)'
    BY <1>2, <1>5, <1>b DEF Marking
<1>9. CASE MarkRunning(w)
    <2>1. /\ at[w] = "mark" /\ at'[w] = "persist" /\ UNCHANGED <<job, task, outcome>>
          /\ shared'[q] \in {"absent", "running"}
        BY <1>2, <1>3, <1>9 DEF MarkRunning, Move, Transition, queue
    <2>2. Active(w)
        BY <2>1 DEF Active
    <2>3. RecordOf(q)'
        BY <1>b, <2>1 DEF RecordOf
    <2>4. QED BY <1>1, <1>2, <1>a, <2>1, <2>2, <2>3, OwnRecord
<1>10. CASE PersistRunning(w) \/ RunTool(w)
    <2>1. /\ at[w] \in {"persist", "run"} /\ at'[w] \in {"run", "settle"}
          /\ UNCHANGED <<job, task, outcome, shared>>
        BY <1>3, <1>10 DEF PersistRunning, RunTool, Move, queue
    <2>2. Active(w)
        BY <2>1 DEF Active
    <2>3. RecordOf(q)'
        BY <1>5, <1>7, <1>a, <1>b, <2>1, <2>2, RecordKept
    <2>4. QED BY <1>1, <1>2, <1>a, <2>1, <2>2, <2>3, OwnRecord
<1>11. CASE RunFlow(w)
    <2>1. /\ at[w] = "run" /\ at'[w] = "settle" /\ UNCHANGED <<task, shared>>
          /\ task[w] = Flow(q)
          /\ job' = job \/ (job[Tool(q)] = "absent" /\ job' = [job EXCEPT ![Tool(q)] = "waiting"])
        BY <1>2, <1>3, <1>11 DEF RunFlow, Move, queue, Queue!Submit, Queue!Move
    <2>2. /\ job'[Flow(q)] = job[Flow(q)] /\ job'[Tool(q)] \in {job[Tool(q)], "waiting"}
        BY <1>3, <1>5, <2>1 DEF JobsOK, Jobs
    <2>3. Returned(q)' /\ ~Returned(q) /\ job[Tool(q)] = "absent"
        BY <1>5, <1>7, <1>8, <2>1 DEF Returned
    <2>4. GivenBack(q) => GivenBack(q)'
        BY <1>4, <1>5, <2>2 DEF GivenBack
    <2>5. RecordOf(q)'
        BY <1>5, <1>7, <1>b, <2>1, <2>2, <2>3, <2>4, RecordKept
    <2>6. \A j \in {Flow(q), Tool(q)} : job'[j] = "running" => job[j] = "running"
        BY <2>2
    <2>7. QED BY <1>1, <1>2, <2>1, <2>3, <2>4, <2>5, <2>6, OwnRecord
<1>12. CASE SettleShared(w)
    <2>1. /\ at[w] = "settle" /\ at'[w] = "status" /\ UNCHANGED <<job, task, outcome>>
          /\ shared'[q] \in {"absent", result[w]}
        BY <1>2, <1>3, <1>12 DEF SettleShared, Move, Transition, queue
    <2>2. Active(w)
        BY <2>1 DEF Active
    <2>3. \/ task[w] = Flow(q) /\ result[w] = outcome[q] /\ Returned(q)
          \/ task[w] = Tool(q) /\ result[w] = "completed" /\ job[Tool(q)] # "absent" /\ Returned(q)
        BY <1>2, <1>6, <1>7, <2>1, <2>2 DEF Told, Reported, Returned
    <2>4. Returned(q)' /\ job'[Tool(q)] = job[Tool(q)]
        BY <1>a, <2>1, <2>2, <2>3
    <2>5. RecordOf(q)'
        BY <1>5, <2>1, <2>3, <2>4 DEF RecordOf
    <2>6. QED BY <1>1, <1>2, <1>a, <2>1, <2>2, <2>5, OwnRecord
<1>13. CASE WriteStatus(w)
    <2>1. /\ at[w] = "status" /\ at'[w] = "output" /\ UNCHANGED <<job, task, outcome, shared>>
        BY <1>3, <1>13 DEF WriteStatus, Move, queue
    <2>2. Active(w)
        BY <2>1 DEF Active
    <2>3. Marking(q) => Marking(q)'
        BY <1>4, <1>5, <2>1 DEF Marking
    <2>4. RecordOf(q)'
        BY <1>5, <1>7, <1>a, <2>1, <2>2, <2>3, RecordKept
    <2>5. QED BY <1>1, <1>2, <1>a, <2>1, <2>2, <2>4, OwnRecord
<1>14. CASE WriteOutput(w)
    <2>1. /\ at[w] = "output" /\ at'[w] = "idle" /\ job' = [job EXCEPT ![task[w]] = "finished"]
          /\ UNCHANGED <<outcome, shared>>
        BY <1>3, <1>14 DEF WriteOutput, Move, Drop, Queue!Finish, Queue!Move
    <2>2. /\ \A j \in {Flow(q), Tool(q)} : job'[j] = IF j = task[w] THEN "finished" ELSE job[j]
          /\ job[task[w]] = "running"
        BY <1>3, <1>5, <1>6, <2>1 DEF JobsOK, Jobs, Active
    <2>3. Returned(q) => Returned(q)'
        BY <1>4, <1>5, <2>2 DEF Returned
    <2>4. GivenBack(q) => GivenBack(q)'
        BY <1>4, <1>5, <2>2 DEF GivenBack
    <2>5. Marking(q) => Marking(q)'
        BY <1>4, <1>5, <2>1 DEF Marking
    <2>6. RecordOf(q)'
        BY <1>5, <1>7, <2>1, <2>2, <2>3, <2>4, <2>5, RecordKept
    <2>7. /\ \A j \in {Flow(q), Tool(q)} : job'[j] = "running" => job[j] = "running"
          /\ job'[Tool(q)] # "absent" => job[Tool(q)] # "absent"
        BY <2>2
    <2>8. QED BY <1>1, <1>2, <2>1, <2>3, <2>4, <2>6, <2>7, OwnRecord
<1>15. CASE RunRaises(w)
    <2>1. /\ at[w] = "run" /\ task[w] = Flow(q) /\ UNCHANGED <<task, outcome, shared>>
          /\ \/ at'[w] = "retrying" /\ job' = [job EXCEPT ![Flow(q)] = "waiting"]
             \/ at'[w] = "dead_letter" /\ job' = [job EXCEPT ![Flow(q)] = "dead"]
        BY <1>2, <1>3, <1>15 DEF RunRaises, Move, Queue!GiveBack, Queue!Bury, Queue!Move
    <2>2. /\ job'[Tool(q)] = job[Tool(q)] /\ job[Flow(q)] = "running"
          /\ job'[Flow(q)] = IF at'[w] = "retrying" THEN "waiting" ELSE "dead"
        BY <1>3, <1>5, <1>6, <2>1 DEF JobsOK, Jobs, Active
    <2>3. ~Returned(q) /\ runs[Flow(q)] >= 1
        BY <1>5, <1>7, <1>8, <2>1, <2>2
    <2>4. /\ GivenBack(q) => GivenBack(q)'
          /\ at'[w] = "retrying" => GivenBack(q)'
        BY <1>4, <1>5, <2>2, <2>3 DEF GivenBack
    <2>5. at'[w] = "dead_letter" => Marking(q)'
        BY <1>5, <2>1 DEF Marking
    <2>6. (job[Flow(q)] = "waiting" \/ Marking(q))'
        BY <1>5, <2>1, <2>2, <2>5
    <2>7. RecordOf(q)'
        BY <1>5, <1>7, <2>1, <2>2, <2>3, <2>4, <2>6, RecordKept
    <2>8. \A j \in {Flow(q), Tool(q)} : job'[j] = "running" => job[j] = "running"
        BY <2>2
    <2>9. QED BY <1>1, <1>2, <2>1, <2>2, <2>3, <2>4, <2>7, <2>8, OwnRecord
<1>16. CASE MarkRaised(w)
    <2>1. /\ at[w] \in {"retrying", "dead_letter"} /\ at'[w] = "idle" /\ UNCHANGED <<job, outcome>>
          /\ shared'[q] \in {"absent", at[w]}
        BY <1>2, <1>3, <1>16 DEF MarkRaised, Move, Drop, Transition, queue
    <2>2. Returned(q) => Returned(q)'
        BY <1>4, <1>5, <2>1 DEF Returned
    <2>3. GivenBack(q) => GivenBack(q)'
        BY <1>4, <1>5, <2>1 DEF GivenBack
    <2>4. RecordOf(q)'
        BY <1>5, <1>6, <1>7, <2>1, <2>3 DEF RecordOf
    <2>5. QED BY <1>1, <1>2, <2>1, <2>2, <2>3, <2>4, OwnRecord
<1>17. QED
    BY <1>9, <1>10, <1>11, <1>12, <1>13, <1>14, <1>15, <1>16 DEF WorkerNext

\* The shared record of an execution whose jobs are over tells how they ended,
\* unless it was made too late or the worker that gave the job back wrote last.
THEOREM RecordsTell == SpecAll => []RecordTells
<1>1. Base /\ Base' /\ Told /\ Records /\ [NextAll]_allVars => Records'
    <2>0. SUFFICES ASSUME Base, Base', Told, Records, [NextAll]_allVars PROVE Records'
        OBVIOUS
    <2>1. CASE UNCHANGED allVars
        BY <2>0, <2>1, OthersRecord DEF allVars, vars, queue, running, polling
    <2>2. ASSUME NEW r \in Requests, Api(r) PROVE Records'
        <3>1. /\ UNCHANGED <<at, task, outcome, runs>>
              /\ shared' = shared \/ shared' = [shared EXCEPT ![r] = "queued"]
              /\ job' = job \/ (job[Flow(r)] = "absent" /\ job' = [job EXCEPT ![Flow(r)] = "waiting"])
            BY <2>2 DEF Api, CheckQuota, Submit, Lookup, Reject, Create, CreateLifecycle, Publish,
                Register, FindDict, MakeDict, ReadCount, WriteCount, running, queue,
                Queue!Submit, Queue!Move
        <3>2. \A q \in Requests : shared'[q] = shared[q] \/ shared'[q] = "queued"
            BY <2>0, <3>1 DEF Base, Typed, SubmissionTypeOK
        <3>3. QED BY <2>0, <3>1, <3>2, OthersRecord
    <2>3. ASSUME NEW r \in Requests, Elapse(r) PROVE Records'
        BY <2>0, <2>3, OthersRecord DEF Elapse, running, queue
    <2>4. ASSUME NEW p \in Pollers, Refresh(p) PROVE Records'
        <3>1. UNCHANGED <<at, task, outcome, runs, job, shared>>
            BY <2>4 DEF Refresh, Decide, RefreshStatus, RefreshOutput, RefreshHistory, vars,
                running, queue
        <3>2. QED BY <2>0, <3>1, OthersRecord
    <2>5. QED BY <2>0, <2>1, <2>2, <2>3, <2>4, ClaimRecords, WorkerRecords DEF NextAll
<1>2. Base /\ Records => RecordTells
    <2>0. SUFFICES ASSUME Base, Records, NEW r \in Requests
                   PROVE  /\ job[Flow(r)] = "finished" /\ job[Tool(r)] \in {"absent", "finished"} =>
                                \/ shared[r] \in {"absent", "queued", outcome[r]}
                                \/ shared[r] = "completed" /\ job[Tool(r)] = "finished"
                                \/ shared[r] = "retrying" /\ runs[Flow(r)] > 1
                          /\ job[Flow(r)] = "dead" =>
                                \/ shared[r] \in {"absent", "queued", "dead_letter"}
                                \/ shared[r] = "retrying" /\ runs[Flow(r)] > 1
                                \/ \E w \in Workers : task[w] = Flow(r) /\ at[w] = "dead_letter"
        BY DEF RecordTells
    <2>1. RecordOf(r)
        BY <2>0 DEF Records
    <2>2. \A w \in Workers :
            /\ at[w] \in {"mark", "persist", "run", "settle", "status", "output"} => job[task[w]] = "running"
            /\ at[w] = "dead_letter" => job[task[w]] = "dead"
        BY <2>0 DEF Base, Hands, Active
    <2>3. CASE job[Flow(r)] = "finished" /\ job[Tool(r)] \in {"absent", "finished"}
        <3>1. ~Marking(r)
            BY <2>2, <2>3 DEF Marking
        <3>2. QED BY <2>1, <2>3, <3>1 DEF RecordOf, GivenBack
    <2>4. CASE job[Flow(r)] = "dead"
        <3>1. ~Returned(r)
            BY <2>2, <2>4 DEF Returned
        <3>2. job[Tool(r)] = "absent"
            BY <2>0, <3>1 DEF Records, Starts
        <3>3. Marking(r) => \E w \in Workers : task[w] = Flow(r) /\ at[w] = "dead_letter"
            BY <2>2, <2>4, <3>2 DEF Marking
        <3>4. QED BY <2>1, <2>4, <3>1, <3>3 DEF RecordOf, GivenBack
    <2>5. QED BY <2>3, <2>4
<1>3. QED BY <1>1, <1>2, InitRecords, ToldKeeps, BaseKeeps, PTL DEF SpecAll

----------------------------------------------------------------------------
(* The submission, among workers and pollers *)

\* What a request has created is told by its own steps, so a step of a worker, a
\* clock or a poller creates and forgets no execution.
LEMMA OthersCreateNothing ==
    ASSUME Typed, Typed', api' = api
    PROVE  Created' = Created
<1>1. UNCHANGED <<step, reply>>
    BY DEF api
<1>2. \A r \in Requests : (r \in Created)' <=> r \in Created
    BY <1>1 DEF Typed, SubmissionTypeOK
<1>3. Created \subseteq Requests /\ Created' \subseteq Requests
    BY DEF Created
<1>4. QED BY <1>2, <1>3

\* What Submission promises of the requests alone holds while the jobs they
\* publish are run, raise, retry and are polled: a sequential retry creates no
\* second execution, answers name findable executions, and the quota is
\* overshot by the requests in flight at most, apart from executions metered
\* while another was.
THEOREM SubmissionThroughout ==
    SpecAll => [](SequentialRetriesReplay /\ AnswersExist /\ QuotaOvershootBounded)
<1> DEFINE Promises == KeyedReplay /\ NamesFindable /\ Quota
<1>1. InitAll => Promises
    BY InitReplay, InitNames, InitQuota DEF InitAll
<1>2. Base /\ Base' /\ Promises /\ [NextAll]_allVars => Promises'
    <2>0. SUFFICES ASSUME Base, Base', Promises, [NextAll]_allVars PROVE Promises'
        OBVIOUS
    <2>1. Typed /\ Typed'
        BY <2>0 DEF Base
    <2>2. ASSUME NEW r \in Requests, Api(r) PROVE Promises'
        BY <2>0, <2>1, <2>2, StepReplay, StepNames, StepQuota DEF Api, ApiNext
    <2>3. CASE api' = api
        <3>1. /\ Created' = Created
              /\ UNCHANGED <<step, reply, keyOf, dict, counts, meter, overlapped, earlier>>
            BY <2>1, <2>3, OthersCreateNothing DEF api, usage
        <3>2. Metered' = Metered /\ InFlight' = InFlight /\ Metering' = Metering
            BY <3>1 DEF Metered, InFlight, Metering
        <3>3. KeyedReplay'
            BY <2>0, <3>1 DEF KeyedReplay
        <3>4. NamesFindable'
            BY <2>0, <3>1 DEF NamesFindable, Findable
        <3>5. Quota'
            <4>1. Ledger' /\ Counted' = Counted
                BY <2>0, <3>1, <3>2, LedgerKept DEF Quota, Counted
            <4>2. QED BY <2>0, <3>2, <4>1, QuotaShrinks
        <3>6. QED BY <3>3, <3>4, <3>5
    <2>4. UNCHANGED allVars \/ (\E r \in Requests : Elapse(r)) => api' = api
        BY DEF allVars, vars, Elapse
    <2>5. ASSUME NEW p \in Pollers, Refresh(p) PROVE api' = api
        BY <2>0, <2>5, PollerMoves DEF Base
    <2>6. ASSUME NEW w \in Workers, WorkerNext(w) PROVE api' = api
        BY <2>0, <2>6, OneWorkerMoves DEF Base
    <2>7. QED BY <2>0, <2>2, <2>3, <2>4, <2>5, <2>6 DEF NextAll
<1>3. Base /\ Promises => SequentialRetriesReplay /\ AnswersExist /\ QuotaOvershootBounded
    BY ReplayedAre, AnswersAre, OvershotIs DEF Base
<1>4. QED BY <1>1, <1>2, <1>3, BaseKeeps, PTL DEF SpecAll
=============================================================================
