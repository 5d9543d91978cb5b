----------------------------- MODULE ToolCalls ------------------------------
(***************************************************************************)
(* Calls of one tool (tools/registry.py, run_tool) in its four modes, the    *)
(* quota that each checks before and charges after (tools/quota.py), kept in *)
(* memory, in Redis or in the database, and the admin requests that set it   *)
(* (api/v1/admin.py).                                                       *)
(*                                                                         *)
(* Inline runs a synchronous tool in a thread pool, async awaits it, process *)
(* spawns a child, container runs docker.  A tool may never end.  A charge   *)
(* counts one execution and some CPU time, 1 or 0 here.  Redis and the       *)
(* database may raise at any access, before or after they applied it; their  *)
(* clients send a command once.                                            *)
(***************************************************************************)
EXTENDS Integers, Sequences, FiniteSets

CONSTANTS
    Calls,          \* the calls of run_tool
    Setters,        \* the requests POST /admin/quotas/{tool_name}
    None,           \* no limit; nothing read
    Modes,          \* the modes each call may have
    Set,            \* what each setter sends: [limit, cpuLimit]
    Limit, CpuLimit, \* the limits of executions and of CPU time
    MaxInFlight,    \* bound on the calls in progress at once
    Faulty          \* bound: the calls and setters whose store may raise

Mode == {"inline", "async", "process", "container"}
Sandboxed == {"process", "container"}

ASSUME ModesAreModes == Modes \in [Calls -> SUBSET Mode]
ASSUME SetsAreLimits ==
    Set \in [Setters -> [limit : {None, Limit}, cpuLimit : {None, CpuLimit}]]
ASSUME LimitsAreNatural == {Limit, CpuLimit} \subseteq Nat /\ None \notin Int
ASSUME CallsAreNoSetters == Calls \cap Setters = {}
ASSUME InFlightIsPositive == MaxInFlight \in Nat \ {0}

VARIABLES
    found,          \* whether there is a module of the tool's name
    backend,        \* where the quota is kept: "memory", "redis", "db"
    quota,          \* the quota: [stored, limit, cpuLimit, used, cpu]
    at,             \* the stage of each call
    mode,           \* the mode of each call
    tool,           \* what runs the tool for each call
    due,            \* the charges a call has still to record, as CPU times
    verdict,        \* what each call is going to answer, or answered
    read,           \* the quota a call or a setter has read to change it
    setter,         \* the stage of each setter
    metric,         \* the tool_executions_total events of each call
    charges,        \* history: how many charges each call recorded
    recorded,       \* history: what all the charges recorded amount to
    under,          \* history: the limit each call was admitted under
    overlapped      \* history: two read-modify-writes overlapped

store == <<backend, quota, read, overlapped>>
history == <<charges, recorded, under>>
call == <<at, mode, tool, due, verdict, metric>>
vars == <<found, store, call, setter, history>>

NoQuota == [stored |-> FALSE, limit |-> None, cpuLimit |-> None, used |-> 0, cpu |-> 0]

Init ==
    /\ found \in BOOLEAN
    /\ backend \in {"memory", "redis", "db"}
    /\ quota = NoQuota
    /\ at = [c \in Calls |-> "new"]
    /\ mode = [c \in Calls |-> None]
    /\ tool = [c \in Calls |-> "none"]
    /\ due = [c \in Calls |-> <<>>]
    /\ verdict = [c \in Calls |-> "none"]
    /\ read = [p \in Calls \cup Setters |-> None]
    /\ setter = [s \in Setters |-> "new"]
    /\ metric = [c \in Calls |-> <<>>]
    /\ charges = [c \in Calls |-> 0]
    /\ recorded = [used |-> 0, cpu |-> 0]
    /\ under = [c \in Calls |-> None]
    /\ overlapped = FALSE

Goto(c, s) == at' = [at EXCEPT ![c] = s]
InFlight == {c \in Calls : at[c] \notin {"new", "answered"}}
MayRaise(p) == backend # "memory" /\ p \in Faulty
Observe(c, status) == metric' = [metric EXCEPT ![c] = Append(@, status)]

\* The end of a call, with an answer that is now known.
Answer(c, v) == Goto(c, "answered") /\ verdict' = [verdict EXCEPT ![c] = v]

----------------------------------------------------------------------------
(* run_tool up to the call *)

\* _resolve_tool_spec finds no module.
NotFound(c) ==
    /\ at[c] = "new" /\ ~found
    /\ Answer(c, "refused")
    /\ UNCHANGED <<found, store, mode, tool, due, metric, setter, history>>

Reached(used, limit) == limit # None /\ used >= limit
Exceeded == Reached(quota.used, quota.limit) \/ Reached(quota.cpu, quota.cpuLimit)

\* A quota that cannot be read refuses the call like one that is exceeded.
Refuse(c) ==
    /\ at[c] = "new" /\ found /\ (Exceeded \/ MayRaise(c))
    /\ Answer(c, "refused")
    /\ UNCHANGED <<found, store, mode, tool, due, metric, setter, history>>

\* Mutant of Begin: the limit itself still passes.
BeginAtLimit(c) ==
    /\ at[c] = "new" /\ found
    /\ quota.limit # None => quota.used <= quota.limit
    /\ Cardinality(InFlight) < MaxInFlight
    /\ \E m \in Modes[c] : mode' = [mode EXCEPT ![c] = m]
    /\ tool' = [tool EXCEPT ![c] = "running"]
    /\ under' = [under EXCEPT ![c] = quota.limit]
    /\ Goto(c, "call")
    /\ UNCHANGED <<found, store, due, verdict, metric, setter, charges, recorded>>

\* check_quota passes, and the tool starts.
Begin(c) ==
    /\ at[c] = "new" /\ found /\ ~Exceeded
    /\ Cardinality(InFlight) < MaxInFlight
    /\ \E m \in Modes[c] : mode' = [mode EXCEPT ![c] = m]
    /\ tool' = [tool EXCEPT ![c] = "running"]
    /\ under' = [under EXCEPT ![c] = quota.limit]
    /\ Goto(c, "call")
    /\ UNCHANGED <<found, store, due, verdict, metric, setter, charges, recorded>>

\* There is no docker: FileNotFoundError, before any metric.
NoDocker(c) ==
    /\ at[c] = "call" /\ mode[c] = "container" /\ tool[c] = "running"
    /\ tool' = [tool EXCEPT ![c] = "none"]
    /\ Answer(c, "failed")
    /\ UNCHANGED <<found, store, mode, due, metric, setter, history>>

----------------------------------------------------------------------------
(* The tool *)

\* How a tool may end.  A child whose result is larger than the pipe stays
\* alive until somebody reads it; a child may end without a result, and so may
\* a container, which the caller treats like an error.
Ends(m) ==
    CASE m = "process" -> {"ok", "error", "crashed", "stuck"}
      [] OTHER -> {"ok", "error"}

ToolEnds(c) ==
    /\ tool[c] = "running"
    /\ \E e \in Ends(mode[c]) : tool' = [tool EXCEPT ![c] = e]
    /\ UNCHANGED <<found, store, at, mode, due, verdict, metric, setter, history>>

\* Mutant of Charges: a container that succeeded is not charged.
ChargesFailuresOnly(m, e) ==
    CASE m = "process" -> [ok |-> <<1, 1>>, error |-> <<1, 0>>, crashed |-> <<0>>][e]
      [] m = "container" -> [ok |-> <<>>, error |-> <<0>>][e]
      [] OTHER -> <<>>

\* What a call records once its tool ended: a process twice, inline never.
Charges(m, e) ==
    CASE m = "process" -> [ok |-> <<1, 1>>, error |-> <<1, 0>>, crashed |-> <<0>>][e]
      [] m = "container" -> [ok |-> <<1>>, error |-> <<0>>][e]
      [] OTHER -> <<>>

\* The call sees that its tool ended: metric, charges, answer.
Collect(c) ==
    /\ at[c] = "call" /\ tool[c] \in {"ok", "error", "crashed"}
    /\ Observe(c, IF tool[c] = "ok" THEN "success" ELSE "failure")
    /\ due' = [due EXCEPT ![c] = Charges(mode[c], tool[c])]
    /\ verdict' = [verdict EXCEPT ![c] = IF tool[c] = "ok" THEN "ok" ELSE "failed"]
    /\ tool' = [tool EXCEPT ![c] = "none"]
    /\ Goto(c, IF Charges(mode[c], tool[c]) # <<>> THEN "record" ELSE "answered")
    /\ UNCHANGED <<found, store, mode, setter, history>>

\* Mutant of Timeout: the child is left running.
TimeoutLeavesChild(c) ==
    /\ at[c] = "call" /\ mode[c] \in Sandboxed
    /\ tool[c] \in {"running", "stuck"}
    /\ Observe(c, "failure")
    /\ Answer(c, "timeout")
    /\ UNCHANGED <<found, store, mode, tool, due, setter, history>>

\* Mutant of Timeout: the child is joined without a timeout.
TimeoutOfContainer(c) ==
    /\ at[c] = "call" /\ mode[c] = "container" /\ tool[c] = "running"
    /\ Observe(c, "failure")
    /\ Answer(c, "timeout")
    /\ UNCHANGED <<found, store, mode, tool, due, setter, history>>

\* timeout_seconds pass: a child is terminated and joined, the docker client is
\* killed and leaves its container.  Neither is charged.
Timeout(c) ==
    /\ at[c] = "call" /\ mode[c] \in Sandboxed
    /\ tool[c] \in {"running", "stuck"}
    /\ Observe(c, "failure")
    /\ Answer(c, "timeout")
    /\ tool' = IF mode[c] = "process" THEN [tool EXCEPT ![c] = "none"] ELSE tool
    /\ UNCHANGED <<found, store, mode, due, setter, history>>

\* An inline call times out, but leaving the thread pool waits for the tool.
InlineTimeout(c) ==
    /\ at[c] = "call" /\ mode[c] = "inline" /\ tool[c] = "running"
    /\ Observe(c, "failure")
    /\ Goto(c, "late")
    /\ UNCHANGED <<found, store, mode, tool, due, verdict, setter, history>>

LateEnd(c) ==
    /\ at[c] = "late" /\ tool[c] # "running"
    /\ Answer(c, "timeout")
    /\ UNCHANGED <<found, store, mode, tool, due, metric, setter, history>>

----------------------------------------------------------------------------
(* record_usage and set_quota *)

\* The first half of a read-modify-write: Redis's HGET, a session's SELECT.
Read(p) ==
    /\ backend # "memory" /\ read[p] = None
    /\ read' = [read EXCEPT ![p] = quota]
    /\ overlapped' = (overlapped \/ \E q \in DOMAIN read : read[q] # None)
    /\ UNCHANGED <<found, backend>>
Forget(p) == read' = [read EXCEPT ![p] = None] /\ UNCHANGED <<backend, overlapped>>

Charged(q, cpu) == [q EXCEPT !.stored = TRUE, !.used = @ + 1, !.cpu = @ + cpu]

\* A row that was read is updated in the columns that changed.  One that was
\* absent is written whole: if it exists by now, its other columns are reset,
\* or the INSERT raises (RecordFails, SetFails).
Merged(p, new, columns) ==
    IF read[p].stored
    THEN [f \in DOMAIN quota |-> IF f \in columns THEN new[f] ELSE quota[f]]
    ELSE new

RecordRead(c) ==
    /\ at[c] = "record" /\ Read(c)
    /\ UNCHANGED <<quota, call, setter, history>>

\* Mutant of Charge: Redis's count is written as it was read, too.
ChargeCountRead(c) ==
    LET cpu == Head(due[c]) IN
    /\ at[c] = "record" /\ (backend # "memory" => read[c] # None)
    /\ quota' = IF backend = "memory" THEN Charged(quota, cpu)
                ELSE Merged(c, Charged(read[c], cpu), {"used", "cpu"})
    /\ charges' = [charges EXCEPT ![c] = @ + 1]
    /\ recorded' = [used |-> recorded.used + 1, cpu |-> recorded.cpu + cpu]
    /\ Forget(c)
    /\ UNCHANGED <<found, mode, tool, metric, setter, under>>

\* In memory under the lock; in Redis a pipeline of HINCRBY and of HSET with
\* the CPU time read before; in the database the commit of a merged row.
Charge(c) ==
    LET cpu == Head(due[c]) IN
    /\ at[c] = "record" /\ (backend # "memory" => read[c] # None)
    /\ quota' = CASE backend = "memory" -> Charged(quota, cpu)
                  [] backend = "redis" ->
                        [Charged(quota, cpu) EXCEPT !.cpu = read[c].cpu + cpu]
                  [] backend = "db" ->
                        Merged(c, Charged(read[c], cpu),
                               IF cpu = 0 THEN {"used"} ELSE {"used", "cpu"})
    /\ charges' = [charges EXCEPT ![c] = @ + 1]
    /\ recorded' = [used |-> recorded.used + 1, cpu |-> recorded.cpu + cpu]
    /\ Forget(c)
    /\ UNCHANGED <<found, mode, tool, metric, setter, under>>

Record(c) ==
    /\ Charge(c)
    /\ due' = [due EXCEPT ![c] = Tail(@)]
    /\ Goto(c, IF Len(due[c]) = 1 THEN "answered" ELSE "record")
    /\ UNCHANGED verdict

\* record_usage raises, and nothing in run_tool catches it: the call raises
\* instead of returning, with its other charge unrecorded.
Raises(c) == Answer(c, "failed") /\ due' = [due EXCEPT ![c] = <<>>]

RecordFails(c) ==
    /\ at[c] = "record" /\ MayRaise(c)
    /\ Raises(c) /\ Forget(c)
    /\ UNCHANGED <<found, quota, mode, tool, metric, setter, history>>

\* The charge was applied, but the store's answer was lost.
RecordUnheard(c) == MayRaise(c) /\ Charge(c) /\ Raises(c)

\* Only the limits that were sent change.
SetIn(q, s) ==
    [q EXCEPT !.stored = TRUE,
              !.limit = IF Set[s].limit = None THEN @ ELSE Set[s].limit,
              !.cpuLimit = IF Set[s].cpuLimit = None THEN @ ELSE Set[s].cpuLimit]
SentBy(s) == {f \in {"limit", "cpuLimit"} : Set[s][f] # None}

SetRead(s) ==
    /\ setter[s] = "new" /\ backend = "db" /\ Read(s)
    /\ UNCHANGED <<quota, call, setter, history>>

SetWrite(s) ==
    /\ setter[s] = "new" /\ (backend = "db" => read[s] # None)
    /\ quota' = IF backend = "db" THEN Merged(s, SetIn(read[s], s), SentBy(s))
                ELSE SetIn(quota, s)
    /\ Forget(s)
    /\ UNCHANGED <<found, call, history>>

SetQuota(s) == SetWrite(s) /\ setter' = [setter EXCEPT ![s] = "done"]
SetUnheard(s) == MayRaise(s) /\ SetWrite(s) /\ setter' = [setter EXCEPT ![s] = "failed"]

SetFails(s) ==
    /\ setter[s] = "new" /\ MayRaise(s)
    /\ setter' = [setter EXCEPT ![s] = "failed"]
    /\ Forget(s)
    /\ UNCHANGED <<found, quota, call, history>>

----------------------------------------------------------------------------

\* What the calling thread does once the call began.
Proceed(c) ==
    \/ Collect(c) \/ Timeout(c) \/ InlineTimeout(c) \/ LateEnd(c)
    \/ RecordRead(c) \/ Record(c) \/ RecordFails(c) \/ RecordUnheard(c)

Next ==
    \/ \E c \in Calls : NotFound(c) \/ Refuse(c) \/ Begin(c) \/ NoDocker(c)
                            \/ ToolEnds(c) \/ Proceed(c)
    \/ \E s \in Setters : SetRead(s) \/ SetQuota(s) \/ SetUnheard(s) \/ SetFails(s)

Spec == Init /\ [][Next]_vars

\* The calling threads run and their clocks tick; a tool need never end.
LiveSpec == Spec /\ \A c \in Calls : WF_vars(Proceed(c))

----------------------------------------------------------------------------
(* Properties *)

Over(c) == at[c] = "answered"

\* Types; a call has charges to record exactly while it records, and reads the
\* quota for nothing else.
ToolsTypeOK ==
    /\ DOMAIN quota = DOMAIN NoQuota
    /\ at \in [Calls -> {"new", "call", "late", "record", "answered"}]
    /\ mode \in [Calls -> Mode \cup {None}]
    /\ \A c \in Calls :
        /\ at[c] = "record" <=> due[c] # <<>>
        /\ read[c] # None => at[c] = "record"
        /\ at[c] = "late" => mode[c] = "inline"
        /\ Over(c) => verdict[c] \in {"ok", "failed", "timeout", "refused"}
    /\ \A s \in Setters : read[s] # None => setter[s] = "new"

\* No count is lost in memory or in Redis, whatever interleaves; a database
\* counts too little at most, and loses a count, a CPU time or a limit only
\* when two read-modify-writes overlap.
UsageKept ==
    /\ quota.used <= recorded.used /\ quota.cpu <= recorded.cpu
    /\ backend # "db" \/ ~overlapped => quota.used = recorded.used
    /\ backend = "memory" \/ ~overlapped => quota.cpu = recorded.cpu
    /\ ~overlapped =>
        /\ \A s \in Setters : setter[s] = "done" => \A f \in SentBy(s) : quota[f] = Set[s][f]
        /\ \A c \in Calls : under[c] # None => quota.limit # None

\* The check reads a count that the calls in flight have not raised: the calls
\* admitted under a limit and charged exceed it by less than those in flight.
\* (Database counts may be lost; inline runs and timeouts are never charged.)
QuotaBoundsRuns ==
    backend # "db" =>
        Cardinality({c \in Calls : under[c] # None /\ charges[c] > 0})
            <= Limit - 1 + MaxInFlight

\* A caller that gets a result finds it observed once as a success and charged:
\* twice for a process, once for a container, never else.  One that is told of a
\* timeout or of a refusal is charged nothing.  A success that is observed but
\* not returned is a sandboxed one that Redis or the database failed to charge,
\* or to say that it did.
AnswersAccounted ==
    \A c \in Calls : Over(c) =>
        /\ Len(metric[c]) <= 1
        /\ verdict[c] = "ok" =>
                /\ metric[c] = <<"success">>
                /\ charges[c] = CASE mode[c] = "process" -> 2
                                  [] mode[c] = "container" -> 1
                                  [] OTHER -> 0
        /\ verdict[c] \in {"timeout", "refused"} => charges[c] = 0
        /\ metric[c] = <<"success">> /\ verdict[c] # "ok" =>
                verdict[c] = "failed" /\ mode[c] \in Sandboxed /\ MayRaise(c)

\* Nothing of a call outlives its answer but the container of one that timed
\* out: no child process and no thread is left.
NothingLeftRunning ==
    \A c \in Calls : Over(c) /\ tool[c] \in {"running", "stuck"} =>
        mode[c] = "container" /\ verdict[c] = "timeout"

\* A sandboxed call is answered whatever its tool does, unless its child survives
\* terminate(), which is joined without a timeout; an inline one only if its tool
\* ends.
CallsAnswered ==
    \A c \in Calls :
        at[c] = "call" /\ (mode[c] \in Sandboxed \/ tool[c] # "running") ~> Over(c)
=============================================================================
