-------------------------- MODULE ToolCalls_proofs --------------------------
(***************************************************************************)
(* Proofs about ToolCalls, for any calls, setters, modes and bounds: what is *)
(* left of a call that was answered, how an answer is accounted for, that    *)
(* usage is lost only where two read-modify-writes overlap, and by how much  *)
(* calls that run together exceed a limit.                                   *)
(***************************************************************************)
EXTENDS ToolCalls, FiniteSetTheorems, TLAPS

----------------------------------------------------------------------------
(* The calls *)

\* What a call has observed and left behind at each stage.
Stage ==
    /\ at \in [Calls -> {"new", "call", "late", "record", "answered"}]
    /\ mode \in [Calls -> Mode \cup {None}]
    /\ tool \in [Calls -> {"none", "running", "ok", "error", "crashed", "stuck"}]
    /\ verdict \in [Calls -> {"none", "ok", "failed", "timeout", "refused"}]
    /\ metric \in [Calls -> Seq({"success", "failure"})]
    /\ charges \in [Calls -> Nat]

\* A tool runs for a call in progress, or in a container its caller gave up on;
\* only a child gets stuck or crashes.
ToolsBelong ==
    \A c \in Calls :
        /\ at[c] \in {"new", "record"} => tool[c] = "none"
        /\ at[c] \in {"call", "late", "record"} => mode[c] \in Mode
        /\ at[c] = "record" => mode[c] \in Sandboxed
        /\ tool[c] \in {"stuck", "crashed"} => mode[c] = "process"
        /\ tool[c] = "running" => mode[c] \in Mode
        /\ at[c] = "late" => mode[c] = "inline"
        /\ at[c] = "answered" /\ tool[c] \in {"running", "stuck"} =>
            mode[c] = "container" /\ verdict[c] = "timeout"

\* One event a call, whose success is the verdict unless its charge raised.
Observed ==
    \A c \in Calls :
        /\ at[c] \in {"new", "call"} => metric[c] = <<>>
        /\ at[c] \in {"late", "record", "answered"} => metric[c] \in {<<>>, <<"success">>, <<"failure">>}
        /\ at[c] = "late" => metric[c] = <<"failure">>
        /\ at[c] = "record" => (verdict[c] = "ok" <=> metric[c] = <<"success">>)
        /\ at[c] = "record" => verdict[c] \in {"ok", "failed"}
        /\ at[c] = "answered" => verdict[c] # "none"
        /\ at[c] = "answered" =>
            /\ verdict[c] = "ok" => metric[c] = <<"success">>
            /\ metric[c] = <<"success">> /\ verdict[c] # "ok" =>
                    verdict[c] = "failed" /\ mode[c] \in Sandboxed /\ MayRaise(c)

CallInv == Stage /\ ToolsBelong /\ Observed

\* At first no call is under way.
LEMMA InitCallInv == Init => CallInv
BY DEF Init, CallInv, Stage, ToolsBelong, Observed

\* Only a sandboxed tool is charged.
LEMMA SandboxedAreCharged ==
    \A m \in Mode, e \in {"ok", "error", "crashed"} : Charges(m, e) # <<>> => m \in Sandboxed
BY DEF Mode, Charges, Sandboxed

\* What tells the events of a call apart.
LEMMA EventsDiffer ==
    /\ <<>> # <<"success">> /\ <<>> # <<"failure">> /\ <<"success">> # <<"failure">>
    /\ Len(<<>>) = 0 /\ Len(<<"success">>) = 1 /\ Len(<<"failure">>) = 1
OBVIOUS

\* Every step keeps it.
LEMMA StepCallInv == CallInv /\ [Next]_vars => CallInv'
<1>0. SUFFICES ASSUME CallInv, [Next]_vars PROVE CallInv'
    OBVIOUS
<1> USE DEF Goto, Answer, Observe, Raises, MayRaise
<1>1. ASSUME UNCHANGED <<at, mode, tool, verdict, metric, charges, backend>> PROVE CallInv'
    BY <1>0, <1>1 DEF CallInv, Stage, ToolsBelong, Observed
<1>2. CASE UNCHANGED vars
    BY <1>1, <1>2 DEF vars, call, store, history
<1>3. ASSUME NEW s \in Setters, SetRead(s) \/ SetQuota(s) \/ SetUnheard(s) \/ SetFails(s)
      PROVE  CallInv'
    BY <1>1, <1>3
       DEF SetRead, SetQuota, SetUnheard, SetWrite, SetFails, Read, Forget, call, history
<1>5. ASSUME NEW c \in Calls, NotFound(c) \/ Refuse(c) PROVE CallInv'
    <2>1. /\ at[c] = "new" /\ at' = [at EXCEPT ![c] = "answered"]
          /\ verdict' = [verdict EXCEPT ![c] = "refused"]
          /\ UNCHANGED <<mode, tool, metric, charges, backend>>
        BY <1>5 DEF NotFound, Refuse, store, history
    <2>2. Stage'
        BY <1>0, <2>1 DEF CallInv, Stage
    <2>3. ToolsBelong'
        BY <1>0, <2>1 DEF CallInv, Stage, ToolsBelong, Mode
    <2>4. Observed'
        BY EventsDiffer, <1>0, <2>1 DEF CallInv, Stage, ToolsBelong, Observed
    <2>5. QED BY <2>2, <2>3, <2>4 DEF CallInv
<1>6. ASSUME NEW c \in Calls, Begin(c) PROVE CallInv'
    <2>1. /\ at[c] = "new" /\ at' = [at EXCEPT ![c] = "call"]
          /\ \E m \in Modes[c] : mode' = [mode EXCEPT ![c] = m]
          /\ tool' = [tool EXCEPT ![c] = "running"]
          /\ UNCHANGED <<verdict, metric, charges, backend>>
        BY <1>6 DEF Begin, store
    <2>2. Modes[c] \subseteq Mode
        BY ModesAreModes
    <2>3. Stage'
        BY <1>0, <2>1, <2>2 DEF CallInv, Stage
    <2>4. ToolsBelong'
        BY <1>0, <2>1, <2>2 DEF CallInv, Stage, ToolsBelong, Mode
    <2>5. Observed'
        BY EventsDiffer, <1>0, <2>1, <2>2 DEF CallInv, Stage, ToolsBelong, Observed
    <2>6. QED BY <2>3, <2>4, <2>5 DEF CallInv
<1>7. ASSUME NEW c \in Calls, NoDocker(c) PROVE CallInv'
    <2>1. /\ at[c] = "call" /\ at' = [at EXCEPT ![c] = "answered"]
          /\ verdict' = [verdict EXCEPT ![c] = "failed"]
          /\ tool' = [tool EXCEPT ![c] = "none"]
          /\ UNCHANGED <<mode, metric, charges, backend>>
        BY <1>7 DEF NoDocker, store, history
    <2>2. Stage'
        BY <1>0, <2>1 DEF CallInv, Stage
    <2>3. ToolsBelong'
        BY <1>0, <2>1 DEF CallInv, Stage, ToolsBelong, Mode
    <2>4. Observed'
        BY EventsDiffer, <1>0, <2>1 DEF CallInv, Stage, ToolsBelong, Observed
    <2>5. QED BY <2>2, <2>3, <2>4 DEF CallInv
<1>8. ASSUME NEW c \in Calls, ToolEnds(c) PROVE CallInv'
    <2>1. PICK e \in Ends(mode[c]) : tool' = [tool EXCEPT ![c] = e]
        BY <1>8 DEF ToolEnds
    <2>2. /\ tool[c] = "running"
          /\ UNCHANGED <<at, mode, verdict, metric, charges, backend>>
        BY <1>8 DEF ToolEnds, store, history
    <2>3. e \in {"ok", "error", "crashed", "stuck"} /\ (e \in {"stuck", "crashed"} => mode[c] = "process")
        BY <2>1 DEF Ends
    <2>4. at[c] # "answered" \/ mode[c] = "container"
        BY <1>0, <2>2 DEF CallInv, Stage, ToolsBelong
    <2>5. Stage'
        BY <1>0, <2>1, <2>2, <2>3, <2>4 DEF CallInv, Stage
    <2>6. ToolsBelong'
        BY <1>0, <2>1, <2>2, <2>3, <2>4 DEF CallInv, Stage, ToolsBelong, Mode
    <2>7. Observed'
        BY EventsDiffer, <1>0, <2>1, <2>2, <2>3, <2>4 DEF CallInv, Stage, ToolsBelong, Observed
    <2>8. QED BY <2>5, <2>6, <2>7 DEF CallInv
<1>9. ASSUME NEW c \in Calls, Collect(c) PROVE CallInv'
    <2>1. /\ at[c] = "call" /\ tool[c] \in {"ok", "error", "crashed"}
          /\ metric' = [metric EXCEPT ![c] = Append(@, IF tool[c] = "ok" THEN "success" ELSE "failure")]
          /\ verdict' = [verdict EXCEPT ![c] = IF tool[c] = "ok" THEN "ok" ELSE "failed"]
          /\ tool' = [tool EXCEPT ![c] = "none"]
          /\ UNCHANGED <<mode, charges, backend>>
        BY <1>9 DEF Collect, store, history
    <2>2. at' = [at EXCEPT ![c] = IF Charges(mode[c], tool[c]) # <<>> THEN "record" ELSE "answered"]
        BY <1>9 DEF Collect
    <2>3. mode[c] \in Mode /\ metric[c] = <<>>
        BY <1>0, <2>1 DEF CallInv, ToolsBelong, Observed
    <2>4. /\ metric'[c] = IF tool[c] = "ok" THEN <<"success">> ELSE <<"failure">>
          /\ metric' \in [Calls -> Seq({"success", "failure"})]
        BY <1>0, <2>1, <2>3 DEF CallInv, Stage
    <2>5. Stage'
        BY <1>0, <2>1, <2>2, <2>4 DEF CallInv, Stage
    <2>6. ToolsBelong'
        BY <1>0, <2>1, <2>2, <2>3, SandboxedAreCharged DEF CallInv, Stage, ToolsBelong
    <2>7. Observed'
        <3>1. /\ at'[c] \in {"record", "answered"} /\ verdict'[c] \in {"ok", "failed"}
              /\ verdict'[c] = "ok" <=> tool[c] = "ok"
              /\ mode'[c] = mode[c]
            BY <1>0, <2>1, <2>2 DEF CallInv, Stage
        <3>2. \A d \in Calls \ {c} : /\ at'[d] = at[d] /\ verdict'[d] = verdict[d]
                                     /\ metric'[d] = metric[d]
            BY <1>0, <2>1, <2>2 DEF CallInv, Stage
        <3>3. metric'[c] \in {<<>>, <<"success">>, <<"failure">>}
              /\ (metric'[c] = <<"success">> <=> tool[c] = "ok")
            BY <2>4, EventsDiffer
        <3>4. QED BY <1>0, <2>1, <3>1, <3>2, <3>3 DEF CallInv, Observed
    <2>8. QED BY <2>5, <2>6, <2>7 DEF CallInv
<1>10. ASSUME NEW c \in Calls, Timeout(c) \/ InlineTimeout(c) PROVE CallInv'
    <2>1. /\ at[c] = "call" /\ metric' = [metric EXCEPT ![c] = Append(@, "failure")]
          /\ UNCHANGED <<mode, charges, backend>>
        BY <1>10 DEF Timeout, InlineTimeout, store, history
    <2>2. metric[c] = <<>>
        BY <1>0, <2>1 DEF CallInv, Observed
    <2>3. metric'[c] = <<"failure">> /\ metric' \in [Calls -> Seq({"success", "failure"})]
        BY <1>0, <2>1, <2>2 DEF CallInv, Stage
    <2>4. CASE Timeout(c)
        <3>1. /\ mode[c] \in {"process", "container"}
              /\ at' = [at EXCEPT ![c] = "answered"]
              /\ verdict' = [verdict EXCEPT ![c] = "timeout"]
              /\ tool' = IF mode[c] = "process" THEN [tool EXCEPT ![c] = "none"] ELSE tool
            BY <2>4 DEF Timeout, Sandboxed
        <3>2. Stage'
            BY <1>0, <2>1, <2>3, <3>1 DEF CallInv, Stage
        <3>3. ToolsBelong'
            BY <1>0, <2>1, <2>3, <3>1 DEF CallInv, Stage, ToolsBelong, Mode
        <3>4. Observed'
            BY EventsDiffer, <1>0, <2>1, <2>3, <3>1 DEF CallInv, Stage, ToolsBelong, Observed
        <3>5. QED BY <3>2, <3>3, <3>4 DEF CallInv
    <2>5. CASE InlineTimeout(c)
        <3>1. /\ mode[c] = "inline" /\ at' = [at EXCEPT ![c] = "late"]
              /\ UNCHANGED <<tool, verdict>>
            BY <2>5 DEF InlineTimeout
        <3>2. Stage'
            BY <1>0, <2>1, <2>3, <3>1 DEF CallInv, Stage
        <3>3. ToolsBelong'
            BY <1>0, <2>1, <2>3, <3>1 DEF CallInv, Stage, ToolsBelong, Mode
        <3>4. Observed'
            BY EventsDiffer, <1>0, <2>1, <2>3, <3>1 DEF CallInv, Stage, ToolsBelong, Observed
        <3>5. QED BY <3>2, <3>3, <3>4 DEF CallInv
    <2>6. QED BY <1>10, <2>4, <2>5
<1>11. ASSUME NEW c \in Calls, LateEnd(c) PROVE CallInv'
    <2>1. /\ at[c] = "late" /\ tool[c] # "running" /\ at' = [at EXCEPT ![c] = "answered"]
          /\ verdict' = [verdict EXCEPT ![c] = "timeout"]
          /\ UNCHANGED <<mode, tool, metric, charges, backend>>
        BY <1>11 DEF LateEnd, store, history
    <2>2. mode[c] = "inline" /\ tool[c] # "stuck" /\ metric[c] = <<"failure">>
        BY <1>0, <2>1 DEF CallInv, ToolsBelong, Observed
    <2>3. Stage'
        BY <1>0, <2>1, <2>2 DEF CallInv, Stage
    <2>4. ToolsBelong'
        BY <1>0, <2>1, <2>2 DEF CallInv, Stage, ToolsBelong, Mode
    <2>5. Observed'
        BY EventsDiffer, <1>0, <2>1, <2>2 DEF CallInv, Stage, ToolsBelong, Observed
    <2>6. QED BY <2>3, <2>4, <2>5 DEF CallInv
<1>12. ASSUME NEW c \in Calls, RecordRead(c) PROVE CallInv'
    BY <1>1, <1>12 DEF RecordRead, Read, call, history
<1>13. ASSUME NEW c \in Calls, Record(c) \/ RecordFails(c) \/ RecordUnheard(c) PROVE CallInv'
    <2>1. /\ at[c] = "record" /\ UNCHANGED <<mode, tool, metric, backend>>
          /\ charges' = charges \/ charges' = [charges EXCEPT ![c] = @ + 1]
          /\ \/ /\ at' = [at EXCEPT ![c] = "answered"] \/ at' = [at EXCEPT ![c] = "record"]
                /\ verdict' = verdict
             \/ /\ at' = [at EXCEPT ![c] = "answered"] /\ MayRaise(c)
                /\ verdict' = [verdict EXCEPT ![c] = "failed"]
        BY <1>13 DEF Record, RecordFails, RecordUnheard, Charge, Forget, history
    <2>2. charges' \in [Calls -> Nat]
        BY <1>0, <2>1 DEF CallInv, Stage
    <2>3. /\ at' \in [Calls -> {"new", "call", "late", "record", "answered"}]
          /\ verdict' \in [Calls -> {"none", "ok", "failed", "timeout", "refused"}]
          /\ \A d \in Calls \ {c} : at'[d] = at[d] /\ verdict'[d] = verdict[d]
          /\ at'[c] \in {"answered", "record"}
          /\ verdict'[c] = verdict[c] \/ (verdict'[c] = "failed" /\ at'[c] = "answered" /\ MayRaise(c))
        BY <1>0, <2>1 DEF CallInv, Stage
    <2>4. Stage'
        BY <1>0, <2>1, <2>2, <2>3 DEF CallInv, Stage
    <2>5. ToolsBelong'
        BY <1>0, <2>1, <2>3 DEF CallInv, Stage, ToolsBelong
    <2>6. Observed'
        BY <1>0, <2>1, <2>3, EventsDiffer DEF CallInv, ToolsBelong, Observed
    <2>7. QED BY <2>4, <2>5, <2>6 DEF CallInv
<1>14. QED BY <1>0, <1>2, <1>3, <1>5, <1>6, <1>7, <1>8, <1>9, <1>10, <1>11, <1>12, <1>13
           DEF Next, Proceed

\* So it holds in every state.
LEMMA CallsKeep == Spec => []CallInv
BY InitCallInv, StepCallInv, PTL DEF Spec

\* No child process and no thread outlives the answer of its call; a container
\* does when the call timed out.
THEOREM NothingOutlives == Spec => []NothingLeftRunning
<1>1. CallInv => NothingLeftRunning
    BY DEF CallInv, ToolsBelong, NothingLeftRunning, Over
<1>2. QED BY <1>1, CallsKeep, PTL

----------------------------------------------------------------------------
(* The quota *)

Quotas == [stored : BOOLEAN, limit : {None, Limit}, cpuLimit : {None, CpuLimit},
           used : Nat, cpu : Nat]
Users == Calls \cup Setters

QuotaTypes ==
    /\ backend \in {"memory", "redis", "db"}
    /\ quota \in Quotas
    /\ read \in [Users -> Quotas \cup {None}]
    /\ recorded \in [used : Nat, cpu : Nat]
    /\ overlapped \in BOOLEAN
    /\ setter \in [Setters -> {"new", "done", "failed"}]
    /\ under \in [Calls -> {None, Limit}]
    /\ due \in [Calls -> Seq({0, 1})]
    /\ \A c \in Calls : at[c] = "record" => due[c] # <<>>

\* Nothing that was read or stored counts more than was recorded.
NeverMore ==
    /\ quota.used <= recorded.used /\ quota.cpu <= recorded.cpu
    /\ \A p \in Users : read[p] # None =>
        read[p].used <= recorded.used /\ read[p].cpu <= recorded.cpu

\* What cannot be lost.
Exact ==
    /\ backend # "db" => quota.used = recorded.used
    /\ backend = "memory" => quota.cpu = recorded.cpu

\* Until two overlap, one has read at most, and what it read still holds.
OneReader ==
    /\ backend = "memory" => \A p \in Users : read[p] = None
    /\ ~overlapped =>
        /\ \A p, q \in Users : read[p] # None /\ read[q] # None => p = q
        /\ \A p \in Users : read[p] # None =>
            read[p].cpu = quota.cpu /\ (backend = "db" => read[p] = quota)

\* Until then nothing is lost: counts, CPU times, the limits that were set and
\* those that calls were admitted under.
NothingLost ==
    ~overlapped =>
        /\ quota.used = recorded.used /\ quota.cpu = recorded.cpu
        /\ \A s \in Setters : setter[s] = "done" =>
            /\ Set[s].limit # None => quota.limit = Limit
            /\ Set[s].cpuLimit # None => quota.cpuLimit = CpuLimit
        /\ \A c \in Calls : under[c] # None => quota.limit # None

QuotaInv == QuotaTypes /\ NeverMore /\ Exact /\ OneReader /\ NothingLost

\* The start: nothing is charged, nobody reads or has set a quota.
LEMMA InitQuotaInv == Init => QuotaInv
<1>1. ASSUME Init PROVE QuotaInv
    <2>1. NoQuota \in Quotas
        BY DEF NoQuota, Quotas
    <2>2. NoQuota.used = 0 /\ NoQuota.cpu = 0
        BY DEF NoQuota
    <2>3. QuotaTypes
        <3>1. due \in [Calls -> Seq({0, 1})] /\ \A c \in Calls : at[c] = "new"
            BY <1>1 DEF Init
        <3>2. recorded \in [used : Nat, cpu : Nat]
            BY <1>1 DEF Init
        <3>3. /\ read \in [Users -> Quotas \cup {None}] /\ under \in [Calls -> {None, Limit}]
              /\ setter \in [Setters -> {"new", "done", "failed"}]
              /\ overlapped \in BOOLEAN /\ backend \in {"memory", "redis", "db"}
            BY <1>1 DEF Init, Users
        <3>4. QED BY <1>1, <2>1, <3>1, <3>2, <3>3 DEF Init, QuotaTypes
    <2>4. NeverMore /\ Exact /\ OneReader /\ NothingLost
        BY <1>1, <2>2 DEF Init, NeverMore, Exact, OneReader, NothingLost, Users
    <2>5. QED BY <2>3, <2>4 DEF QuotaInv
<1>2. QED BY <1>1

\* A charge counts one execution and its CPU time, and leaves the limits.
LEMMA ChargedFields ==
    ASSUME NEW q \in Quotas, NEW cpu \in {0, 1}
    PROVE  /\ Charged(q, cpu) \in Quotas
           /\ Charged(q, cpu).used = q.used + 1 /\ Charged(q, cpu).cpu = q.cpu + cpu
           /\ Charged(q, cpu).limit = q.limit /\ Charged(q, cpu).cpuLimit = q.cpuLimit
<1> DEFINE stored == [q EXCEPT !.stored = TRUE]
           counted == [stored EXCEPT !.used = q.used + 1]
<1>1. q.used \in Nat /\ q.cpu \in Nat /\ q.used + 1 \in Nat /\ q.cpu + cpu \in Nat
    BY DEF Quotas
<1>2. /\ stored \in Quotas /\ stored.used = q.used /\ stored.cpu = q.cpu
      /\ stored.limit = q.limit /\ stored.cpuLimit = q.cpuLimit
    BY DEF Quotas
<1> HIDE DEF stored
<1>3. /\ counted \in Quotas /\ counted.used = q.used + 1 /\ counted.cpu = stored.cpu
      /\ counted.limit = stored.limit /\ counted.cpuLimit = stored.cpuLimit
    BY <1>1, <1>2 DEF Quotas
<1>4. Charged(q, cpu) = [counted EXCEPT !.cpu = q.cpu + cpu]
    BY DEF Charged, Quotas, stored
<1> HIDE DEF counted
<1>5. QED BY <1>1, <1>2, <1>3, <1>4 DEF Quotas

\* A setter sets the limits it sends, and leaves the counts.
LEMMA SetInFields ==
    ASSUME NEW q \in Quotas, NEW s \in Setters
    PROVE  /\ SetIn(q, s) \in Quotas
           /\ SetIn(q, s).used = q.used /\ SetIn(q, s).cpu = q.cpu
           /\ SetIn(q, s).limit = IF Set[s].limit = None THEN q.limit ELSE Limit
           /\ SetIn(q, s).cpuLimit = IF Set[s].cpuLimit = None THEN q.cpuLimit ELSE CpuLimit
<1>1. Set[s].limit \in {None, Limit} /\ Set[s].cpuLimit \in {None, CpuLimit}
    BY SetsAreLimits
<1>2. QED BY <1>1 DEF SetIn, Quotas

\* A merge takes each column from what was written or from the row.
LEMMA MergedFields ==
    ASSUME NEW p, quota \in Quotas, read[p] \in Quotas, NEW new \in Quotas, NEW columns
    PROVE  /\ Merged(p, new, columns) \in Quotas
           /\ Merged(p, new, columns).used
                = IF read[p].stored /\ "used" \notin columns THEN quota.used ELSE new.used
           /\ Merged(p, new, columns).cpu
                = IF read[p].stored /\ "cpu" \notin columns THEN quota.cpu ELSE new.cpu
           /\ Merged(p, new, columns).limit
                = IF read[p].stored /\ "limit" \notin columns THEN quota.limit ELSE new.limit
           /\ Merged(p, new, columns).cpuLimit
                = IF read[p].stored /\ "cpuLimit" \notin columns
                  THEN quota.cpuLimit ELSE new.cpuLimit
<1>1. CASE ~read[p].stored
    BY <1>1 DEF Merged
<1>2. CASE read[p].stored
    <2> DEFINE m == Merged(p, new, columns)
    <2>1. m = [f \in DOMAIN quota |-> IF f \in columns THEN new[f] ELSE quota[f]]
        BY <1>2 DEF Merged
    <2>2. DOMAIN quota = {"stored", "limit", "cpuLimit", "used", "cpu"}
        BY DEF Quotas
    <2>3. m = [stored |-> IF "stored" \in columns THEN new.stored ELSE quota.stored,
               limit |-> IF "limit" \in columns THEN new.limit ELSE quota.limit,
               cpuLimit |-> IF "cpuLimit" \in columns THEN new.cpuLimit ELSE quota.cpuLimit,
               used |-> IF "used" \in columns THEN new.used ELSE quota.used,
               cpu |-> IF "cpu" \in columns THEN new.cpu ELSE quota.cpu]
        BY <2>1, <2>2
    <2> HIDE DEF m
    <2>4. m \in Quotas
        BY <2>3 DEF Quotas
    <2>5. /\ m.limit = IF "limit" \in columns THEN new.limit ELSE quota.limit
          /\ m.cpuLimit = IF "cpuLimit" \in columns THEN new.cpuLimit ELSE quota.cpuLimit
          /\ m.used = IF "used" \in columns THEN new.used ELSE quota.used
          /\ m.cpu = IF "cpu" \in columns THEN new.cpu ELSE quota.cpu
        BY <2>3
    <2>6. QED BY <1>2, <2>4, <2>5 DEF m
<1>3. QED BY <1>1, <1>2

\* Nobody's quota changes: the calls go on.
LEMMA QuotaKept ==
    ASSUME QuotaInv,
           UNCHANGED <<backend, quota, read, recorded, overlapped, setter>>,
           under' \in [Calls -> {None, Limit}],
           \A c \in Calls : under'[c] = under[c] \/ under'[c] = quota.limit,
           due' \in [Calls -> Seq({0, 1})],
           \A c \in Calls : at'[c] = "record" => due'[c] # <<>>
    PROVE  QuotaInv'
<1>1. QuotaTypes'
    BY DEF QuotaInv, QuotaTypes
<1>2. NeverMore' /\ Exact' /\ OneReader'
    BY DEF QuotaInv, NeverMore, Exact, OneReader
<1>3. NothingLost'
    BY DEF QuotaInv, NothingLost
<1>4. QED BY <1>1, <1>2, <1>3 DEF QuotaInv

\* The quota is read: whoever comes second overlaps.
LEMMA ReadKept ==
    ASSUME QuotaInv, NEW p \in Users, Read(p),
           UNCHANGED <<quota, recorded, setter, under, due, at>>
    PROVE  QuotaInv'
<1>1. /\ backend # "memory" /\ backend' = backend
      /\ read' = [read EXCEPT ![p] = quota]
      /\ overlapped' = (overlapped \/ \E q \in DOMAIN read : read[q] # None)
    BY DEF Read
<1>2. read \in [Users -> Quotas \cup {None}] /\ quota \in Quotas
    BY DEF QuotaInv, QuotaTypes
<1>3. \A q \in Users : read'[q] = IF q = p THEN quota ELSE read[q]
    BY <1>1, <1>2
<1>4. ~overlapped' => ~overlapped /\ \A q \in Users : read[q] = None
    BY <1>1, <1>2
<1>5. overlapped' \in BOOLEAN /\ read' \in [Users -> Quotas \cup {None}]
    BY <1>1, <1>2
<1>6. QuotaTypes'
    BY <1>1, <1>5 DEF QuotaInv, QuotaTypes
<1>7. NeverMore'
    BY <1>3 DEF QuotaInv, NeverMore
<1>8. Exact' /\ OneReader'
    BY <1>1, <1>3, <1>4 DEF QuotaInv, Exact, OneReader
<1>9. NothingLost'
    BY <1>4 DEF QuotaInv, NothingLost
<1>10. QED BY <1>6, <1>7, <1>8, <1>9 DEF QuotaInv

\* What was read is forgotten: the write failed.
LEMMA ForgetKept ==
    ASSUME QuotaInv, NEW p \in Users, Forget(p),
           UNCHANGED <<quota, recorded, under>>,
           setter' \in [Setters -> {"new", "done", "failed"}],
           \A s \in Setters : setter'[s] = "done" => setter[s] = "done",
           due' \in [Calls -> Seq({0, 1})],
           \A c \in Calls : at'[c] = "record" => due'[c] # <<>>
    PROVE  QuotaInv'
<1>1. read' = [read EXCEPT ![p] = None] /\ backend' = backend /\ overlapped' = overlapped
    BY DEF Forget
<1>2. read' \in [Users -> Quotas \cup {None}] /\ \A q \in Users : read'[q] \in {read[q], None}
    BY <1>1 DEF QuotaInv, QuotaTypes
<1>3. QuotaTypes'
    BY <1>1, <1>2 DEF QuotaInv, QuotaTypes
<1>4. NeverMore' /\ Exact'
    BY <1>1, <1>2 DEF QuotaInv, NeverMore, Exact
<1>5. OneReader'
    BY <1>1, <1>2 DEF QuotaInv, OneReader
<1>6. NothingLost'
    BY <1>1 DEF QuotaInv, NothingLost
<1>7. QED BY <1>3, <1>4, <1>5, <1>6 DEF QuotaInv

\* A write: nothing was counted that is not recorded; what memory and Redis
\* count is exact; and without an overlap nobody's write is undone.
LEMMA WriteKept ==
    ASSUME QuotaInv, NEW p \in Users, Forget(p),
           backend # "memory" => read[p] # None \/ (backend = "redis" /\ quota'.cpu = quota.cpu),
           quota' \in Quotas,
           recorded' \in [used : Nat, cpu : Nat],
           recorded.used <= recorded'.used, recorded.cpu <= recorded'.cpu,
           quota'.used <= recorded'.used, quota'.cpu <= recorded'.cpu,
           Exact',
           ~overlapped =>
                /\ quota'.used = recorded'.used /\ quota'.cpu = recorded'.cpu
                /\ quota.limit # None => quota'.limit # None
                /\ \A s \in Setters : setter'[s] = "done" =>
                    /\ Set[s].limit # None => quota'.limit = Limit
                    /\ Set[s].cpuLimit # None => quota'.cpuLimit = CpuLimit,
           under' = under,
           setter' \in [Setters -> {"new", "done", "failed"}],
           due' \in [Calls -> Seq({0, 1})],
           \A c \in Calls : at'[c] = "record" => due'[c] # <<>>
    PROVE  QuotaInv'
<1>1. read' = [read EXCEPT ![p] = None] /\ backend' = backend /\ overlapped' = overlapped
    BY DEF Forget
<1>2. /\ read' \in [Users -> Quotas \cup {None}] /\ read'[p] = None
      /\ \A q \in Users : q # p => read'[q] = read[q]
    BY <1>1 DEF QuotaInv, QuotaTypes
<1>3. QuotaTypes'
    BY <1>1, <1>2 DEF QuotaInv, QuotaTypes
<1>4. NeverMore'
    <2>1. \A q \in Users : read'[q] # None => read'[q] = read[q] /\ read[q] \in Quotas
        BY <1>2 DEF QuotaInv, QuotaTypes
    <2>2. \A x \in Quotas : x.used \in Nat /\ x.cpu \in Nat
        BY DEF Quotas
    <2>3. /\ recorded.used \in Nat /\ recorded'.used \in Nat
          /\ recorded.cpu \in Nat /\ recorded'.cpu \in Nat
        BY DEF QuotaInv, QuotaTypes
    <2>4. \A q \in Users : read'[q] # None =>
            read[q].used <= recorded.used /\ read[q].cpu <= recorded.cpu
        BY <2>1 DEF QuotaInv, NeverMore
    <2>5. QED BY <2>1, <2>2, <2>3, <2>4 DEF NeverMore
<1>5. OneReader'
    BY <1>1, <1>2 DEF QuotaInv, OneReader
<1>6. NothingLost'
    BY <1>1 DEF QuotaInv, NothingLost
<1>7. QED BY <1>3, <1>4, <1>5, <1>6 DEF QuotaInv

\* A charge is written.
LEMMA RecordKept ==
    ASSUME QuotaInv, CallInv, NEW c \in Calls, Record(c) \/ RecordUnheard(c)
    PROVE  QuotaInv'
<1> DEFINE cpu == Head(due[c])
<1>1. /\ at[c] = "record" /\ (backend # "memory" => read[c] # None)
      /\ recorded' = [used |-> recorded.used + 1, cpu |-> recorded.cpu + cpu]
      /\ \/ /\ due' = [due EXCEPT ![c] = Tail(@)]
            /\ at' = [at EXCEPT ![c] = IF Len(due[c]) = 1 THEN "answered" ELSE "record"]
         \/ due' = [due EXCEPT ![c] = <<>>] /\ at' = [at EXCEPT ![c] = "answered"]
      /\ Forget(c) /\ setter' = setter /\ under' = under /\ backend' = backend
    BY DEF Record, RecordUnheard, Charge, Raises, Answer, Goto, Forget
<1>2. /\ backend \in {"memory", "redis", "db"} /\ quota \in Quotas
      /\ read[c] \in Quotas \cup {None} /\ c \in Users
      /\ recorded.used \in Nat /\ recorded.cpu \in Nat
      /\ due[c] \in Seq({0, 1}) /\ due[c] # <<>> /\ due \in [Calls -> Seq({0, 1})]
    BY <1>1 DEF QuotaInv, QuotaTypes, Users
<1>3. cpu \in {0, 1}
    BY <1>2
<1>4. due' \in [Calls -> Seq({0, 1})] /\ \A d \in Calls : at'[d] = "record" => due'[d] # <<>>
    <2>1. Tail(due[c]) \in Seq({0, 1}) /\ Len(Tail(due[c])) = Len(due[c]) - 1
          /\ Len(due[c]) \in Nat /\ Len(due[c]) # 0
        BY <1>2
    <2>2. Len(due[c]) # 1 => Tail(due[c]) # <<>>
        <3>1. ASSUME Tail(due[c]) = <<>> PROVE Len(due[c]) = 1
            <4>1. Len(Tail(due[c])) = 0
                BY <3>1, EventsDiffer, Zenon
            <4>2. QED BY <2>1, <4>1
        <3>2. QED BY <3>1
    <2>3. at \in [Calls -> {"new", "call", "late", "record", "answered"}]
        BY DEF CallInv, Stage
    <2>4. at'[c] = "record" => due'[c] # <<>>
        BY <1>1, <1>2, <2>2, <2>3
    <2>5. \A d \in Calls \ {c} : at'[d] = at[d] /\ due'[d] = due[d]
        BY <1>1, <1>2, <2>3
    <2>6. \A d \in Calls \ {c} : at[d] = "record" => due[d] # <<>>
        BY DEF QuotaInv, QuotaTypes
    <2>7. due' \in [Calls -> Seq({0, 1})]
        <3>1. CASE due' = [due EXCEPT ![c] = Tail(@)]
            BY <1>2, <2>1, <3>1
        <3>2. CASE due' = [due EXCEPT ![c] = <<>>]
            BY <1>2, <3>2
        <3>3. QED BY <1>1, <3>1, <3>2
    <2>8. QED BY <2>4, <2>5, <2>6, <2>7
<1> HIDE DEF cpu
<1>5. /\ recorded' \in [used : Nat, cpu : Nat]
      /\ recorded'.used = recorded.used + 1 /\ recorded'.cpu = recorded.cpu + cpu
      /\ recorded.used <= recorded'.used /\ recorded.cpu <= recorded'.cpu
    BY <1>1, <1>2, <1>3
<1>6. \A q \in Quotas : q.used \in Nat /\ q.cpu \in Nat
    BY DEF Quotas
\* What the write gives, in each of the three stores.
<1>7. /\ quota' \in Quotas
      /\ quota'.used <= recorded'.used /\ quota'.cpu <= recorded'.cpu
      /\ Exact'
      /\ ~overlapped =>
            /\ quota'.used = quota.used + 1 /\ quota'.cpu = quota.cpu + cpu
            /\ quota'.limit = quota.limit /\ quota'.cpuLimit = quota.cpuLimit
    <2>1. /\ quota.used <= recorded.used /\ quota.cpu <= recorded.cpu
          /\ backend # "db" => quota.used = recorded.used
          /\ backend = "memory" => quota.cpu = recorded.cpu
        BY DEF QuotaInv, NeverMore, Exact
    <2>2. CASE backend = "memory"
        <3>1. quota' = Charged(quota, cpu)
            BY <2>2 DEF Record, RecordUnheard, Charge, cpu
        <3>2. QED BY <1>1, <1>2, <1>3, <1>5, <1>6, <2>1, <2>2, <3>1, ChargedFields DEF Exact
    <2>3. CASE backend = "redis"
        <3>1. quota' = [Charged(quota, cpu) EXCEPT !.cpu = read[c].cpu + cpu]
            BY <2>3 DEF Record, RecordUnheard, Charge, cpu
        <3>2. /\ read[c] \in Quotas /\ read[c].cpu <= recorded.cpu
              /\ ~overlapped => read[c].cpu = quota.cpu
            BY <1>1, <1>2, <2>3 DEF QuotaInv, NeverMore, OneReader
        <3>3. read[c].cpu + cpu \in Nat
            BY <1>3, <1>6, <3>2
        <3>4. /\ quota' \in Quotas /\ quota'.cpu = read[c].cpu + cpu
              /\ quota'.used = Charged(quota, cpu).used
              /\ quota'.limit = Charged(quota, cpu).limit
              /\ quota'.cpuLimit = Charged(quota, cpu).cpuLimit
            BY <1>2, <1>3, <3>1, <3>3, ChargedFields DEF Quotas
        <3>5. /\ quota'.used = quota.used + 1
              /\ quota'.limit = quota.limit /\ quota'.cpuLimit = quota.cpuLimit
            BY <1>2, <1>3, <3>4, ChargedFields
        <3>6. quota'.used = recorded'.used /\ backend' = "redis"
            BY <1>1, <1>5, <2>1, <2>3, <3>5
        <3>7. Exact'
            BY <3>6 DEF Exact
        <3>8. quota'.used <= recorded'.used
            BY <1>2, <1>5, <3>6
        <3>9. quota'.cpu <= recorded'.cpu
            BY <1>2, <1>3, <1>5, <1>6, <3>2, <3>4
        <3>10. QED BY <3>2, <3>4, <3>5, <3>7, <3>8, <3>9
    <2>4. CASE backend = "db"
        <3> DEFINE columns == IF cpu = 0 THEN {"used"} ELSE {"used", "cpu"}
        <3>1. quota' = Merged(c, Charged(read[c], cpu), columns)
            BY <2>4 DEF Record, RecordUnheard, Charge, cpu
        <3>2. /\ read[c] \in Quotas
              /\ read[c].used <= recorded.used /\ read[c].cpu <= recorded.cpu
              /\ ~overlapped => read[c] = quota
            BY <1>1, <1>2, <2>4 DEF QuotaInv, NeverMore, OneReader
        <3>3. /\ Charged(read[c], cpu) \in Quotas
              /\ Charged(read[c], cpu).used = read[c].used + 1
              /\ Charged(read[c], cpu).cpu = read[c].cpu + cpu
              /\ Charged(read[c], cpu).limit = read[c].limit
              /\ Charged(read[c], cpu).cpuLimit = read[c].cpuLimit
            BY <1>3, <3>2, ChargedFields
        <3>4. /\ quota' \in Quotas
              /\ quota'.used = read[c].used + 1
              /\ quota'.cpu = read[c].cpu + cpu \/ (cpu = 0 /\ quota'.cpu = quota.cpu)
              /\ quota'.limit \in {quota.limit, read[c].limit}
              /\ quota'.cpuLimit \in {quota.cpuLimit, read[c].cpuLimit}
            BY <1>2, <1>3, <3>1, <3>2, <3>3, MergedFields
        <3>5. Exact'
            BY <1>1, <2>4 DEF Exact
        <3>6. quota'.used <= recorded'.used
            BY <1>2, <1>5, <1>6, <3>2, <3>4
        <3>7. quota'.cpu <= recorded'.cpu
            BY <1>2, <1>3, <1>5, <1>6, <2>1, <3>2, <3>4
        <3>8. ASSUME ~overlapped
              PROVE  /\ quota'.used = quota.used + 1 /\ quota'.cpu = quota.cpu + cpu
                     /\ quota'.limit = quota.limit /\ quota'.cpuLimit = quota.cpuLimit
            BY <1>2, <1>3, <1>6, <3>2, <3>4, <3>8
        <3>9. QED BY <3>4, <3>5, <3>6, <3>7, <3>8
    <2>5. QED BY <1>2, <2>2, <2>3, <2>4
<1>8. ~overlapped =>
        /\ quota'.used = recorded'.used /\ quota'.cpu = recorded'.cpu
        /\ quota.limit # None => quota'.limit # None
        /\ \A s \in Setters : setter'[s] = "done" =>
            /\ Set[s].limit # None => quota'.limit = Limit
            /\ Set[s].cpuLimit # None => quota'.cpuLimit = CpuLimit
    BY <1>1, <1>5, <1>7 DEF QuotaInv, NothingLost
<1>9. setter' \in [Setters -> {"new", "done", "failed"}]
    BY <1>1 DEF QuotaInv, QuotaTypes
<1>10. QED BY <1>1, <1>2, <1>4, <1>5, <1>7, <1>8, <1>9, WriteKept

\* Limits are written.
LEMMA SetQuotaKept ==
    ASSUME QuotaInv, NEW s \in Setters, SetQuota(s) \/ SetUnheard(s)
    PROVE  QuotaInv'
<1>1. /\ setter[s] = "new" /\ (backend = "db" => read[s] # None)
      /\ \E v \in {"done", "failed"} : setter' = [setter EXCEPT ![s] = v]
      /\ Forget(s) /\ backend' = backend
      /\ UNCHANGED <<at, due, recorded, under>>
    BY DEF SetQuota, SetUnheard, SetWrite, Forget, call, history
<1>2. /\ backend \in {"memory", "redis", "db"} /\ quota \in Quotas
      /\ read[s] \in Quotas \cup {None} /\ s \in Users
      /\ recorded \in [used : Nat, cpu : Nat]
      /\ setter' \in [Setters -> {"new", "done", "failed"}]
      /\ due' \in [Calls -> Seq({0, 1})]
      /\ \A c \in Calls : at'[c] = "record" => due'[c] # <<>>
    BY <1>1 DEF QuotaInv, QuotaTypes, Users
<1>3. \A q \in Quotas : q.used \in Nat /\ q.cpu \in Nat
    BY DEF Quotas
<1>4. /\ quota.used <= recorded.used /\ quota.cpu <= recorded.cpu
      /\ backend # "db" => quota.used = recorded.used
      /\ backend = "memory" => quota.cpu = recorded.cpu
    BY DEF QuotaInv, NeverMore, Exact
<1>5. /\ quota' \in Quotas
      /\ quota'.used <= recorded.used /\ quota'.cpu <= recorded.cpu
      /\ backend # "db" => quota'.used = quota.used /\ quota'.cpu = quota.cpu
      /\ ~overlapped =>
            /\ quota'.used = quota.used /\ quota'.cpu = quota.cpu
            /\ quota'.limit = IF Set[s].limit = None THEN quota.limit ELSE Limit
            /\ quota'.cpuLimit = IF Set[s].cpuLimit = None THEN quota.cpuLimit ELSE CpuLimit
    <2>1. CASE backend # "db"
        <3>1. quota' = SetIn(quota, s)
            BY <2>1 DEF SetQuota, SetUnheard, SetWrite
        <3>2. QED BY <1>2, <1>4, <2>1, <3>1, SetInFields
    <2>2. CASE backend = "db"
        <3>1. quota' = Merged(s, SetIn(read[s], s), SentBy(s))
            BY <2>2 DEF SetQuota, SetUnheard, SetWrite
        <3>2. /\ read[s] \in Quotas
              /\ read[s].used <= recorded.used /\ read[s].cpu <= recorded.cpu
              /\ ~overlapped => read[s] = quota
            BY <1>1, <1>2, <2>2 DEF QuotaInv, NeverMore, OneReader
        <3>3. /\ "used" \notin SentBy(s) /\ "cpu" \notin SentBy(s)
              /\ "limit" \in SentBy(s) <=> Set[s].limit # None
              /\ "cpuLimit" \in SentBy(s) <=> Set[s].cpuLimit # None
            BY DEF SentBy
        <3>4. SetIn(read[s], s) \in Quotas
            BY <3>2, SetInFields
        <3>5. /\ quota' \in Quotas
              /\ quota'.used \in {quota.used, read[s].used}
              /\ quota'.cpu \in {quota.cpu, read[s].cpu}
              /\ ~overlapped =>
                    /\ quota'.limit = IF Set[s].limit = None THEN quota.limit ELSE Limit
                    /\ quota'.cpuLimit = IF Set[s].cpuLimit = None THEN quota.cpuLimit ELSE CpuLimit
            BY <1>2, <3>1, <3>2, <3>3, <3>4, MergedFields, SetInFields
        <3>6. QED BY <1>4, <2>2, <3>2, <3>5
    <2>3. QED BY <2>1, <2>2
<1>6. Exact'
    BY <1>1, <1>4, <1>5 DEF Exact
<1>7. /\ recorded' \in [used : Nat, cpu : Nat] /\ recorded' = recorded
      /\ recorded.used <= recorded.used /\ recorded.cpu <= recorded.cpu
    BY <1>1, <1>2
<1>8. Limit # None
    BY LimitsAreNatural
<1>9. ~overlapped =>
        /\ quota'.used = recorded'.used /\ quota'.cpu = recorded'.cpu
        /\ quota.limit # None => quota'.limit # None
        /\ \A q \in Setters : setter'[q] = "done" =>
            /\ Set[q].limit # None => quota'.limit = Limit
            /\ Set[q].cpuLimit # None => quota'.cpuLimit = CpuLimit
    <2>1. \A q \in Setters : setter'[q] = "done" => q = s \/ setter[q] = "done"
        BY <1>1 DEF QuotaInv, QuotaTypes
    <2>2. QED BY <1>5, <1>7, <1>8, <2>1 DEF QuotaInv, NothingLost
<1>10. backend # "memory" => read[s] # None \/ (backend = "redis" /\ quota'.cpu = quota.cpu)
    BY <1>1, <1>2, <1>5
<1>11. QED BY <1>1, <1>2, <1>5, <1>6, <1>7, <1>9, <1>10, WriteKept

\* Every step keeps what is said of the quota.
LEMMA StepQuotaInv == QuotaInv /\ CallInv /\ [Next]_vars => QuotaInv'
<1>0. SUFFICES ASSUME QuotaInv, CallInv, [Next]_vars PROVE QuotaInv'
    OBVIOUS
<1>1. /\ at \in [Calls -> {"new", "call", "late", "record", "answered"}]
      /\ due \in [Calls -> Seq({0, 1})] /\ \A c \in Calls : at[c] = "record" => due[c] # <<>>
      /\ under \in [Calls -> {None, Limit}] /\ quota \in Quotas
      /\ setter \in [Setters -> {"new", "done", "failed"}]
    BY <1>0 DEF CallInv, Stage, QuotaInv, QuotaTypes
<1>2. CASE UNCHANGED vars
    BY <1>0, <1>1, <1>2, QuotaKept DEF vars, store, history, call
<1>3. ASSUME NEW c \in Calls,
             NotFound(c) \/ Refuse(c) \/ NoDocker(c) \/ ToolEnds(c) \/ Timeout(c)
                \/ InlineTimeout(c) \/ LateEnd(c)
      PROVE  QuotaInv'
    <2>1. /\ UNCHANGED <<backend, quota, read, recorded, overlapped, setter, under, due>>
          /\ \/ at' = at
             \/ at' = [at EXCEPT ![c] = "answered"]
             \/ at' = [at EXCEPT ![c] = "late"]
        BY <1>3 DEF NotFound, Refuse, NoDocker, ToolEnds, Timeout, InlineTimeout, LateEnd,
            store, history, Answer, Goto
    <2>2. \A d \in Calls : at'[d] = "record" => due'[d] # <<>>
        BY <1>1, <2>1
    <2>3. QED BY <1>0, <1>1, <2>1, <2>2, QuotaKept
<1>4. ASSUME NEW c \in Calls, Begin(c) PROVE QuotaInv'
    <2>1. /\ UNCHANGED <<backend, quota, read, recorded, overlapped, setter, due>>
          /\ at' = [at EXCEPT ![c] = "call"]
          /\ under' = [under EXCEPT ![c] = quota.limit]
        BY <1>4 DEF Begin, store, Goto
    <2>2. quota.limit \in {None, Limit}
        BY <1>1 DEF Quotas
    <2>3. /\ under' \in [Calls -> {None, Limit}]
          /\ \A d \in Calls : under'[d] = under[d] \/ under'[d] = quota.limit
          /\ \A d \in Calls : at'[d] = "record" => due'[d] # <<>>
        BY <1>1, <2>1, <2>2
    <2>4. QED BY <1>0, <1>1, <2>1, <2>3, QuotaKept
<1>5. ASSUME NEW c \in Calls, Collect(c) PROVE QuotaInv'
    <2>1. /\ UNCHANGED <<backend, quota, read, recorded, overlapped, setter, under>>
          /\ due' = [due EXCEPT ![c] = Charges(mode[c], tool[c])]
          /\ at' = [at EXCEPT ![c] = IF Charges(mode[c], tool[c]) # <<>>
                                     THEN "record" ELSE "answered"]
          /\ at[c] = "call" /\ tool[c] \in {"ok", "error", "crashed"}
        BY <1>5 DEF Collect, store, history, Goto
    <2>2. mode[c] \in Mode /\ (tool[c] = "crashed" => mode[c] = "process")
        BY <1>0, <2>1 DEF CallInv, ToolsBelong
    <2>3. Charges(mode[c], tool[c]) \in Seq({0, 1})
        <3>1. <<1, 1>> \in Seq({0, 1}) /\ <<1, 0>> \in Seq({0, 1}) /\ <<0>> \in Seq({0, 1})
              /\ <<1>> \in Seq({0, 1}) /\ <<>> \in Seq({0, 1})
            OBVIOUS
        <3>2. CASE mode[c] = "process"
            <4>1. Charges(mode[c], tool[c])
                    = [ok |-> <<1, 1>>, error |-> <<1, 0>>, crashed |-> <<0>>][tool[c]]
                BY <3>2 DEF Charges
            <4>2. Charges(mode[c], tool[c]) \in {<<1, 1>>, <<1, 0>>, <<0>>}
                BY <2>1, <4>1
            <4>3. QED BY <3>1, <4>2
        <3>3. CASE mode[c] = "container"
            <4>1. Charges(mode[c], tool[c]) = [ok |-> <<1>>, error |-> <<0>>][tool[c]]
                BY <3>3 DEF Charges
            <4>2. Charges(mode[c], tool[c]) \in {<<1>>, <<0>>}
                BY <2>1, <2>2, <3>3, <4>1
            <4>3. QED BY <3>1, <4>2
        <3>4. CASE mode[c] \in {"inline", "async"}
            BY <3>1, <3>4 DEF Charges
        <3>5. QED BY <2>2, <3>2, <3>3, <3>4 DEF Mode
    <2>4. /\ due' \in [Calls -> Seq({0, 1})]
          /\ \A d \in Calls : at'[d] = "record" => due'[d] # <<>>
        BY <1>1, <2>1, <2>3
    <2>5. QED BY <1>0, <1>1, <2>1, <2>4, QuotaKept
<1>6. ASSUME NEW c \in Calls, RecordRead(c) PROVE QuotaInv'
    BY <1>0, <1>6, ReadKept DEF RecordRead, call, history, Users
<1>7. ASSUME NEW c \in Calls, Record(c) \/ RecordUnheard(c) PROVE QuotaInv'
    BY <1>0, <1>7, RecordKept
<1>8. ASSUME NEW c \in Calls, RecordFails(c) PROVE QuotaInv'
    <2>1. /\ Forget(c) /\ c \in Users
          /\ at' = [at EXCEPT ![c] = "answered"] /\ due' = [due EXCEPT ![c] = <<>>]
          /\ UNCHANGED <<quota, setter, recorded, under>>
        BY <1>8 DEF RecordFails, Raises, Answer, Goto, history, Users
    <2>2. /\ due' \in [Calls -> Seq({0, 1})]
          /\ \A d \in Calls : at'[d] = "record" => due'[d] # <<>>
        BY <1>1, <2>1
    <2>3. QED BY <1>0, <1>1, <2>1, <2>2, ForgetKept
<1>9. ASSUME NEW s \in Setters, SetRead(s) PROVE QuotaInv'
    BY <1>0, <1>9, ReadKept DEF SetRead, call, history, Users
<1>10. ASSUME NEW s \in Setters, SetQuota(s) \/ SetUnheard(s) PROVE QuotaInv'
    BY <1>0, <1>10, SetQuotaKept
<1>11. ASSUME NEW s \in Setters, SetFails(s) PROVE QuotaInv'
    <2>1. /\ Forget(s) /\ s \in Users
          /\ setter' = [setter EXCEPT ![s] = "failed"]
          /\ UNCHANGED <<quota, at, due, recorded, under>>
        BY <1>11 DEF SetFails, call, history, Users
    <2>2. /\ setter' \in [Setters -> {"new", "done", "failed"}]
          /\ \A q \in Setters : setter'[q] = "done" => setter[q] = "done"
        BY <1>1, <2>1
    <2>3. QED BY <1>0, <1>1, <2>1, <2>2, ForgetKept
<1>12. QED BY <1>0, <1>2, <1>3, <1>4, <1>5, <1>6, <1>7, <1>8, <1>9, <1>10, <1>11
           DEF Next, Proceed

\* No count is lost in memory or in Redis, whatever interleaves; and nothing is
\* lost in any store before two read-modify-writes overlap.
THEOREM UsageIsKept == Spec => []UsageKept
<1>1. QuotaInv => UsageKept
    <2>1. SUFFICES ASSUME QuotaInv PROVE UsageKept
        OBVIOUS
    <2>2. /\ quota.used <= recorded.used /\ quota.cpu <= recorded.cpu
          /\ backend # "db" \/ ~overlapped => quota.used = recorded.used
          /\ backend = "memory" \/ ~overlapped => quota.cpu = recorded.cpu
        BY <2>1 DEF QuotaInv, NeverMore, Exact, NothingLost
    <2>3. ASSUME ~overlapped, NEW s \in Setters, setter[s] = "done", NEW f \in SentBy(s)
          PROVE  quota[f] = Set[s][f]
        <3>1. /\ Set[s].limit \in {None, Limit} /\ Set[s].cpuLimit \in {None, CpuLimit}
              /\ f \in {"limit", "cpuLimit"} /\ Set[s][f] # None
            BY SetsAreLimits DEF SentBy
        <3>2. /\ Set[s].limit # None => quota.limit = Limit
              /\ Set[s].cpuLimit # None => quota.cpuLimit = CpuLimit
            BY <2>1, <2>3 DEF QuotaInv, NothingLost
        <3>3. CASE f = "limit"
            BY <3>1, <3>2, <3>3
        <3>4. CASE f = "cpuLimit"
            BY <3>1, <3>2, <3>4
        <3>5. QED BY <3>1, <3>3, <3>4
    <2>4. ~overlapped => \A c \in Calls : under[c] # None => quota.limit # None
        BY <2>1 DEF QuotaInv, NothingLost
    <2>5. QED BY <2>2, <2>3, <2>4 DEF UsageKept
<1>2. QED BY <1>1, InitQuotaInv, StepQuotaInv, CallsKeep, PTL DEF Spec

----------------------------------------------------------------------------
(* Who reads, and what is left to charge *)

Reading ==
    /\ \A c \in Calls : /\ due[c] # <<>> => at[c] = "record"
                        /\ read[c] # None => at[c] = "record"
    /\ \A s \in Setters : read[s] # None => setter[s] = "new"

\* At first nobody has read anything.
LEMMA InitReading == Init => Reading
BY DEF Init, Reading

\* A sequence without elements is the empty one.
LEMMA EmptyIfNoLength ==
    ASSUME NEW S, NEW s \in Seq(S), Len(s) = 0
    PROVE  s = <<>>
OBVIOUS

\* Who ends its read-modify-write forgets what it read.
LEMMA StepReading == Reading /\ QuotaInv /\ CallInv /\ [Next]_vars => Reading'
<1>0. SUFFICES ASSUME Reading, QuotaInv, CallInv, [Next]_vars PROVE Reading'
    OBVIOUS
<1>1. /\ at \in [Calls -> {"new", "call", "late", "record", "answered"}]
      /\ due \in [Calls -> Seq({0, 1})] /\ setter \in [Setters -> {"new", "done", "failed"}]
      /\ read \in [Calls \cup Setters -> Quotas \cup {None}]
    BY <1>0 DEF CallInv, Stage, QuotaInv, QuotaTypes, Users
<1>2. CASE UNCHANGED vars
    BY <1>0, <1>2 DEF vars, store, call, Reading
<1>3. ASSUME NEW c \in Calls,
             NotFound(c) \/ Refuse(c) \/ Begin(c) \/ NoDocker(c) \/ ToolEnds(c) \/ Timeout(c)
                \/ InlineTimeout(c) \/ LateEnd(c)
      PROVE  Reading'
    <2>1. /\ UNCHANGED <<read, setter, due>>
          /\ at[c] # "record" \/ at'[c] = at[c]
          /\ \A d \in Calls \ {c} : at'[d] = at[d]
        BY <1>1, <1>3 DEF NotFound, Refuse, Begin, NoDocker, ToolEnds, Timeout, InlineTimeout,
            LateEnd, store, Answer, Goto
    <2>2. QED BY <1>0, <2>1 DEF Reading
<1>4. ASSUME NEW c \in Calls, Collect(c) PROVE Reading'
    <2>1. /\ UNCHANGED <<read, setter>> /\ at[c] = "call"
          /\ due' = [due EXCEPT ![c] = Charges(mode[c], tool[c])]
          /\ at' = [at EXCEPT ![c] = IF Charges(mode[c], tool[c]) # <<>>
                                     THEN "record" ELSE "answered"]
        BY <1>4 DEF Collect, store, Goto
    <2>2. QED BY <1>0, <1>1, <2>1 DEF Reading
<1>5. ASSUME NEW c \in Calls, RecordRead(c) PROVE Reading'
    <2>1. /\ at[c] = "record" /\ read' = [read EXCEPT ![c] = quota]
          /\ UNCHANGED <<at, due, setter>>
        BY <1>5 DEF RecordRead, Read, call
    <2>2. QED BY <1>0, <1>1, <2>1, CallsAreNoSetters DEF Reading
<1>6. ASSUME NEW c \in Calls, Record(c) PROVE Reading'
    <2>1. /\ read' = [read EXCEPT ![c] = None] /\ setter' = setter
          /\ due' = [due EXCEPT ![c] = Tail(@)] /\ at[c] = "record"
          /\ at' = [at EXCEPT ![c] = IF Len(due[c]) = 1 THEN "answered" ELSE "record"]
        BY <1>6 DEF Record, Charge, Forget, Goto
    <2>2. Len(due[c]) = 1 => Tail(due[c]) = <<>>
        <3>1. due[c] \in Seq({0, 1})
            BY <1>1
        <3>2. Len(due[c]) = 1 => Tail(due[c]) \in Seq({0, 1}) /\ Len(Tail(due[c])) = 0
            BY <3>1
        <3>3. QED BY <3>2, EmptyIfNoLength
    <2>3. QED BY <1>0, <1>1, <2>1, <2>2 DEF Reading
<1>7. ASSUME NEW c \in Calls, RecordFails(c) \/ RecordUnheard(c) PROVE Reading'
    <2>1. /\ read' = [read EXCEPT ![c] = None] /\ setter' = setter
          /\ due' = [due EXCEPT ![c] = <<>>] /\ at' = [at EXCEPT ![c] = "answered"]
        BY <1>7 DEF RecordFails, RecordUnheard, Charge, Raises, Forget, Answer, Goto
    <2>2. QED BY <1>0, <1>1, <2>1 DEF Reading
<1>8. ASSUME NEW s \in Setters, SetRead(s) PROVE Reading'
    <2>1. /\ setter[s] = "new" /\ read' = [read EXCEPT ![s] = quota]
          /\ UNCHANGED <<at, due, setter>>
        BY <1>8 DEF SetRead, Read, call
    <2>2. QED BY <1>0, <1>1, <2>1, CallsAreNoSetters DEF Reading
<1>9. ASSUME NEW s \in Setters, SetQuota(s) \/ SetUnheard(s) \/ SetFails(s) PROVE Reading'
    <2>1. /\ read' = [read EXCEPT ![s] = None] /\ UNCHANGED <<at, due>>
          /\ \A q \in Setters \ {s} : setter'[q] = setter[q]
        BY <1>1, <1>9 DEF SetQuota, SetUnheard, SetWrite, SetFails, Forget, call
    <2>2. QED BY <1>0, <1>1, <2>1 DEF Reading
<1>10. QED BY <1>0, <1>2, <1>3, <1>4, <1>5, <1>6, <1>7, <1>8, <1>9 DEF Next, Proceed

\* A call has charges left exactly while it records, reads the quota for nothing
\* else, and is answered with a verdict; a setter reads before it is done.
THEOREM ToolsTyped == Spec => []ToolsTypeOK
<1>1. QuotaInv /\ CallInv /\ Reading => ToolsTypeOK
    <2>1. SUFFICES ASSUME QuotaInv, CallInv, Reading PROVE ToolsTypeOK
        OBVIOUS
    <2>2. DOMAIN quota = DOMAIN NoQuota
        BY <2>1 DEF QuotaInv, QuotaTypes, Quotas, NoQuota
    <2>3. \A c \in Calls :
            /\ at[c] = "record" <=> due[c] # <<>>
            /\ read[c] # None => at[c] = "record"
        BY <2>1 DEF QuotaInv, QuotaTypes, Reading
    <2>4. \A c \in Calls :
            /\ at[c] = "late" => mode[c] = "inline"
            /\ Over(c) => verdict[c] \in {"ok", "failed", "timeout", "refused"}
        BY <2>1 DEF CallInv, Stage, ToolsBelong, Observed, Over
    <2>5. QED BY <2>1, <2>2, <2>3, <2>4 DEF CallInv, Stage, Reading, ToolsTypeOK
<1>2. QED BY <1>1, InitQuotaInv, StepQuotaInv, CallsKeep, InitReading, StepReading, PTL DEF Spec
----------------------------------------------------------------------------
(* What is charged *)

\* What a call that succeeds is charged in each mode.
Bill(m) == CASE m = "process" -> 2 [] m = "container" -> 1 [] OTHER -> 0

\* A success that is still recording has its bill before it.
Billed ==
    \A c \in Calls :
        /\ at[c] \in {"new", "call", "late"} => charges[c] = 0
        /\ at[c] = "record" /\ verdict[c] = "ok" => charges[c] + Len(due[c]) = Bill(mode[c])
        /\ at[c] = "answered" /\ verdict[c] = "ok" => charges[c] = Bill(mode[c])
        /\ at[c] = "answered" /\ verdict[c] \in {"timeout", "refused"} => charges[c] = 0

\* At first nobody was charged.
LEMMA InitBilled == Init => Billed
BY DEF Init, Billed

\* The charges of a success are as many as its bill says.
LEMMA ChargesAreBilled ==
    \A m \in Mode : /\ Len(Charges(m, "ok")) = Bill(m)
                    /\ Charges(m, "ok") = <<>> => Bill(m) = 0
BY DEF Mode, Charges, Bill

\* Every step keeps it.
LEMMA StepBilled == Billed /\ QuotaInv /\ CallInv /\ [Next]_vars => Billed'
<1>0. SUFFICES ASSUME Billed, QuotaInv, CallInv, [Next]_vars PROVE Billed'
    OBVIOUS
<1>1. /\ at \in [Calls -> {"new", "call", "late", "record", "answered"}]
      /\ verdict \in [Calls -> {"none", "ok", "failed", "timeout", "refused"}]
      /\ charges \in [Calls -> Nat] /\ due \in [Calls -> Seq({0, 1})]
      /\ mode \in [Calls -> Mode \cup {None}]
    BY <1>0 DEF CallInv, Stage, QuotaInv, QuotaTypes
<1>2. CASE UNCHANGED <<at, verdict, charges, due, mode>>
    BY <1>0, <1>2 DEF Billed
<1>3. CASE UNCHANGED vars \/ \E s \in Setters :
              SetRead(s) \/ SetQuota(s) \/ SetUnheard(s) \/ SetFails(s)
    BY <1>2, <1>3
       DEF vars, call, history, SetRead, SetQuota, SetUnheard, SetWrite, SetFails
<1>4. ASSUME NEW c \in Calls,
             NotFound(c) \/ Refuse(c) \/ Begin(c) \/ NoDocker(c) \/ ToolEnds(c) \/ Timeout(c)
                \/ InlineTimeout(c) \/ LateEnd(c) \/ RecordRead(c)
      PROVE  Billed'
    <2>1. /\ UNCHANGED <<charges, due>>
          /\ \A d \in Calls \ {c} : /\ at'[d] = at[d] /\ verdict'[d] = verdict[d]
                                    /\ mode'[d] = mode[d]
          /\ \/ UNCHANGED <<at, verdict, mode>>
             \/ /\ at[c] \in {"new", "call", "late"}
                /\ at'[c] \in {"call", "late"} \/ verdict'[c] \in {"failed", "timeout", "refused"}
                /\ at'[c] # "record"
        BY <1>1, <1>4 DEF NotFound, Refuse, Begin, NoDocker, ToolEnds, Timeout, InlineTimeout,
            LateEnd, RecordRead, history, call, Answer, Goto
    <2>2. QED BY <1>0, <2>1 DEF Billed
<1>5. ASSUME NEW c \in Calls, Collect(c) PROVE Billed'
    <2>1. /\ at[c] = "call" /\ tool[c] \in {"ok", "error", "crashed"}
          /\ due' = [due EXCEPT ![c] = Charges(mode[c], tool[c])]
          /\ verdict' = [verdict EXCEPT ![c] = IF tool[c] = "ok" THEN "ok" ELSE "failed"]
          /\ at' = [at EXCEPT ![c] = IF Charges(mode[c], tool[c]) # <<>>
                                     THEN "record" ELSE "answered"]
          /\ UNCHANGED <<mode, charges>>
        BY <1>5 DEF Collect, Goto, history
    <2>2. mode[c] \in Mode /\ charges[c] = 0
        BY <1>0, <2>1 DEF CallInv, ToolsBelong, Billed
    <2>3. /\ verdict'[c] = "ok" => due'[c] = Charges(mode[c], "ok")
          /\ verdict'[c] = "ok" /\ at'[c] = "answered" => Charges(mode[c], "ok") = <<>>
          /\ verdict'[c] \in {"ok", "failed"} /\ at'[c] \in {"record", "answered"}
          /\ mode'[c] = mode[c] /\ charges'[c] = 0
        BY <1>1, <2>1, <2>2
    <2>4. Len(Charges(mode[c], "ok")) = Bill(mode[c]) /\ Bill(mode[c]) \in Nat
        BY <2>2, ChargesAreBilled DEF Bill
    <2>5. \A d \in Calls \ {c} : /\ at'[d] = at[d] /\ verdict'[d] = verdict[d]
                                 /\ due'[d] = due[d] /\ mode'[d] = mode[d]
                                 /\ charges'[d] = charges[d]
        BY <1>1, <2>1
    <2>6. verdict'[c] = "ok" /\ at'[c] = "answered" => Bill(mode[c]) = 0
        BY <2>2, <2>3, ChargesAreBilled
    <2>7. QED BY <1>0, <2>3, <2>4, <2>5, <2>6 DEF Billed
<1>6. ASSUME NEW c \in Calls, Record(c) PROVE Billed'
    <2>1. /\ at[c] = "record" /\ charges' = [charges EXCEPT ![c] = @ + 1]
          /\ due' = [due EXCEPT ![c] = Tail(@)]
          /\ at' = [at EXCEPT ![c] = IF Len(due[c]) = 1 THEN "answered" ELSE "record"]
          /\ UNCHANGED <<mode, verdict>>
        BY <1>6 DEF Record, Charge, Goto
    <2>2. due[c] # <<>> /\ verdict[c] \in {"ok", "failed"}
        BY <1>0, <2>1 DEF QuotaInv, QuotaTypes, CallInv, Observed
    <2>3. Len(due[c]) \in Nat /\ Len(due'[c]) = Len(due[c]) - 1
        BY <1>1, <2>1, <2>2
    <2>4. /\ charges'[c] = charges[c] + 1 /\ charges[c] \in Nat
          /\ at'[c] = IF Len(due[c]) = 1 THEN "answered" ELSE "record"
        BY <1>1, <2>1
    <2>5. \A d \in Calls \ {c} : /\ at'[d] = at[d] /\ due'[d] = due[d]
                                 /\ charges'[d] = charges[d]
        BY <1>1, <2>1
    <2>6. verdict[c] = "ok" =>
            /\ at'[c] = "record" => charges'[c] + Len(due'[c]) = Bill(mode[c])
            /\ at'[c] = "answered" => charges'[c] = Bill(mode[c])
        <3>1. verdict[c] = "ok" => charges[c] + Len(due[c]) = Bill(mode[c])
            BY <1>0, <2>1 DEF Billed
        <3>2. Bill(mode[c]) \in Nat
            BY DEF Bill
        <3>3. charges'[c] + Len(due'[c]) = charges[c] + Len(due[c])
            BY <2>3, <2>4
        <3>4. at'[c] = "answered" => Len(due[c]) = 1
            BY <2>4
        <3>5. Len(due[c]) = 1 => charges'[c] = charges[c] + Len(due[c])
            BY <2>4
        <3>6. QED BY <3>1, <3>3, <3>4, <3>5
    <2>7. QED BY <1>0, <2>1, <2>2, <2>4, <2>5, <2>6 DEF Billed
<1>7. ASSUME NEW c \in Calls, RecordFails(c) \/ RecordUnheard(c) PROVE Billed'
    <2>1. /\ at[c] = "record" /\ mode' = mode
          /\ at' = [at EXCEPT ![c] = "answered"] /\ verdict' = [verdict EXCEPT ![c] = "failed"]
          /\ \A d \in Calls \ {c} : due'[d] = due[d] /\ charges'[d] = charges[d]
        BY <1>1, <1>7 DEF RecordFails, RecordUnheard, Charge, Raises, Answer, Goto, history
    <2>2. QED BY <1>0, <1>1, <2>1 DEF Billed
<1>8. QED BY <1>0, <1>3, <1>4, <1>5, <1>6, <1>7 DEF Next, Proceed

\* A call that returns a result was observed once, as a success, and charged
\* twice as a process, once as a container and never otherwise; a timeout or a
\* refusal is not charged; and only a store that raised keeps an observed success
\* from its caller.
THEOREM Accounted == Spec => []AnswersAccounted
<1>1. CallInv /\ Billed => AnswersAccounted
    <2>1. SUFFICES ASSUME CallInv, Billed, NEW c \in Calls, at[c] = "answered"
                   PROVE  /\ Len(metric[c]) <= 1
                          /\ verdict[c] = "ok" => metric[c] = <<"success">>
                          /\ verdict[c] = "ok" => charges[c] = Bill(mode[c])
                          /\ verdict[c] \in {"timeout", "refused"} => charges[c] = 0
                          /\ metric[c] = <<"success">> /\ verdict[c] # "ok" =>
                                verdict[c] = "failed" /\ mode[c] \in Sandboxed /\ MayRaise(c)
        BY DEF AnswersAccounted, Over, Bill
    <2>2. metric[c] \in {<<>>, <<"success">>, <<"failure">>}
        BY <2>1 DEF CallInv, Observed
    <2>3. CASE metric[c] = <<>>
        <3>1. Len(metric[c]) <= 1
            BY <2>3
        <3>2. QED BY <2>1, <3>1 DEF CallInv, Observed, Billed
    <2>4. CASE metric[c] \in {<<"success">>, <<"failure">>}
        <3>1. Len(metric[c]) = 1
            BY <2>4, EventsDiffer
        <3>2. Len(metric[c]) <= 1
            BY <3>1
        <3>3. QED BY <2>1, <3>2 DEF CallInv, Observed, Billed
    <2>5. QED BY <2>2, <2>3, <2>4
<1>2. QED BY <1>1, InitQuotaInv, StepQuotaInv, CallsKeep, InitBilled, StepBilled, PTL DEF Spec

----------------------------------------------------------------------------
(* By how much the calls exceed a limit *)

Counted == {c \in Calls : charges[c] > 0}
Admitted == {c \in Counted \cup InFlight : under[c] # None}

\* A call that was charged was recorded; those admitted under a limit are those
\* the count had shown to the check, and those in flight.
Overshoot ==
    /\ IsFiniteSet(Counted \cup InFlight)
    /\ Cardinality(Counted) <= recorded.used
    /\ backend # "db" => Cardinality(Admitted) <= Limit - 1 + MaxInFlight

\* At first there is no call.
LEMMA InitOvershoot == Init => Overshoot
<1>1. SUFFICES ASSUME Init PROVE Overshoot
    OBVIOUS
<1>2. Counted = {} /\ InFlight = {} /\ Admitted = {} /\ Counted \cup InFlight = {}
    BY <1>1 DEF Init, Counted, InFlight, Admitted
<1>3. recorded.used = 0
    BY <1>1 DEF Init
<1>4. Limit \in Nat /\ MaxInFlight \in Nat \ {0}
    BY LimitsAreNatural, InFlightIsPositive
<1>5. IsFiniteSet({}) /\ Cardinality({}) = 0
    BY FS_EmptySet
<1>6. 0 <= Limit - 1 + MaxInFlight
    BY <1>4
<1>7. QED BY <1>2, <1>3, <1>5, <1>6 DEF Overshoot

\* The sets are finite, and parts of them are no larger.
LEMMA OvershootSets ==
    ASSUME IsFiniteSet(Counted \cup InFlight)
    PROVE  /\ IsFiniteSet(Counted) /\ IsFiniteSet(InFlight) /\ IsFiniteSet(Admitted)
           /\ Cardinality(Counted) \in Nat /\ Cardinality(InFlight) \in Nat
           /\ Cardinality(Admitted) \in Nat /\ Cardinality(Counted \cup InFlight) \in Nat
           /\ Cardinality(Counted \cup InFlight) <= Cardinality(Counted) + Cardinality(InFlight)
<1>1. /\ Counted \subseteq Counted \cup InFlight /\ InFlight \subseteq Counted \cup InFlight
      /\ Admitted \subseteq Counted \cup InFlight
      /\ Counted \cap InFlight \subseteq Counted \cup InFlight
    BY DEF Admitted
<1>2. /\ IsFiniteSet(Counted) /\ IsFiniteSet(InFlight) /\ IsFiniteSet(Admitted)
      /\ IsFiniteSet(Counted \cap InFlight)
    BY <1>1, FS_Subset
<1>3. /\ Cardinality(Counted) \in Nat /\ Cardinality(InFlight) \in Nat
      /\ Cardinality(Admitted) \in Nat /\ Cardinality(Counted \cup InFlight) \in Nat
      /\ Cardinality(Counted \cap InFlight) \in Nat
    BY <1>2, FS_CardinalityType
<1>4. Cardinality(Counted \cup InFlight)
        = Cardinality(Counted) + Cardinality(InFlight) - Cardinality(Counted \cap InFlight)
    BY <1>2, FS_Union
<1>5. QED BY <1>2, <1>3, <1>4

\* A step that charges no call and lets none in.
LEMMA OvershootShrinks ==
    ASSUME Overshoot, UNCHANGED <<backend, charges, recorded, under>>,
           InFlight' \subseteq InFlight
    PROVE  Overshoot'
<1>1. /\ Counted' = Counted /\ Counted' \cup InFlight' \subseteq Counted \cup InFlight
      /\ Admitted' \subseteq Admitted
    BY DEF Counted, Admitted
<1>2. IsFiniteSet(Counted \cup InFlight) /\ IsFiniteSet(Admitted) /\ Cardinality(Admitted) \in Nat
    BY OvershootSets DEF Overshoot
<1>3. /\ IsFiniteSet(Counted' \cup InFlight') /\ IsFiniteSet(Admitted')
      /\ Cardinality(Admitted') <= Cardinality(Admitted)
    BY <1>1, <1>2, FS_Subset
<1>4. Cardinality(Admitted') \in Nat /\ Limit \in Nat /\ MaxInFlight \in Nat
    BY <1>3, FS_CardinalityType, LimitsAreNatural, InFlightIsPositive
<1>5. backend' # "db" => Cardinality(Admitted') <= Limit - 1 + MaxInFlight
    BY <1>2, <1>3, <1>4 DEF Overshoot
<1>6. QED BY <1>1, <1>3, <1>5 DEF Overshoot

\* The check sees every charge but those of the calls in flight.
LEMMA BeginOvershoot ==
    ASSUME Overshoot, QuotaInv, CallInv, NEW c \in Calls, Begin(c)
    PROVE  Overshoot'
<1>1. /\ at[c] = "new" /\ at' = [at EXCEPT ![c] = "call"]
      /\ Cardinality(InFlight) < MaxInFlight /\ ~Exceeded
      /\ under' = [under EXCEPT ![c] = quota.limit]
      /\ UNCHANGED <<backend, charges, recorded>>
    BY DEF Begin, store, Goto
<1>2. /\ at \in [Calls -> {"new", "call", "late", "record", "answered"}]
      /\ under \in [Calls -> {None, Limit}] /\ quota \in Quotas /\ recorded \in [used : Nat, cpu : Nat]
      /\ backend # "db" => quota.used = recorded.used
    BY DEF CallInv, Stage, QuotaInv, QuotaTypes, Exact
<1>3. Counted' = Counted /\ InFlight' = InFlight \cup {c}
    BY <1>1, <1>2 DEF Counted, InFlight
<1>4. IsFiniteSet(Counted \cup InFlight) /\ Cardinality(Counted) <= recorded.used
    BY DEF Overshoot
<1> DEFINE All == Counted \cup InFlight
<1>5. Counted' \cup InFlight' = All \cup {c}
    BY <1>3
<1>6. IsFiniteSet(All \cup {c}) /\ Cardinality(All \cup {c}) <= Cardinality(All) + 1
    <2>1. IsFiniteSet(All) /\ Cardinality(All) \in Nat
        BY <1>4, OvershootSets
    <2> HIDE DEF All
    <2>2. /\ IsFiniteSet(All \cup {c})
          /\ Cardinality(All \cup {c}) = IF c \in All THEN Cardinality(All) ELSE Cardinality(All) + 1
        BY <2>1, FS_AddElement
    <2>3. QED BY <2>1, <2>2
<1>7. backend # "db" => Cardinality(Admitted') <= Limit - 1 + MaxInFlight
    <2>1. SUFFICES ASSUME backend # "db"
                   PROVE  Cardinality(Admitted') <= Limit - 1 + MaxInFlight
        OBVIOUS
    <2>2. CASE quota.limit = None
        <3>1. Admitted' = Admitted \/ Admitted' = Admitted \ {c}
            BY <1>1, <1>2, <1>3, <2>2 DEF Admitted
        <3>2. Admitted' \subseteq Admitted /\ IsFiniteSet(Admitted)
            BY <1>4, <3>1, OvershootSets
        <3>3. Cardinality(Admitted') <= Cardinality(Admitted) /\ IsFiniteSet(Admitted')
            BY <3>2, FS_Subset
        <3>4. Cardinality(Admitted') \in Nat /\ Cardinality(Admitted) \in Nat
            BY <3>2, <3>3, FS_CardinalityType
        <3>5. Limit \in Nat /\ MaxInFlight \in Nat
            BY LimitsAreNatural, InFlightIsPositive
        <3>6. QED BY <2>1, <3>3, <3>4, <3>5 DEF Overshoot
    <2>3. CASE quota.limit # None
        <3>1. quota.limit = Limit /\ Limit \in Nat /\ MaxInFlight \in Nat /\ quota.used \in Nat
            BY <1>2, <2>3, LimitsAreNatural, InFlightIsPositive DEF Quotas
        <3>2. ~(quota.used >= Limit)
            BY <1>1, <2>3, <3>1 DEF Exceeded, Reached
        <3>3. Admitted' \subseteq All \cup {c}
            BY <1>5 DEF Admitted
        <3>4. /\ Cardinality(Admitted') <= Cardinality(All \cup {c})
              /\ IsFiniteSet(Admitted')
            BY <1>6, <3>3, FS_Subset
        <3>5. Cardinality(Admitted') \in Nat /\ Cardinality(All \cup {c}) \in Nat
            BY <1>6, <3>4, FS_CardinalityType
        <3>6. /\ Cardinality(All) <= Cardinality(Counted) + Cardinality(InFlight)
              /\ Cardinality(All) \in Nat
              /\ Cardinality(Counted) \in Nat /\ Cardinality(InFlight) \in Nat
            BY <1>4, OvershootSets
        <3> DEFINE a == Cardinality(Admitted')
                   b == Cardinality(All \cup {c})
                   d == Cardinality(All)
                   k == Cardinality(Counted)
                   n == Cardinality(InFlight)
                   u == quota.used
        <3>7. /\ a \in Nat /\ b \in Nat /\ d \in Nat /\ k \in Nat /\ n \in Nat /\ u \in Nat
              /\ a <= b /\ b <= d + 1 /\ d <= k + n /\ k <= u /\ ~(u >= Limit) /\ n < MaxInFlight
            BY <1>1, <1>2, <1>4, <1>6, <2>1, <3>1, <3>2, <3>4, <3>5, <3>6
        <3> HIDE DEF a, b, d, k, n, u
        <3>8. a <= Limit - 1 + MaxInFlight
            BY <3>1, <3>7
        <3>9. QED BY <3>8 DEF a
    <2>4. QED BY <2>2, <2>3
<1>8. QED BY <1>1, <1>3, <1>4, <1>5, <1>6, <1>7 DEF Overshoot

\* A charge is recorded for a call in flight.
LEMMA RecordOvershoot ==
    ASSUME Overshoot, QuotaInv, CallInv, NEW c \in Calls, Record(c) \/ RecordUnheard(c)
    PROVE  Overshoot'
<1>1. /\ at[c] = "record" /\ charges' = [charges EXCEPT ![c] = @ + 1]
      /\ at' = [at EXCEPT ![c] = "answered"] \/ at' = [at EXCEPT ![c] = "record"]
      /\ UNCHANGED <<backend, under>>
    BY DEF Record, RecordUnheard, Charge, Raises, Answer, Forget, Goto
<1>2. recorded'.used = recorded.used + 1
    BY DEF Record, RecordUnheard, Charge
<1>3. /\ at \in [Calls -> {"new", "call", "late", "record", "answered"}]
      /\ charges \in [Calls -> Nat] /\ recorded.used \in Nat
    BY DEF CallInv, Stage, QuotaInv, QuotaTypes
<1>4. c \in InFlight /\ InFlight' \subseteq InFlight
    BY <1>1, <1>3 DEF InFlight
<1>5. Counted' = Counted \cup {c}
    <2>1. \A e \in Calls : charges'[e] = IF e = c THEN charges[e] + 1 ELSE charges[e]
        BY <1>1, <1>3
    <2>2. charges[c] + 1 > 0
        BY <1>3
    <2>3. QED BY <2>1, <2>2 DEF Counted
<1>6. /\ Counted' \cup InFlight' \subseteq Counted \cup InFlight
      /\ Admitted' \subseteq Admitted
    BY <1>1, <1>4, <1>5 DEF Admitted
<1>7. /\ IsFiniteSet(Counted \cup InFlight) /\ IsFiniteSet(Admitted) /\ IsFiniteSet(Counted)
      /\ Cardinality(Admitted) \in Nat /\ Cardinality(Counted) \in Nat
    BY OvershootSets DEF Overshoot
<1>8. /\ IsFiniteSet(Counted' \cup InFlight') /\ IsFiniteSet(Admitted')
      /\ Cardinality(Admitted') <= Cardinality(Admitted)
    BY <1>6, <1>7, FS_Subset
<1>9. Cardinality(Admitted') \in Nat /\ Limit \in Nat /\ MaxInFlight \in Nat
    BY <1>8, FS_CardinalityType, LimitsAreNatural, InFlightIsPositive
<1>10. backend' # "db" => Cardinality(Admitted') <= Limit - 1 + MaxInFlight
    BY <1>1, <1>7, <1>8, <1>9 DEF Overshoot
<1>11. Cardinality(Counted') <= recorded'.used
    <2>1. Cardinality(Counted') \in {Cardinality(Counted), Cardinality(Counted) + 1}
        BY <1>5, <1>7, FS_AddElement
    <2>2. Cardinality(Counted) <= recorded.used
        BY DEF Overshoot
    <2>3. QED BY <1>2, <1>3, <1>7, <2>1, <2>2
<1>12. QED BY <1>8, <1>10, <1>11 DEF Overshoot

\* Every step keeps the bound.
LEMMA StepOvershoot == Overshoot /\ QuotaInv /\ CallInv /\ [Next]_vars => Overshoot'
<1>0. SUFFICES ASSUME Overshoot, QuotaInv, CallInv, [Next]_vars PROVE Overshoot'
    OBVIOUS
<1>1. at \in [Calls -> {"new", "call", "late", "record", "answered"}]
    BY <1>0 DEF CallInv, Stage
<1>2. CASE UNCHANGED vars
    <2>1. UNCHANGED <<backend, charges, recorded, under>> /\ InFlight' = InFlight
        BY <1>2 DEF vars, store, history, call, InFlight
    <2>2. QED BY <1>0, <2>1, OvershootShrinks
<1>3. ASSUME NEW c \in Calls,
             NotFound(c) \/ Refuse(c) \/ NoDocker(c) \/ ToolEnds(c) \/ Collect(c) \/ Timeout(c)
                \/ InlineTimeout(c) \/ LateEnd(c) \/ RecordRead(c) \/ RecordFails(c)
      PROVE  Overshoot'
    <2>1. UNCHANGED <<backend, charges, recorded, under>>
        BY <1>3 DEF NotFound, Refuse, NoDocker, ToolEnds, Collect, Timeout, InlineTimeout, LateEnd,
            RecordRead, RecordFails, Read, Forget, store, history
    <2>2. \/ at' = at
          \/ at' = [at EXCEPT ![c] = "answered"]
          \/ at[c] = "call" /\ at' = [at EXCEPT ![c] = "late"]
          \/ at[c] = "call" /\ at' = [at EXCEPT ![c] = "record"]
        BY <1>3 DEF NotFound, Refuse, NoDocker, ToolEnds, Collect, Timeout, InlineTimeout, LateEnd,
            RecordRead, RecordFails, Raises, call, Answer, Goto
    <2>3. InFlight' \subseteq InFlight
        BY <1>1, <2>2 DEF InFlight
    <2>4. QED BY <1>0, <2>1, <2>3, OvershootShrinks
<1>4. ASSUME NEW s \in Setters, SetRead(s) \/ SetQuota(s) \/ SetUnheard(s) \/ SetFails(s)
      PROVE  Overshoot'
    <2>1. UNCHANGED <<backend, charges, recorded, under>> /\ at' = at
        BY <1>4 DEF SetRead, SetQuota, SetUnheard, SetWrite, SetFails, Read, Forget, history, call
    <2>2. InFlight' = InFlight
        BY <2>1 DEF InFlight
    <2>3. QED BY <1>0, <2>1, <2>2, OvershootShrinks
<1>5. QED BY <1>0, <1>2, <1>3, <1>4, BeginOvershoot, RecordOvershoot DEF Next, Proceed

\* In memory and in Redis the calls that are admitted under a limit and charged
\* exceed it by less than the calls in flight together, though run_tool checks
\* the quota before a run and charges it after.
THEOREM OvershootOfRuns == Spec => []QuotaBoundsRuns
<1>1. Overshoot => QuotaBoundsRuns
    <2>1. SUFFICES ASSUME Overshoot, backend # "db"
                   PROVE  Cardinality({c \in Calls : under[c] # None /\ charges[c] > 0})
                            <= Limit - 1 + MaxInFlight
        BY DEF QuotaBoundsRuns
    <2> DEFINE Ran == {c \in Calls : under[c] # None /\ charges[c] > 0}
    <2>2. Ran \subseteq Admitted /\ IsFiniteSet(Admitted) /\ Cardinality(Admitted) \in Nat
        BY <2>1, OvershootSets DEF Overshoot, Admitted, Counted
    <2>3. Cardinality(Ran) <= Cardinality(Admitted) /\ IsFiniteSet(Ran)
        BY <2>2, FS_Subset
    <2>4. Cardinality(Ran) \in Nat /\ Limit \in Nat /\ MaxInFlight \in Nat
        BY <2>3, FS_CardinalityType, LimitsAreNatural, InFlightIsPositive
    <2> HIDE DEF Ran
    <2>5. Cardinality(Ran) <= Limit - 1 + MaxInFlight
        BY <2>1, <2>2, <2>3, <2>4 DEF Overshoot
    <2>6. QED BY <2>5 DEF Ran
<1>2. QED BY <1>1, InitOvershoot, StepOvershoot, InitQuotaInv, StepQuotaInv, CallsKeep, PTL DEF Spec
=============================================================================
