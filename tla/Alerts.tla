------------------------------- MODULE Alerts -------------------------------
(***************************************************************************)
(* From a dead-lettered task to the people told of it: EventBus.dead_letter  *)
(* (orchestrator/event_bus.py) buries the task and alerts                    *)
(* (observability/alerts.py): in memory, by a post to a webhook, and by a    *)
(* post to Alertmanager, which notifies its webhook and repeats that until   *)
(* it is answered (docker/alertmanager.yml).  The webhook                    *)
(* (docker/alert_webhook.py) stores what it is sent under a lock, forwards   *)
(* it to the channels it is configured for and answers, a thread a request.  *)
(***************************************************************************)
EXTENDS Integers, Sequences, FiniteSets

CONSTANTS
    Burials,        \* the calls of dead_letter
    Name,           \* the task name of each, the label that tells alerts apart
    Requests,       \* the threads of the webhook
    Channels,       \* the channels it forwards to, in order
    ListMax,        \* the most records a GET returns (100)
    Manager,        \* the sender of Alertmanager's notifications
    None,           \* no answer
    MaxFaults       \* bound on the faults: Alertmanager's timeouts, crashes of the
                    \* webhook, inserts that fail or hang, together

Names == {Name[b] : b \in Burials}

ASSUME ManagerIsNoBurial == Manager \notin Burials
ASSUME ChannelsAreASequence == Channels \in Seq({"slack", "discord", "email"})
ASSUME ListMaxIsPositive == ListMax \in Nat \ {0}

VARIABLES
    webhookUrl, managerUrl,  \* whether the environment names them
    at,             \* the stage of each burial
    dead,           \* the burials whose task is a dead letter
    alerts,         \* the dispatcher's list, without its order
    answer,         \* what the webhook answered to each burial's post
    req,            \* the webhook's threads
    store,          \* the alert_notifications table, by id
    alert,          \* Alertmanager: the status of each name
    told,           \* Alertmanager: the status it was last answered for
    late,           \* history: names a notification of which went unanswered
    faults          \* faults so far

sender == <<at, dead, alerts, answer>>
manager == <<alert, told>>
urls == <<webhookUrl, managerUrl>>
vars == <<urls, sender, req, store, manager, late, faults>>

Idle == [stage |-> "idle", from |-> None, name |-> None, status |-> "none",
         id |-> 0, tried |-> <<>>, waits |-> FALSE]

Init ==
    /\ webhookUrl \in BOOLEAN /\ managerUrl \in BOOLEAN
    /\ at = [b \in Burials |-> "new"]
    /\ dead = {}
    /\ alerts = {}
    /\ answer = [b \in Burials |-> None]
    /\ req = [r \in Requests |-> Idle]
    /\ store = <<>>
    /\ alert = [n \in Names |-> "none"]
    /\ told = [n \in Names |-> "none"]
    /\ late = {}
    /\ faults = 0

Goto(b, s) == at' = [at EXCEPT ![b] = s]

\* A thread of the webhook takes a request.
Connect(from, name, status) ==
    \E r \in Requests :
        /\ req[r].stage = "idle"
        /\ req' = [req EXCEPT ![r] = [Idle EXCEPT
                    !.stage = "insert", !.from = from, !.name = name, !.status = status,
                    !.waits = TRUE]]

----------------------------------------------------------------------------
(* EventBus.dead_letter and alert_dead_letter, in the worker *)

\* The backend's dead_letter returns.
Bury(b) ==
    /\ at[b] = "new"
    /\ dead' = dead \cup {b}
    /\ Goto(b, "buried")
    /\ UNCHANGED <<urls, alerts, answer, req, store, manager, late, faults>>

\* It raises: dead_letter raises, without an alert.
BuryFails(b) ==
    /\ at[b] = "new"
    /\ Goto(b, "raised")
    /\ UNCHANGED <<urls, dead, alerts, answer, req, store, manager, late, faults>>

\* The dispatcher's record, under its lock.
Notify(b) ==
    /\ at[b] = "buried"
    /\ alerts' = alerts \cup {b}
    /\ Goto(b, IF webhookUrl THEN "webhook" ELSE "manager")
    /\ UNCHANGED <<urls, dead, answer, req, store, manager, late, faults>>

PostWebhook(b) ==
    /\ at[b] = "webhook"
    /\ Connect(b, Name[b], "posted")
    /\ Goto(b, "posting")
    /\ UNCHANGED <<urls, dead, alerts, answer, store, manager, late, faults>>

\* Nobody listens: logged.
PostWebhookFails(b) ==
    /\ at[b] = "webhook"
    /\ Goto(b, "manager")
    /\ UNCHANGED <<urls, dead, alerts, answer, req, store, manager, late, faults>>

WaitsFor(r, from, name) == req[r].waits /\ req[r].from = from /\ req[r].name = name
\* The sender's end of a post is gone; the thread that serves it is not.
Abandon(from, name) ==
    req' = [r \in Requests |-> IF WaitsFor(r, from, name)
                               THEN [req[r] EXCEPT !.waits = FALSE] ELSE req[r]]

\* Mutant of GiveUp: a post without a timeout.
GiveUpNever(b) == b \notin Burials /\ UNCHANGED vars

\* Mutant of GiveUp: the sender goes on and keeps the post open.
GiveUpHalf(b) ==
    /\ at[b] = "posting"
    /\ Goto(b, "manager")
    /\ UNCHANGED <<urls, dead, alerts, answer, req, store, manager, late, faults>>

\* Five seconds pass.
GiveUp(b) ==
    /\ at[b] = "posting"
    /\ Abandon(b, Name[b])
    /\ Goto(b, "manager")
    /\ UNCHANGED <<urls, dead, alerts, answer, store, manager, late, faults>>

\* Alertmanager takes the alert: alerts of one task name are one alert.
PostManager(b) ==
    /\ at[b] = "manager" /\ managerUrl
    /\ alert' = [alert EXCEPT ![Name[b]] = "firing"]
    /\ Goto(b, "done")
    /\ UNCHANGED <<urls, dead, alerts, answer, req, store, told, late, faults>>

\* There is none, it is unreachable, or it refuses, whose status is not looked at.
SkipManager(b) ==
    /\ at[b] = "manager"
    /\ Goto(b, "done")
    /\ UNCHANGED <<urls, dead, alerts, answer, req, store, manager, late, faults>>

WorkerDies(b) ==
    /\ at[b] \in {"buried", "webhook", "posting", "manager"}
    /\ Abandon(b, Name[b])
    /\ Goto(b, "gone")
    /\ UNCHANGED <<urls, dead, alerts, answer, store, manager, late, faults>>

----------------------------------------------------------------------------
(* Alertmanager *)

\* resolve_timeout without another post.
Resolve(n) ==
    /\ alert[n] = "firing"
    /\ alert' = [alert EXCEPT ![n] = "resolved"]
    /\ UNCHANGED <<urls, sender, req, store, told, late, faults>>

\* A status it was not answered for; an alert that was never notified is not
\* notified as resolved.
Notification(n) ==
    /\ alert[n] # told[n] /\ ~(told[n] = "none" /\ alert[n] = "resolved")
    /\ \A r \in Requests : ~WaitsFor(r, Manager, n)
    /\ Connect(Manager, n, alert[n])
    /\ UNCHANGED <<urls, sender, store, manager, late, faults>>

NotificationTimesOut(n) ==
    /\ faults < MaxFaults
    /\ \E r \in Requests : WaitsFor(r, Manager, n)
    /\ Abandon(Manager, n)
    /\ faults' = faults + 1
    /\ late' = late \cup {n}
    /\ UNCHANGED <<urls, sender, store, manager>>

----------------------------------------------------------------------------
(* The webhook: do_POST *)

\* What the sender that waits for r learns: an answer, or a closed connection.
\* Burials go on in any case.
Closed(r) ==
    at' = [b \in Burials |-> IF WaitsFor(r, b, Name[b]) THEN "manager" ELSE at[b]]

\* A thread holds DB_LOCK while a database it connects to does not answer.
Hung == \E r \in Requests : req[r].stage = "hung"

Hangs(r) ==
    /\ faults < MaxFaults
    /\ req[r].stage = "insert" /\ ~Hung
    /\ faults' = faults + 1
    /\ req' = [req EXCEPT ![r].stage = "hung"]
    /\ UNCHANGED <<urls, sender, store, manager, late>>

\* Mutant of Insert: answered first, stored by and by.
InsertLater(r) ==
    /\ req[r].stage = "insert"
    /\ req' = [req EXCEPT ![r].stage = "forward"]
    /\ UNCHANGED <<urls, sender, store, manager, late, faults>>

\* Mutant of Insert: newest first.
InsertFirst(r) ==
    /\ req[r].stage = "insert"
    /\ store' = <<[from |-> req[r].from, name |-> req[r].name,
                   status |-> req[r].status]>> \o store
    /\ req' = [req EXCEPT ![r].id = 1,
                          ![r].stage = IF Channels = <<>> THEN "reply" ELSE "forward"]
    /\ UNCHANGED <<urls, sender, manager, late, faults>>

\* insert_record, under DB_LOCK: the ids ascend.
Insert(r) ==
    /\ req[r].stage = "insert" /\ ~Hung
    /\ store' = Append(store, [from |-> req[r].from, name |-> req[r].name,
                               status |-> req[r].status])
    /\ req' = [req EXCEPT ![r].id = Len(store) + 1,
                          ![r].stage = IF Channels = <<>> THEN "reply" ELSE "forward"]
    /\ UNCHANGED <<urls, sender, manager, late, faults>>

\* Mutant of InsertFails: the error is swallowed, and the sender answered.
InsertFailsSilently(r) ==
    /\ faults < MaxFaults
    /\ req[r].stage = "insert"
    /\ faults' = faults + 1
    /\ req' = [req EXCEPT ![r].stage = "reply", ![r].tried = Channels]
    /\ UNCHANGED <<urls, sender, store, manager, late>>

\* The database fails: the handler raises, and the connection is closed.
InsertFails(r) ==
    /\ faults < MaxFaults
    /\ req[r].stage = "insert" /\ ~Hung
    /\ faults' = faults + 1
    /\ Closed(r)
    /\ req' = [req EXCEPT ![r] = Idle]
    /\ UNCHANGED <<urls, dead, alerts, answer, store, manager, late>>

\* The next channel that r has not tried.
Onward(r) ==
    LET tried == Append(req[r].tried, Channels[Len(req[r].tried) + 1]) IN
    req' = [req EXCEPT ![r].tried = tried,
                       ![r].stage = IF tried = Channels THEN "reply" ELSE "forward"]

\* To the next channel, whose error is printed; ten seconds at most.
Forward(r) ==
    /\ req[r].stage = "forward"
    /\ Onward(r)
    /\ UNCHANGED <<urls, sender, store, manager, late, faults>>

\* 200 with the record's id, to a sender that may have given up.
Reply(r) ==
    /\ req[r].stage = "reply"
    /\ req' = [req EXCEPT ![r] = Idle]
    /\ Closed(r)
    /\ answer' = [b \in Burials |-> IF WaitsFor(r, b, Name[b]) THEN req[r].id ELSE answer[b]]
    /\ told' = [n \in Names |-> IF WaitsFor(r, Manager, n) THEN req[r].status ELSE told[n]]
    /\ UNCHANGED <<urls, dead, alerts, store, alert, late, faults>>

\* The webhook restarts: initialize_store keeps the table.
Crash ==
    /\ faults < MaxFaults
    /\ faults' = faults + 1
    /\ req' = [r \in Requests |-> Idle]
    /\ at' = [b \in Burials |-> IF at[b] = "posting" THEN "manager" ELSE at[b]]
    /\ late' = late \cup {n \in Names : \E r \in Requests : WaitsFor(r, Manager, n)}
    /\ UNCHANGED <<urls, dead, alerts, answer, store, manager>>

\* fetch_records, of GET /alerts: the newest ones, oldest first.
FetchRecords(limit) ==
    LET most == IF limit < 1 THEN 1 ELSE IF limit > ListMax THEN ListMax ELSE limit
        first == Len(store) - most + 1
    IN  SubSeq(store, IF first < 1 THEN 1 ELSE first, Len(store))

----------------------------------------------------------------------------

DeadLetter(b) ==
    \/ Bury(b) \/ BuryFails(b) \/ Notify(b) \/ PostWebhook(b) \/ PostWebhookFails(b)
    \/ GiveUp(b) \/ PostManager(b) \/ SkipManager(b)

Serve(r) == Insert(r) \/ InsertFails(r) \/ Forward(r) \/ Reply(r)

Next ==
    \/ \E b \in Burials : DeadLetter(b) \/ WorkerDies(b)
    \/ \E n \in Names : Resolve(n) \/ Notification(n) \/ NotificationTimesOut(n)
    \/ \E r \in Requests : Serve(r) \/ Hangs(r)
    \/ Crash

Spec == Init /\ [][Next]_vars

\* Workers and threads run, posts have timeouts, Alertmanager repeats itself.
LiveSpec ==
    /\ Spec
    /\ \A b \in Burials : WF_vars(at[b] # "new" /\ DeadLetter(b))
    /\ \A n \in Names : WF_vars(Notification(n))
    /\ \A r \in Requests : WF_vars(Serve(r))

----------------------------------------------------------------------------
(* Properties *)

Stages == {"new", "buried", "webhook", "posting", "manager", "done", "raised", "gone"}

\* Types; who alerts has buried its task; and a burial posts exactly while a
\* thread serves a request it waits for.
AlertsTypeOK ==
    /\ at \in [Burials -> Stages]
    /\ alerts \subseteq dead
    /\ \A b \in Burials : b \in dead <=> at[b] \notin {"new", "raised"}
    /\ alert \in [Names -> {"none", "firing", "resolved"}]
    /\ told \in [Names -> {"none", "firing", "resolved"}]
    /\ \A r \in Requests :
        req[r].stage = "idle" \/ req[r].from \in Burials \cup {Manager}
    /\ \A b \in Burials :
        at[b] = "posting" <=> \E r \in Requests : WaitsFor(r, b, Name[b])

\* What is forwarded is in the table before; a thread that answers has tried
\* every channel; and a burial that was answered finds its one record, listed
\* by GET /alerts until newer ones displace it.
StoredBeforeTold ==
    /\ \A r \in Requests : req[r].stage \in {"forward", "reply"} =>
        /\ req[r].id \in DOMAIN store
        /\ store[req[r].id] = [from |-> req[r].from, name |-> req[r].name,
                               status |-> req[r].status]
        /\ req[r].stage = "reply" => req[r].tried = Channels
    /\ \A b \in Burials :
        LET records == {i \in DOMAIN store : store[i].from = b} IN
        /\ \A i, j \in records : i = j
        /\ answer[b] # None => answer[b] \in records
        /\ answer[b] # None /\ Len(store) - answer[b] < ListMax =>
                \E i \in DOMAIN FetchRecords(ListMax) : FetchRecords(ListMax)[i].from = b

\* The last record of a task name tells the status that Alertmanager was last
\* answered for, or the one it waits to be: as long as every notification of
\* the name was answered (an abandoned thread stores its record after newer ones).
LatestTellsStatus ==
    \A n \in Names \ late :
        LET of == {i \in DOMAIN store : store[i].from = Manager /\ store[i].name = n} IN
        \A i \in of :
            \/ \E j \in of : j > i
            \/ store[i].status = told[n]
            \/ \E r \in Requests : WaitsFor(r, Manager, n) /\ req[r].id = i

\* dead_letter ends, whatever the webhook and Alertmanager do.
BurialsEnd == \A b \in Burials : at[b] = "buried" ~> at[b] \in {"done", "gone"}

\* An alert that Alertmanager took reaches the table, unless it is resolved
\* first or a hung database keeps the lock.
FiringIsStored ==
    \A n \in Names : alert[n] = "firing" ~>
        \/ alert[n] = "resolved" \/ Hung
        \/ \E i \in DOMAIN store : store[i].name = n /\ store[i].status = "firing"
=============================================================================
