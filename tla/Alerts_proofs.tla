--------------------------- MODULE Alerts_proofs ---------------------------
(***************************************************************************)
(* Proofs about Alerts, for any burials, threads, channels and bounds: types; *)
(* what is forwarded or answered is in the table, once a burial; and the     *)
(* last record of a name tells what Alertmanager was last answered for.      *)
(***************************************************************************)
EXTENDS Alerts, TLAPS

Status == {"none", "firing", "resolved"}
Senders == Burials \cup {Manager}

Request ==
    [stage : {"idle", "insert", "hung", "forward", "reply"},
     from : Senders \cup {None}, name : Names \cup {None},
     status : Status \cup {"posted"}, id : Nat,
     tried : Seq({"slack", "discord", "email"}), waits : BOOLEAN]

Stored == [from : Senders, name : Names, status : Status \cup {"posted"}]

Types ==
    /\ at \in [Burials -> Stages]
    /\ dead \subseteq Burials /\ alerts \subseteq dead
    /\ answer \in [Burials -> Nat \cup {None}]
    /\ req \in [Requests -> Request]
    /\ store \in Seq(Stored)
    /\ alert \in [Names -> Status] /\ told \in [Names -> Status]

Serving(r) == req[r].stage # "idle"
Unstored(r) == req[r].stage \in {"insert", "hung"}

\* Whom a thread serves: it waits for its answer only while it is served, and
\* posts what it is about.
ServesSenders ==
    \A r \in Requests :
        /\ req[r].waits => Serving(r)
        /\ Serving(r) => req[r].from \in Senders /\ req[r].name \in Names
        /\ Serving(r) /\ req[r].from \in Burials => req[r].name = Name[req[r].from]
        /\ Serving(r) /\ req[r].from = Manager => req[r].status \in Status

Buried == \A b \in Burials : b \in dead <=> at[b] \notin {"new", "raised"}

PostsWhileServed ==
    \A b \in Burials : at[b] = "posting" <=> \E r \in Requests : WaitsFor(r, b, Name[b])

\* A burial posts once: before, nothing of it is served or stored; one thread
\* serves it, and until that inserts nothing of it is stored.
PostsOnce ==
    /\ \A b \in Burials : at[b] \in {"new", "buried", "webhook", "raised"} =>
        /\ \A r \in Requests : Serving(r) => req[r].from # b
        /\ \A i \in DOMAIN store : store[i].from # b
    /\ \A q, r \in Requests :
        Serving(q) /\ Serving(r) /\ req[q].from = req[r].from /\ req[q].from \in Burials
            => q = r
    /\ \A r \in Requests : Unstored(r) /\ req[r].from \in Burials =>
        \A i \in DOMAIN store : store[i].from # req[r].from

\* A thread tries the channels in order, after it inserted, before it answers.
TriesInOrder ==
    \A r \in Requests :
        /\ Unstored(r) => req[r].tried = <<>>
        /\ req[r].stage = "forward" =>
            /\ Len(req[r].tried) < Len(Channels)
            /\ \A k \in 1..Len(req[r].tried) : req[r].tried[k] = Channels[k]
        /\ req[r].stage = "reply" => req[r].tried = Channels

InsertedFirst ==
    \A r \in Requests : req[r].stage \in {"forward", "reply"} =>
        /\ req[r].id \in DOMAIN store
        /\ store[req[r].id] = [from |-> req[r].from, name |-> req[r].name,
                               status |-> req[r].status]

OneRecord ==
    \A b \in Burials : \A i, j \in DOMAIN store :
        store[i].from = b /\ store[j].from = b => i = j

AnswersRecord ==
    \A b \in Burials : answer[b] # None =>
        answer[b] \in DOMAIN store /\ store[answer[b]].from = b

Inv ==
    /\ Types /\ ServesSenders /\ Buried /\ PostsWhileServed /\ PostsOnce
    /\ TriesInOrder /\ InsertedFirst /\ OneRecord /\ AnswersRecord

----------------------------------------------------------------------------

\* The name of a burial is one of the names.
LEMMA BurialsHaveNames == \A b \in Burials : Name[b] \in Names
BY DEF Names

\* The start: nothing is buried, served or stored.
LEMMA InitInv == Init => Inv
<1>1. ASSUME Init PROVE Inv
    <2>1. Idle \in Request
        BY DEF Idle, Request, Status
    <2>2. Types
        BY <1>1, <2>1 DEF Init, Types, Stages, Status
    <2>3. \A r \in Requests : req[r] = Idle
        BY <1>1 DEF Init
    <2>4. ServesSenders /\ TriesInOrder /\ InsertedFirst /\ PostsWhileServed
        BY <1>1, <2>3 DEF Init, Idle, ServesSenders, TriesInOrder, InsertedFirst,
            PostsWhileServed, WaitsFor, Serving, Unstored
    <2>5. PostsOnce
        BY <1>1, <2>3 DEF Init, Idle, PostsOnce, Serving, Unstored
    <2>6. Buried /\ OneRecord /\ AnswersRecord
        BY <1>1 DEF Init, Buried, OneRecord, AnswersRecord
    <2>7. QED BY <2>2, <2>4, <2>5, <2>6 DEF Inv
<1>2. QED BY <1>1

\* The steps that leave the webhook alone and move one burial to a stage where
\* it does not post.
LEMMA MoveInv ==
    ASSUME Inv, NEW b \in Burials, NEW s \in Stages \ {"posting"},
           at[b] # "posting", Goto(b, s),
           s \in {"new", "buried", "webhook", "raised"} =>
                at[b] \in {"new", "buried", "webhook", "raised"},
           dead' \subseteq Burials, alerts' \subseteq dead',
           \A c \in Burials : c # b => (c \in dead' <=> c \in dead),
           b \in dead' <=> s \notin {"new", "raised"},
           alert' \in [Names -> Status],
           UNCHANGED <<answer, req, store, told>>
    PROVE  Inv'
<1>1. Types'
    BY DEF Inv, Types, Goto
<1>2. ServesSenders' /\ TriesInOrder' /\ InsertedFirst' /\ OneRecord' /\ AnswersRecord'
    BY DEF Inv, ServesSenders, TriesInOrder, InsertedFirst, OneRecord, AnswersRecord,
        Serving, Unstored
<1>3. \A c \in Burials : at'[c] = IF c = b THEN s ELSE at[c]
    BY DEF Inv, Types, Goto
<1>4. Buried'
    BY <1>3 DEF Inv, Buried
<1>5. PostsWhileServed'
    BY <1>3 DEF Inv, PostsWhileServed, WaitsFor
<1>6. PostsOnce'
    <2>1. \A c \in Burials : at'[c] \in {"new", "buried", "webhook", "raised"} =>
                at[c] \in {"new", "buried", "webhook", "raised"}
        BY <1>3
    <2>2. QED BY <2>1 DEF Inv, PostsOnce, Serving, Unstored
<1>7. QED BY <1>1, <1>2, <1>4, <1>5, <1>6 DEF Inv

\* A sender that waits for nobody is connected to an idle thread.
LEMMA ConnectInv ==
    ASSUME Inv, NEW from \in Senders, NEW name \in Names, NEW status \in Status \cup {"posted"},
           Connect(from, name, status),
           from = Manager => status \in Status,
           from \in Burials => at[from] = "webhook" /\ name = Name[from] /\ Goto(from, "posting"),
           from = Manager => at' = at,
           UNCHANGED <<dead, alerts, answer, store, alert, told>>
    PROVE  Inv'
<1> DEFINE New == [Idle EXCEPT !.stage = "insert", !.from = from, !.name = name,
                               !.status = status, !.waits = TRUE]
<1>1. PICK r \in Requests : req[r].stage = "idle" /\ req' = [req EXCEPT ![r] = New]
    BY DEF Connect
<1>2. New \in Request
    <2>1. Idle \in Request
        BY DEF Idle, Request, Status
    <2>2. \A x \in Request :
            [x EXCEPT !.stage = "insert", !.from = from, !.name = name,
                      !.status = status, !.waits = TRUE] \in Request
        BY DEF Request
    <2>3. QED BY <2>1, <2>2
<1>3. /\ New.stage = "insert" /\ New.from = from /\ New.name = name
      /\ New.status = status /\ New.tried = <<>> /\ New.waits
    BY DEF Idle
<1> HIDE DEF New
<1>4. \A q \in Requests : req'[q] = IF q = r THEN New ELSE req[q]
    BY <1>1 DEF Inv, Types
<1>6. Types'
    BY <1>1, <1>2 DEF Inv, Types, Goto, Stages, Senders
<1>7. \A c \in Burials : at'[c] = IF c = from THEN "posting" ELSE at[c]
    BY ManagerIsNoBurial DEF Inv, Types, Goto, Senders
<1>8. ServesSenders'
    BY <1>3, <1>4 DEF Inv, ServesSenders, Serving, Senders
<1>9. Buried'
    BY <1>7 DEF Inv, Buried
<1>10. \A q \in Requests, c \in Burials :
        WaitsFor(q, c, Name[c])' <=> IF q = r THEN c = from ELSE WaitsFor(q, c, Name[c])
    BY <1>3, <1>4 DEF WaitsFor
<1>11. \A c \in Burials : ~WaitsFor(r, c, Name[c])
    BY <1>1 DEF Inv, ServesSenders, Serving, WaitsFor
<1>12. PostsWhileServed'
    BY <1>7, <1>10, <1>11 DEF Inv, PostsWhileServed
<1>13. PostsOnce'
    <2>1. \A c \in Burials : at'[c] \in {"new", "buried", "webhook", "raised"} =>
                c # from /\ at[c] \in {"new", "buried", "webhook", "raised"}
        BY <1>7
    <2>2. from \in Burials =>
            /\ \A q \in Requests : Serving(q) => req[q].from # from
            /\ \A i \in DOMAIN store : store[i].from # from
        BY DEF Inv, PostsOnce
    <2>3. \A c \in Burials : at'[c] \in {"new", "buried", "webhook", "raised"} =>
            /\ \A q \in Requests : Serving(q)' => req'[q].from # c
            /\ \A i \in DOMAIN store' : store'[i].from # c
        BY <1>3, <1>4, <2>1 DEF Inv, PostsOnce, Serving
    <2>4. \A p, q \in Requests :
            Serving(p)' /\ Serving(q)' /\ req'[p].from = req'[q].from /\ req'[p].from \in Burials
                => p = q
        BY <1>3, <1>4, <2>2 DEF Inv, PostsOnce, Serving
    <2>5. \A q \in Requests : Unstored(q)' /\ req'[q].from \in Burials =>
            \A i \in DOMAIN store' : store'[i].from # req'[q].from
        BY <1>3, <1>4, <2>2 DEF Inv, PostsOnce, Unstored
    <2>6. QED BY <2>3, <2>4, <2>5 DEF PostsOnce
<1>14. TriesInOrder' /\ InsertedFirst'
    BY <1>3, <1>4 DEF Inv, TriesInOrder, InsertedFirst, Unstored
<1>15. OneRecord' /\ AnswersRecord'
    BY DEF Inv, OneRecord, AnswersRecord
<1>16. QED BY <1>6, <1>8, <1>9, <1>12, <1>13, <1>14, <1>15 DEF Inv

\* A sender gives up, and the thread that serves it goes on without.
LEMMA AbandonInv ==
    ASSUME Inv, NEW from \in Senders, NEW name \in Names, Abandon(from, name),
           from = Manager => at' = at,
           from \in Burials =>
            /\ name = Name[from]
            /\ at[from] \notin {"new", "raised"}
            /\ \E s \in {"manager", "gone"} : Goto(from, s),
           UNCHANGED <<dead, alerts, answer, store, alert, told>>
    PROVE  Inv'
<1>1. \A r \in Requests : req'[r] = IF WaitsFor(r, from, name)
                                    THEN [req[r] EXCEPT !.waits = FALSE] ELSE req[r]
    BY DEF Abandon
<1>2. \A r \in Requests : req[r] \in Request
    BY DEF Inv, Types
<1>3. \A r \in Requests :
        /\ req'[r] \in Request
        /\ req'[r].stage = req[r].stage /\ req'[r].from = req[r].from
        /\ req'[r].name = req[r].name /\ req'[r].status = req[r].status
        /\ req'[r].id = req[r].id /\ req'[r].tried = req[r].tried
        /\ req'[r].waits <=> req[r].waits /\ ~WaitsFor(r, from, name)
    <2>1. TAKE r \in Requests
    <2>2. CASE WaitsFor(r, from, name)
        <3>1. req'[r] = [req[r] EXCEPT !.waits = FALSE]
            BY <1>1, <2>2
        <3>2. QED BY <1>2, <2>2, <3>1 DEF Request
    <2>3. CASE ~WaitsFor(r, from, name)
        BY <1>1, <1>2, <2>3
    <2>4. QED BY <2>2, <2>3
<1>4. req' \in [Requests -> Request]
    BY <1>3 DEF Abandon
<1>5. Types'
    BY <1>4 DEF Inv, Types, Goto, Stages, Senders
<1>6. \A c \in Burials :
        /\ c # from => at'[c] = at[c]
        /\ c = from => at'[c] \in {"manager", "gone"}
    BY ManagerIsNoBurial DEF Inv, Types, Goto, Senders
<1>7. ServesSenders' /\ TriesInOrder' /\ InsertedFirst'
    <2>1. ServesSenders'
        BY <1>3 DEF Inv, ServesSenders, Serving
    <2>2. TriesInOrder'
        BY <1>3 DEF Inv, TriesInOrder, Unstored
    <2>3. InsertedFirst'
        BY <1>3 DEF Inv, InsertedFirst
    <2>4. QED BY <2>1, <2>2, <2>3
<1>8. Buried'
    BY <1>6 DEF Inv, Buried
<1>9. \A r \in Requests, c \in Burials :
        WaitsFor(r, c, Name[c])' <=> c # from /\ WaitsFor(r, c, Name[c])
    BY <1>3 DEF WaitsFor
<1>10. PostsWhileServed'
    BY <1>6, <1>9 DEF Inv, PostsWhileServed
<1>11. PostsOnce'
    BY <1>3, <1>6 DEF Inv, PostsOnce, Serving, Unstored
<1>12. OneRecord' /\ AnswersRecord'
    BY DEF Inv, OneRecord, AnswersRecord
<1>13. QED BY <1>5, <1>7, <1>8, <1>10, <1>11, <1>12 DEF Inv

----------------------------------------------------------------------------
(* The webhook *)

\* What a stage, an id and the channels tried may become.
LEMMA RequestUpdates ==
    \A x \in Request :
        /\ [x EXCEPT !.stage = "hung"] \in Request
        /\ \A i \in Nat, s \in {"forward", "reply"} :
            [x EXCEPT !.id = i, !.stage = s] \in Request
        /\ \A t \in Seq({"slack", "discord", "email"}), s \in {"forward", "reply"} :
            [x EXCEPT !.tried = t, !.stage = s] \in Request
BY DEF Request

\* A thread keeps the lock: only its stage changes.
LEMMA HangsInv == ASSUME Inv, NEW r \in Requests, Hangs(r) PROVE Inv'
<1>1. /\ req[r].stage = "insert"
      /\ req' = [req EXCEPT ![r].stage = "hung"]
      /\ UNCHANGED <<at, dead, alerts, answer, store, alert, told>>
    BY DEF Hangs, sender, manager
<1>2. req \in [Requests -> Request] /\ req[r] \in Request
    BY DEF Inv, Types
<1>3. [req[r] EXCEPT !.stage = "hung"] \in Request
    BY <1>2, RequestUpdates
<1>4. Types'
    BY <1>1, <1>3 DEF Inv, Types
<1>5. \A q \in Requests :
        /\ q # r => req'[q] = req[q]
        /\ q = r => req'[q].stage = "hung"
        /\ req'[q].from = req[q].from /\ req'[q].name = req[q].name
        /\ req'[q].status = req[q].status /\ req'[q].tried = req[q].tried
        /\ req'[q].waits <=> req[q].waits
    BY <1>1, <1>2 DEF Request
<1>6. ServesSenders' /\ TriesInOrder'
    BY <1>1, <1>5 DEF Inv, ServesSenders, TriesInOrder, Serving, Unstored
<1>7. InsertedFirst'
    BY <1>1, <1>5 DEF Inv, InsertedFirst
<1>8. Buried' /\ PostsWhileServed'
    BY <1>1, <1>5 DEF Inv, Buried, PostsWhileServed, WaitsFor
<1>9. PostsOnce'
    BY <1>1, <1>5 DEF Inv, PostsOnce, Serving, Unstored
<1>10. OneRecord' /\ AnswersRecord'
    BY <1>1 DEF Inv, OneRecord, AnswersRecord
<1>11. QED BY <1>4, <1>6, <1>7, <1>8, <1>9, <1>10 DEF Inv

\* A record is appended under its sender, who had none.
LEMMA InsertInv == ASSUME Inv, NEW r \in Requests, Insert(r) PROVE Inv'
<1> DEFINE record == [from |-> req[r].from, name |-> req[r].name, status |-> req[r].status]
           next == IF Channels = <<>> THEN "reply" ELSE "forward"
<1>1. /\ req[r].stage = "insert"
      /\ store' = Append(store, record)
      /\ req' = [req EXCEPT ![r].id = Len(store) + 1, ![r].stage = next]
    BY DEF Insert
<1>0. UNCHANGED <<at, dead, alerts, answer, alert, told>>
    BY DEF Insert, sender, manager
<1>2. req \in [Requests -> Request] /\ req[r] \in Request /\ store \in Seq(Stored)
    BY DEF Inv, Types
<1>3. req[r].from \in Senders /\ record \in Stored
    BY <1>1, <1>2 DEF Inv, ServesSenders, Serving, Request, Stored
<1>4. next \in {"forward", "reply"} /\ Len(store) + 1 \in Nat
    BY <1>2
<1>5. /\ DOMAIN store' = 1..Len(store) + 1 /\ DOMAIN store = 1..Len(store)
      /\ store'[Len(store) + 1] = record
      /\ \A i \in DOMAIN store : store'[i] = store[i]
    BY <1>1, <1>2, <1>3
<1>6. record.from = req[r].from /\ record.name = req[r].name /\ record.status = req[r].status
    OBVIOUS
<1> HIDE DEF record
<1>7. [req[r] EXCEPT !.id = Len(store) + 1, !.stage = next] \in Request
    BY <1>2, <1>4, RequestUpdates
<1>8. \A q \in Requests :
        /\ q # r => req'[q] = req[q]
        /\ q = r => req'[q].stage = next /\ req'[q].id = Len(store) + 1
        /\ req'[q].from = req[q].from /\ req'[q].name = req[q].name
        /\ req'[q].status = req[q].status /\ req'[q].tried = req[q].tried
        /\ req'[q].waits <=> req[q].waits
    BY <1>1, <1>2 DEF Request
<1>18. /\ Serving(r) /\ Unstored(r)
       /\ \A q \in Requests :
            /\ Serving(q)' <=> Serving(q)
            /\ Unstored(q)' <=> q # r /\ Unstored(q)
    BY <1>1, <1>4, <1>8 DEF Serving, Unstored
<1>19. IF next = "reply" THEN Channels = <<>> ELSE next = "forward" /\ Channels # <<>>
    OBVIOUS
<1> HIDE DEF next
<1>9. Types'
    <2>1. req' \in [Requests -> Request]
        BY <1>1, <1>2, <1>7
    <2>2. store' \in Seq(Stored)
        BY <1>1, <1>2, <1>3
    <2>3. QED BY <1>0, <2>1, <2>2 DEF Inv, Types
<1>10. ServesSenders'
    BY <1>8, <1>18 DEF Inv, ServesSenders
<1>11. Buried' /\ PostsWhileServed'
    BY <1>0, <1>8 DEF Inv, Buried, PostsWhileServed, WaitsFor
<1>12. PostsOnce'
    <2>1. \A b \in Burials : at[b] \in {"new", "buried", "webhook", "raised"} => req[r].from # b
        BY <1>18 DEF Inv, PostsOnce
    <2>2. \A b \in Burials, q \in Requests :
            at'[b] \in {"new", "buried", "webhook", "raised"} /\ Serving(q)' => req'[q].from # b
        BY <1>0, <1>8, <1>18 DEF Inv, PostsOnce
    <2>3. \A b \in Burials : at'[b] \in {"new", "buried", "webhook", "raised"} =>
            \A i \in DOMAIN store' : store'[i].from # b
        <3>1. \A b \in Burials : at[b] \in {"new", "buried", "webhook", "raised"} =>
                \A i \in DOMAIN store : store[i].from # b
            BY DEF Inv, PostsOnce
        <3>2. \A i \in DOMAIN store' : i \in DOMAIN store \/ i = Len(store) + 1
            BY <1>2, <1>5
        <3>3. QED BY <1>0, <1>5, <1>6, <2>1, <3>1, <3>2
    <2>4. \A p, q \in Requests :
            Serving(p)' /\ Serving(q)' /\ req'[p].from = req'[q].from /\ req'[p].from \in Burials
                => p = q
        BY <1>8, <1>18 DEF Inv, PostsOnce
    <2>5. ASSUME NEW q \in Requests, Unstored(q)', req'[q].from \in Burials
          PROVE  \A i \in DOMAIN store' : store'[i].from # req'[q].from
        <3>1. q # r /\ Unstored(q) /\ Serving(q)
            BY <1>18, <2>5 DEF Unstored, Serving
        <3>2. req[q].from # req[r].from
            BY <1>8, <1>18, <2>5, <3>1 DEF Inv, PostsOnce
        <3>3. \A i \in DOMAIN store : store[i].from # req[q].from
            BY <1>8, <2>5, <3>1 DEF Inv, PostsOnce
        <3>4. \A i \in DOMAIN store' : i \in DOMAIN store \/ i = Len(store) + 1
            BY <1>2, <1>5
        <3>5. QED BY <1>5, <1>6, <1>8, <3>2, <3>3, <3>4
    <2>6. QED BY <2>2, <2>3, <2>4, <2>5 DEF PostsOnce
<1>13. TriesInOrder'
    <2>1. req[r].tried = <<>>
        BY <1>1 DEF Inv, TriesInOrder, Unstored
    <2>2. Channels # <<>> => Len(Channels) > 0
        BY ChannelsAreASequence
    <2>3. /\ req'[r].tried = <<>> /\ ~Unstored(r)'
          /\ req'[r].stage = "forward" => Len(Channels) > 0
          /\ req'[r].stage = "reply" => Channels = <<>>
        BY <1>8, <1>18, <1>19, <2>1, <2>2
    <2>4. \A q \in Requests \ {r} : req'[q] = req[q] /\ (Unstored(q)' <=> Unstored(q))
        BY <1>8, <1>18
    <2>5. Len(<<>>) = 0 /\ 1..0 = {}
        OBVIOUS
    <2>6. QED BY <2>3, <2>4, <2>5 DEF Inv, TriesInOrder
<1>14. InsertedFirst'
    <2>1. \A q \in Requests \ {r} : req'[q].stage \in {"forward", "reply"} =>
            /\ req'[q].id \in DOMAIN store'
            /\ store'[req'[q].id] = [from |-> req'[q].from, name |-> req'[q].name,
                                     status |-> req'[q].status]
        BY <1>5, <1>8 DEF Inv, InsertedFirst
    <2>2. /\ req'[r].id \in DOMAIN store'
          /\ store'[req'[r].id] = [from |-> req'[r].from, name |-> req'[r].name,
                                   status |-> req'[r].status]
        BY <1>2, <1>5, <1>8 DEF record
    <2>3. QED BY <2>1, <2>2 DEF InsertedFirst
<1>15. OneRecord'
    <2>1. \A b \in Burials : req[r].from = b => \A i \in DOMAIN store : store[i].from # b
        BY <1>18 DEF Inv, PostsOnce
    <2>2. QED BY <1>2, <1>5, <1>6, <2>1 DEF Inv, OneRecord
<1>16. AnswersRecord'
    BY <1>0, <1>5 DEF Inv, AnswersRecord
<1>17. QED BY <1>9, <1>10, <1>11, <1>12, <1>13, <1>14, <1>15, <1>16 DEF Inv

\* The next channel is tried: what was tried stays a prefix of the channels.
LEMMA ForwardInv == ASSUME Inv, NEW r \in Requests, Forward(r) PROVE Inv'
<1> DEFINE k == Len(req[r].tried)
           tried == Append(req[r].tried, Channels[k + 1])
           next == IF tried = Channels THEN "reply" ELSE "forward"
<1>1. /\ req[r].stage = "forward"
      /\ req' = [req EXCEPT ![r].tried = tried, ![r].stage = next]
    BY DEF Forward, Onward
<1>0. UNCHANGED <<at, dead, alerts, answer, store, alert, told>>
    BY DEF Forward, sender, manager
<1>2. /\ req \in [Requests -> Request] /\ req[r] \in Request
      /\ req[r].tried \in Seq({"slack", "discord", "email"})
    BY DEF Inv, Types, Request
<1>3. k < Len(Channels) /\ \A i \in 1..k : req[r].tried[i] = Channels[i]
    BY <1>1 DEF Inv, TriesInOrder
<1>4. /\ tried \in Seq({"slack", "discord", "email"}) /\ Len(tried) = k + 1
      /\ \A i \in 1..k + 1 : tried[i] = Channels[i]
    BY <1>2, <1>3, ChannelsAreASequence
<1>5. Len(tried) = Len(Channels) => tried = Channels
    BY <1>4, ChannelsAreASequence
<1>6. next = "forward" => Len(tried) < Len(Channels)
    BY <1>2, <1>3, <1>4, <1>5, ChannelsAreASequence
<1>7. next \in {"forward", "reply"} /\ (next = "reply" => tried = Channels)
    OBVIOUS
<1>8. \A i \in 1..Len(tried) : tried[i] = Channels[i]
    BY <1>4
<1> HIDE DEF tried, next
<1>9. [req[r] EXCEPT !.tried = tried, !.stage = next] \in Request
    BY <1>2, <1>4, <1>7, RequestUpdates
<1>10. \A q \in Requests :
        /\ q # r => req'[q] = req[q]
        /\ q = r => req'[q].stage = next /\ req'[q].tried = tried
        /\ req'[q].from = req[q].from /\ req'[q].name = req[q].name
        /\ req'[q].status = req[q].status /\ req'[q].id = req[q].id
        /\ req'[q].waits <=> req[q].waits
    BY <1>1, <1>2 DEF Request
<1>19. \A q \in Requests : (Serving(q)' <=> Serving(q)) /\ (Unstored(q)' <=> Unstored(q))
    BY <1>1, <1>7, <1>10 DEF Serving, Unstored
<1>11. Types'
    BY <1>0, <1>1, <1>2, <1>9 DEF Inv, Types
<1>12. ServesSenders'
    BY <1>10, <1>19 DEF Inv, ServesSenders
<1>13. TriesInOrder'
    BY <1>6, <1>7, <1>8, <1>10 DEF Inv, TriesInOrder, Unstored
<1>14. InsertedFirst'
    <2>1. \A q \in Requests : req'[q].stage \in {"forward", "reply"} =>
            req[q].stage \in {"forward", "reply"}
        BY <1>1, <1>10
    <2>2. QED BY <1>0, <1>10, <2>1 DEF Inv, InsertedFirst
<1>15. Buried' /\ PostsWhileServed'
    BY <1>0, <1>10 DEF Inv, Buried, PostsWhileServed, WaitsFor
<1>16. PostsOnce'
    BY <1>0, <1>10, <1>19 DEF Inv, PostsOnce
<1>17. OneRecord' /\ AnswersRecord'
    BY <1>0 DEF Inv, OneRecord, AnswersRecord
<1>18. QED BY <1>11, <1>12, <1>13, <1>14, <1>15, <1>16, <1>17 DEF Inv

\* Threads end: those in gone are idle, and who waited for one of them goes on.
LEMMA CloseInv ==
    ASSUME Inv, NEW gone \in SUBSET Requests,
           req' = [r \in Requests |-> IF r \in gone THEN Idle ELSE req[r]],
           at' = [b \in Burials |-> IF \E r \in gone : WaitsFor(r, b, Name[b])
                                    THEN "manager" ELSE at[b]],
           answer' \in [Burials -> Nat \cup {None}],
           \A b \in Burials : \/ answer'[b] = answer[b]
                              \/ answer'[b] \in DOMAIN store /\ store[answer'[b]].from = b,
           told' \in [Names -> Status],
           UNCHANGED <<dead, alerts, store, alert>>
    PROVE  Inv'
<1>1. Idle \in Request /\ Idle.stage = "idle" /\ ~Idle.waits
    BY DEF Idle, Request, Status
<1>2. req \in [Requests -> Request] /\ at \in [Burials -> Stages]
    BY DEF Inv, Types
<1>3. req' \in [Requests -> Request]
    BY <1>1, <1>2
<1>4. \A r \in Requests : /\ r \in gone => req'[r] = Idle
                          /\ r \notin gone => req'[r] = req[r]
    OBVIOUS
<1>5. Types'
    <2>1. at' \in [Burials -> Stages]
        BY <1>2 DEF Stages
    <2>2. QED BY <1>3, <2>1 DEF Inv, Types
<1>6. \A r \in Requests : /\ Serving(r)' <=> r \notin gone /\ Serving(r)
                          /\ Unstored(r)' <=> r \notin gone /\ Unstored(r)
    BY <1>1, <1>4 DEF Serving, Unstored
<1>7. ServesSenders'
    <2>1. \A r \in gone : ~Serving(r)' /\ ~req'[r].waits
        BY <1>1, <1>4, <1>6
    <2>2. \A r \in Requests \ gone : req'[r] = req[r] /\ (Serving(r)' <=> Serving(r))
        BY <1>4, <1>6
    <2>3. QED BY <2>1, <2>2 DEF Inv, ServesSenders
<1>8. \A b \in Burials, r \in Requests :
        WaitsFor(r, b, Name[b]) => at[b] = "posting" /\ Serving(r) /\ req[r].from = b
    BY DEF Inv, PostsWhileServed, ServesSenders, WaitsFor
<1>9. \A b \in Burials :
        \/ at'[b] = at[b] /\ \A r \in gone : ~WaitsFor(r, b, Name[b])
        \/ at'[b] = "manager" /\ at[b] = "posting" /\ \E r \in gone : WaitsFor(r, b, Name[b])
    BY <1>8
<1>10. Buried'
    BY <1>9 DEF Inv, Buried
<1>11. PostsWhileServed'
    <2>1. SUFFICES ASSUME NEW b \in Burials
                   PROVE  at'[b] = "posting" <=> \E r \in Requests : WaitsFor(r, b, Name[b])'
        BY DEF PostsWhileServed
    <2>2. \A r \in Requests : WaitsFor(r, b, Name[b])' <=> r \notin gone /\ WaitsFor(r, b, Name[b])
        BY <1>1, <1>4 DEF WaitsFor
    <2>3. \A q, r \in Requests :
            WaitsFor(q, b, Name[b]) /\ WaitsFor(r, b, Name[b]) => q = r
        BY <1>8 DEF Inv, PostsOnce
    <2>4. at[b] = "posting" <=> \E r \in Requests : WaitsFor(r, b, Name[b])
        BY DEF Inv, PostsWhileServed
    <2>5. QED BY <1>9, <2>2, <2>3, <2>4
<1>12. PostsOnce'
    <2>1. \A b \in Burials : at'[b] \in {"new", "buried", "webhook", "raised"} => at'[b] = at[b]
        BY <1>9
    <2>2. \A r \in Requests : Serving(r)' \/ Unstored(r)' => req'[r] = req[r]
        BY <1>4, <1>6
    <2>3. QED BY <1>6, <2>1, <2>2 DEF Inv, PostsOnce
<1>13. TriesInOrder'
    BY <1>1, <1>4, <1>6 DEF Inv, TriesInOrder
<1>14. InsertedFirst'
    BY <1>1, <1>4 DEF Inv, InsertedFirst
<1>15. OneRecord' /\ AnswersRecord'
    BY DEF Inv, OneRecord, AnswersRecord
<1>16. QED BY <1>5, <1>7, <1>10, <1>11, <1>12, <1>13, <1>14, <1>15 DEF Inv

\* The handler raises: its sender learns nothing.
LEMMA InsertFailsInv == ASSUME Inv, NEW r \in Requests, InsertFails(r) PROVE Inv'
<1>1. /\ req' = [q \in Requests |-> IF q \in {r} THEN Idle ELSE req[q]]
      /\ at' = [b \in Burials |-> IF \E q \in {r} : WaitsFor(q, b, Name[b])
                                  THEN "manager" ELSE at[b]]
      /\ UNCHANGED <<dead, alerts, answer, store, alert, told>>
    BY DEF InsertFails, Closed, manager, Inv, Types
<1>2. answer' \in [Burials -> Nat \cup {None}] /\ told' \in [Names -> Status]
    BY <1>1 DEF Inv, Types
<1>3. {r} \in SUBSET Requests /\ \A b \in Burials : answer'[b] = answer[b]
    BY <1>1
<1>4. QED BY <1>1, <1>2, <1>3, CloseInv

\* The sender that waits learns the id of its record.
LEMMA ReplyInv == ASSUME Inv, NEW r \in Requests, Reply(r) PROVE Inv'
<1>1. /\ req' = [q \in Requests |-> IF q \in {r} THEN Idle ELSE req[q]]
      /\ at' = [b \in Burials |-> IF \E q \in {r} : WaitsFor(q, b, Name[b])
                                  THEN "manager" ELSE at[b]]
      /\ UNCHANGED <<dead, alerts, store, alert>>
    BY DEF Reply, Closed, Inv, Types
<1>2. /\ req[r].stage = "reply" /\ req[r] \in Request /\ req[r].id \in Nat
      /\ answer \in [Burials -> Nat \cup {None}] /\ told \in [Names -> Status]
    BY DEF Reply, Inv, Types, Request
<1>3. answer' \in [Burials -> Nat \cup {None}]
    BY <1>2 DEF Reply
<1>4. \A b \in Burials : \/ answer'[b] = answer[b]
                         \/ answer'[b] \in DOMAIN store /\ store[answer'[b]].from = b
    <2>0. /\ req[r].id \in DOMAIN store
          /\ store[req[r].id] = [from |-> req[r].from, name |-> req[r].name,
                                 status |-> req[r].status]
        BY <1>2 DEF Inv, InsertedFirst
    <2>1. req[r].id \in DOMAIN store /\ store[req[r].id].from = req[r].from
        BY <2>0
    <2>2. \A b \in Burials : \/ answer'[b] = answer[b]
                             \/ answer'[b] = req[r].id /\ req[r].from = b
        BY DEF Reply, WaitsFor
    <2>3. QED BY <2>1, <2>2
<1>5. told' \in [Names -> Status]
    <2>1. \A n \in Names : WaitsFor(r, Manager, n) => req[r].status \in Status
        BY <1>2 DEF Inv, ServesSenders, Serving, WaitsFor
    <2>2. QED BY <1>2, <2>1 DEF Reply
<1>6. {r} \in SUBSET Requests
    OBVIOUS
<1>7. QED BY <1>1, <1>3, <1>4, <1>5, <1>6, CloseInv

\* A restart ends every thread and keeps the table.
LEMMA CrashInv == ASSUME Inv, Crash PROVE Inv'
<1>1. req' = [r \in Requests |-> IF r \in Requests THEN Idle ELSE req[r]]
    BY DEF Crash
<1>2. at' = [b \in Burials |-> IF \E r \in Requests : WaitsFor(r, b, Name[b])
                               THEN "manager" ELSE at[b]]
    BY DEF Crash, Inv, PostsWhileServed
<1>3. UNCHANGED <<dead, alerts, answer, store, alert, told>>
    BY DEF Crash, manager
<1>4. answer' \in [Burials -> Nat \cup {None}] /\ told' \in [Names -> Status]
    BY <1>3 DEF Inv, Types
<1>5. QED BY <1>1, <1>2, <1>3, <1>4, CloseInv

----------------------------------------------------------------------------

\* Every step keeps the invariant.
LEMMA StepInv == Inv /\ [Next]_vars => Inv'
<1>0. SUFFICES ASSUME Inv, [Next]_vars PROVE Inv'
    OBVIOUS
<1>1. CASE UNCHANGED vars
    <2>1. UNCHANGED <<at, dead, alerts, answer, req, store, alert, told>>
        BY <1>1 DEF vars, sender, manager
    <2>2. QED BY <1>0, <2>1 DEF Inv, Types, ServesSenders, Buried, PostsWhileServed,
              PostsOnce, TriesInOrder, InsertedFirst, OneRecord, AnswersRecord, Serving,
              Unstored, WaitsFor
<1>2. ASSUME NEW b \in Burials, Bury(b) \/ BuryFails(b) \/ Notify(b) PROVE Inv'
    <2>1. b \in dead <=> at[b] \notin {"new", "raised"}
        BY <1>0 DEF Inv, Buried
    <2>2. dead \subseteq Burials /\ alerts \subseteq dead /\ alert \in [Names -> Status]
        BY <1>0 DEF Inv, Types
    <2>3. CASE Bury(b)
        <3>1. /\ at[b] = "new" /\ Goto(b, "buried") /\ dead' = dead \cup {b}
              /\ UNCHANGED <<alerts, answer, req, store, alert, told>>
            BY <2>3 DEF Bury, manager
        <3>2. QED BY <1>0, <2>2, <3>1, MoveInv DEF Stages
    <2>4. CASE BuryFails(b)
        <3>1. /\ at[b] = "new" /\ Goto(b, "raised")
              /\ UNCHANGED <<dead, alerts, answer, req, store, alert, told>>
            BY <2>4 DEF BuryFails, manager
        <3>2. QED BY <1>0, <2>1, <2>2, <3>1, MoveInv DEF Stages
    <2>5. CASE Notify(b)
        <3>1. /\ at[b] = "buried" /\ alerts' = alerts \cup {b}
              /\ Goto(b, "webhook") \/ Goto(b, "manager")
              /\ UNCHANGED <<dead, answer, req, store, alert, told>>
            BY <2>5 DEF Notify, manager
        <3>2. QED BY <1>0, <2>1, <2>2, <3>1, MoveInv DEF Stages
    <2>6. QED BY <1>2, <2>3, <2>4, <2>5
<1>3. ASSUME NEW b \in Burials, PostWebhookFails(b) \/ PostManager(b) \/ SkipManager(b)
      PROVE Inv'
    <2>1. b \in dead <=> at[b] \notin {"new", "raised"}
        BY <1>0 DEF Inv, Buried
    <2>2. dead \subseteq Burials /\ alerts \subseteq dead /\ alert \in [Names -> Status]
        BY <1>0 DEF Inv, Types
    <2>3. /\ at[b] \in {"webhook", "manager"}
          /\ Goto(b, "manager") \/ Goto(b, "done")
          /\ UNCHANGED <<dead, alerts, answer, req, store, told>>
        BY <1>3 DEF PostWebhookFails, PostManager, SkipManager, manager
    <2>4. alert' \in [Names -> Status]
        BY <1>3, <2>2 DEF PostWebhookFails, PostManager, SkipManager, manager, Status
    <2>5. QED BY <1>0, <2>1, <2>2, <2>3, <2>4, MoveInv DEF Stages
<1>4. ASSUME NEW b \in Burials, PostWebhook(b) PROVE Inv'
    <2>1. /\ at[b] = "webhook" /\ Connect(b, Name[b], "posted") /\ Goto(b, "posting")
          /\ UNCHANGED <<dead, alerts, answer, store, alert, told>>
        BY <1>4 DEF PostWebhook, manager
    <2>2. b \in Senders /\ b # Manager /\ Name[b] \in Names
        BY ManagerIsNoBurial, BurialsHaveNames DEF Senders
    <2>3. QED BY <1>0, <2>1, <2>2, ConnectInv
<1>5. ASSUME NEW b \in Burials, GiveUp(b) \/ WorkerDies(b) PROVE Inv'
    <2>1. /\ at[b] \in {"buried", "webhook", "posting", "manager"}
          /\ Abandon(b, Name[b])
          /\ \E s \in {"manager", "gone"} : Goto(b, s)
          /\ UNCHANGED <<dead, alerts, answer, store, alert, told>>
        BY <1>5 DEF GiveUp, WorkerDies, manager
    <2>2. b \in Senders /\ b # Manager /\ Name[b] \in Names
        BY ManagerIsNoBurial, BurialsHaveNames DEF Senders
    <2>3. QED BY <1>0, <2>1, <2>2, AbandonInv
<1>6. ASSUME NEW n \in Names, Resolve(n) PROVE Inv'
    <2>1. UNCHANGED <<at, dead, alerts, answer, req, store, told>>
        BY <1>6 DEF Resolve, sender
    <2>2. alert' \in [Names -> Status]
        BY <1>0, <1>6 DEF Resolve, Inv, Types, Status
    <2>3. QED BY <1>0, <2>1, <2>2 DEF Inv, Types, ServesSenders, Buried, PostsWhileServed,
              PostsOnce, TriesInOrder, InsertedFirst, OneRecord, AnswersRecord, Serving,
              Unstored, WaitsFor
<1>7. ASSUME NEW n \in Names, Notification(n) PROVE Inv'
    <2>1. /\ Connect(Manager, n, alert[n])
          /\ UNCHANGED <<at, dead, alerts, answer, store, alert, told>>
        BY <1>7 DEF Notification, sender, manager
    <2>2. alert[n] \in Status /\ Manager \in Senders /\ Manager \notin Burials
        BY <1>0, ManagerIsNoBurial DEF Inv, Types, Senders
    <2>3. QED BY <1>0, <2>1, <2>2, ConnectInv
<1>8. ASSUME NEW n \in Names, NotificationTimesOut(n) PROVE Inv'
    <2>1. /\ Abandon(Manager, n)
          /\ UNCHANGED <<at, dead, alerts, answer, store, alert, told>>
        BY <1>8 DEF NotificationTimesOut, sender, manager
    <2>2. Manager \in Senders /\ Manager \notin Burials
        BY ManagerIsNoBurial DEF Senders
    <2>3. QED BY <1>0, <2>1, <2>2, AbandonInv
<1>9. ASSUME NEW r \in Requests, Serve(r) \/ Hangs(r) PROVE Inv'
    BY <1>0, <1>9, InsertInv, InsertFailsInv, ForwardInv, ReplyInv, HangsInv DEF Serve
<1>10. CASE Crash
    BY <1>0, <1>10, CrashInv
<1>11. QED BY <1>0, <1>1, <1>2, <1>3, <1>4, <1>5, <1>6, <1>7, <1>8, <1>9, <1>10
           DEF Next, DeadLetter

\* The invariant holds in every state.
LEMMA Invariant == Spec => []Inv
BY InitInv, StepInv, PTL DEF Spec

\* Types; alerts are of buried tasks; and a burial posts exactly while a thread
\* serves it and it waits.
THEOREM WellTyped == Spec => []AlertsTypeOK
<1>1. Inv => AlertsTypeOK
    <2>1. ASSUME Inv PROVE AlertsTypeOK
        BY <2>1 DEF Inv, Types, Status, Buried, PostsWhileServed, ServesSenders, Serving,
            Senders, AlertsTypeOK
    <2>2. QED BY <2>1
<1>2. QED BY <1>1, Invariant, PTL

\* The newest records that GET /alerts may return hold every record that fewer
\* than ListMax followed.
LEMMA FetchLists ==
    ASSUME store \in Seq(Stored), NEW i \in DOMAIN store, Len(store) - i < ListMax
    PROVE  \E k \in DOMAIN FetchRecords(ListMax) : FetchRecords(ListMax)[k] = store[i]
<1> DEFINE first == Len(store) - ListMax + 1
           start == IF first < 1 THEN 1 ELSE first
           records == SubSeq(store, start, Len(store))
<1>0. (IF ListMax < 1 THEN 1 ELSE IF ListMax > ListMax THEN ListMax ELSE ListMax) = ListMax
    BY ListMaxIsPositive
<1>1. FetchRecords(ListMax) = records
    BY <1>0 DEF FetchRecords
<1>2. Len(store) \in Nat /\ i \in 1..Len(store) /\ DOMAIN store = 1..Len(store)
    OBVIOUS
<1>3. start \in 1..i
    BY <1>2, ListMaxIsPositive
<1>4. i - start + 1 \in 1..Len(store) - start + 1
    BY <1>2, <1>3
<1> HIDE DEF start
<1>5. /\ DOMAIN records = 1..Len(store) - start + 1
      /\ records[i - start + 1] = store[start + (i - start + 1) - 1]
    BY <1>2, <1>3, <1>4
<1>6. start + (i - start + 1) - 1 = i
    BY <1>2, <1>3
<1>7. QED BY <1>1, <1>4, <1>5, <1>6

\* Whatever is forwarded is in the table, whatever is answered was forwarded to
\* every channel, and a burial finds the one record it was answered for listed.
THEOREM StoredFirst == Spec => []StoredBeforeTold
<1>1. Inv => StoredBeforeTold
    <2>0. SUFFICES ASSUME Inv PROVE StoredBeforeTold
        OBVIOUS
    <2>1. \A r \in Requests : req[r].stage \in {"forward", "reply"} =>
            /\ req[r].id \in DOMAIN store
            /\ store[req[r].id] = [from |-> req[r].from, name |-> req[r].name,
                                   status |-> req[r].status]
            /\ req[r].stage = "reply" => req[r].tried = Channels
        BY <2>0 DEF Inv, InsertedFirst, TriesInOrder
    <2>2. ASSUME NEW b \in Burials
          PROVE  LET records == {i \in DOMAIN store : store[i].from = b} IN
                 /\ \A i, j \in records : i = j
                 /\ answer[b] # None => answer[b] \in records
        BY <2>0 DEF Inv, OneRecord, AnswersRecord
    <2>3. ASSUME NEW b \in Burials, answer[b] # None, Len(store) - answer[b] < ListMax
          PROVE  \E i \in DOMAIN FetchRecords(ListMax) : FetchRecords(ListMax)[i].from = b
        <3>1. answer[b] \in DOMAIN store /\ store[answer[b]].from = b
            BY <2>0, <2>3 DEF Inv, AnswersRecord
        <3>2. \E k \in DOMAIN FetchRecords(ListMax) :
                FetchRecords(ListMax)[k] = store[answer[b]]
            BY <2>0, <2>3, <3>1, FetchLists DEF Inv, Types
        <3>3. QED BY <3>1, <3>2
    <2>4. QED BY <2>1, <2>2, <2>3 DEF StoredBeforeTold
<1>2. QED BY <1>1, Invariant, PTL

----------------------------------------------------------------------------
(* What the table tells of an alert *)

\* The records of Alertmanager's notifications of a name.
Of(n) == {i \in DOMAIN store : store[i].from = Manager /\ store[i].name = n}
Inserted(r) == req[r].stage \in {"forward", "reply"}

NoIdYet == \A r \in Requests : Unstored(r) => req[r].id = 0

\* A name whose notifications were all waited for: one at a time is served, its
\* record is the last, and without one the last tells what was answered for.
Tells(n) ==
    /\ \A r \in Requests :
        Serving(r) /\ req[r].from = Manager /\ req[r].name = n => req[r].waits
    /\ \A q, r \in Requests : WaitsFor(q, Manager, n) /\ WaitsFor(r, Manager, n) => q = r
    /\ \A r \in Requests : WaitsFor(r, Manager, n) /\ Inserted(r) =>
        \A i \in Of(n) : i <= req[r].id
    /\ \A i \in Of(n) :
        \/ \E j \in Of(n) : j > i
        \/ store[i].status = told[n]
        \/ \E r \in Requests : WaitsFor(r, Manager, n) /\ req[r].id = i

Latest == NoIdYet /\ \A n \in Names : n \notin late => Tells(n)

\* At first the table is empty.
LEMMA InitLatest == Init => Latest
<1>1. SUFFICES ASSUME Init PROVE Latest
    OBVIOUS
<1>2. \A r \in Requests : ~Serving(r) /\ ~Unstored(r) /\ ~req[r].waits
    BY <1>1 DEF Init, Idle, Serving, Unstored
<1>3. \A n \in Names : Of(n) = {}
    BY <1>1 DEF Init, Of
<1>4. QED BY <1>2, <1>3 DEF Latest, NoIdYet, Tells, WaitsFor

\* Who waits is served, and an id that is in the table is the id of a record.
LEMMA Waiting ==
    ASSUME Inv, Latest, NEW r \in Requests, NEW n, WaitsFor(r, Manager, n)
    PROVE  /\ Serving(r) /\ req[r].from = Manager /\ req[r].name = n
           /\ Inserted(r) => req[r].id \in Of(n) /\ store[req[r].id].status = req[r].status
           /\ ~Inserted(r) => req[r].id \notin Of(n)
<1>1. Serving(r) /\ req[r].from = Manager /\ req[r].name = n
    BY DEF Inv, ServesSenders, WaitsFor
<1>2. ASSUME Inserted(r)
      PROVE  req[r].id \in Of(n) /\ store[req[r].id].status = req[r].status
    <2>1. /\ req[r].id \in DOMAIN store
          /\ store[req[r].id] = [from |-> req[r].from, name |-> req[r].name,
                                 status |-> req[r].status]
        BY <1>2 DEF Inv, InsertedFirst, Inserted
    <2>2. QED BY <1>1, <2>1 DEF Of
<1>3. ASSUME ~Inserted(r) PROVE req[r].id \notin Of(n)
    <2>1. req[r] \in Request /\ store \in Seq(Stored)
        BY DEF Inv, Types
    <2>2. Unstored(r)
        BY <1>1, <1>3, <2>1 DEF Request, Serving, Unstored, Inserted
    <2>3. req[r].id = 0
        BY <2>2 DEF Latest, NoIdYet
    <2>4. QED BY <2>1, <2>3 DEF Of
<1>4. QED BY <1>1, <1>2, <1>3

\* A step of nobody that Alertmanager waits for, or one that answers without a
\* record: the table tells the same.
LEMMA Elsewhere ==
    ASSUME Inv, Latest, NEW n \in Names, n \notin late, store' = store, told'[n] = told[n],
           \A r \in Requests : WaitsFor(r, Manager, n)' =>
                WaitsFor(r, Manager, n) /\ req'[r].id = req[r].id /\ (Inserted(r)' => Inserted(r)),
           \A r \in Requests : Serving(r)' /\ req'[r].from = Manager /\ req'[r].name = n =>
                Serving(r) /\ req[r].from = Manager /\ req[r].name = n /\ req'[r].waits = req[r].waits,
           \A r \in Requests : WaitsFor(r, Manager, n) =>
                (WaitsFor(r, Manager, n)' /\ req'[r].id = req[r].id) \/ ~Inserted(r)
    PROVE  Tells(n)'
<1>1. Tells(n)
    BY DEF Latest
<1>2. Of(n)' = Of(n)
    BY DEF Of
<1>3. \A r \in Requests : Serving(r)' /\ req'[r].from = Manager /\ req'[r].name = n => req'[r].waits
    BY <1>1 DEF Tells
<1>4. \A q, r \in Requests : WaitsFor(q, Manager, n)' /\ WaitsFor(r, Manager, n)' => q = r
    BY <1>1 DEF Tells
<1>5. \A r \in Requests : WaitsFor(r, Manager, n)' /\ Inserted(r)' => \A i \in Of(n) : i <= req'[r].id
    BY <1>1 DEF Tells
<1>6. ASSUME NEW i \in Of(n)
      PROVE  \/ \E j \in Of(n) : j > i
             \/ store[i].status = told[n]
             \/ \E r \in Requests : WaitsFor(r, Manager, n)' /\ req'[r].id = i
    <2>1. CASE \E r \in Requests : WaitsFor(r, Manager, n) /\ req[r].id = i
        <3>1. PICK r \in Requests : WaitsFor(r, Manager, n) /\ req[r].id = i
            BY <2>1
        <3>2. Inserted(r)
            BY <1>6, <3>1, Waiting
        <3>3. QED BY <3>1, <3>2
    <2>2. CASE ~\E r \in Requests : WaitsFor(r, Manager, n) /\ req[r].id = i
        BY <1>1, <2>2 DEF Tells
    <2>3. QED BY <2>1, <2>2
<1>7. QED BY <1>2, <1>3, <1>4, <1>5, <1>6 DEF Tells

\* Steps that leave the webhook and Alertmanager's answers alone.
LEMMA SameLatest ==
    ASSUME Inv, Latest, UNCHANGED <<req, store, told, late>> PROVE Latest'
<1>1. NoIdYet'
    BY DEF Latest, NoIdYet, Unstored
<1>2. ASSUME NEW n \in Names, n \notin late' PROVE Tells(n)'
    BY <1>2, Elsewhere DEF WaitsFor, Serving, Inserted
<1>3. QED BY <1>1, <1>2 DEF Latest

\* A post or a notification is taken: one of the name's at a time.
LEMMA ConnectLatest ==
    ASSUME Inv, Latest, NEW from \in Senders, NEW name \in Names, NEW status,
           Connect(from, name, status), UNCHANGED <<store, told, late>>,
           from = Manager => \A r \in Requests : ~WaitsFor(r, Manager, name)
    PROVE  Latest'
<1> DEFINE New == [Idle EXCEPT !.stage = "insert", !.from = from, !.name = name,
                               !.status = status, !.waits = TRUE]
<1>1. PICK r \in Requests : req[r].stage = "idle" /\ req' = [req EXCEPT ![r] = New]
    BY DEF Connect
<1>2. New.stage = "insert" /\ New.from = from /\ New.name = name /\ New.id = 0 /\ New.waits
    BY DEF Idle
<1> HIDE DEF New
<1>3. \A q \in Requests : req'[q] = IF q = r THEN New ELSE req[q]
    BY <1>1 DEF Inv, Types
<1>4. NoIdYet'
    BY <1>2, <1>3 DEF Latest, NoIdYet, Unstored
<1>5. \A n : ~WaitsFor(r, Manager, n)
    BY <1>1 DEF Inv, ServesSenders, Serving, WaitsFor
<1>6. ASSUME NEW n \in Names, n \notin late' PROVE Tells(n)'
    <2>1. CASE from = Manager /\ name = n
        <3>1. Tells(n) /\ \A q \in Requests : ~WaitsFor(q, Manager, n)
            BY <1>6, <2>1 DEF Latest
        <3>2. Of(n)' = Of(n)
            BY DEF Of
        <3>3. \A q \in Requests : WaitsFor(q, Manager, n)' => q = r
            BY <1>3, <3>1 DEF WaitsFor
        <3>4. ~Inserted(r)'
            BY <1>2, <1>3 DEF Inserted
        <3>5. \A q \in Requests :
                Serving(q)' /\ req'[q].from = Manager /\ req'[q].name = n => req'[q].waits
            BY <1>2, <1>3, <3>1 DEF Tells, Serving
        <3>6. \A i \in Of(n) : \/ \E j \in Of(n) : j > i
                               \/ store[i].status = told[n]
            BY <3>1 DEF Tells
        <3>7. QED BY <3>2, <3>3, <3>4, <3>5, <3>6 DEF Tells
    <2>2. CASE ~(from = Manager /\ name = n)
        <3>1. ~WaitsFor(r, Manager, n)'
            BY <1>2, <1>3, <2>2 DEF WaitsFor
        <3>2. \A q \in Requests \ {r} : req'[q] = req[q]
            BY <1>3
        <3>3. \A q \in Requests : WaitsFor(q, Manager, n)' =>
                WaitsFor(q, Manager, n) /\ req'[q].id = req[q].id /\ (Inserted(q)' => Inserted(q))
            BY <3>1, <3>2 DEF WaitsFor, Inserted
        <3>4. \A q \in Requests : Serving(q)' /\ req'[q].from = Manager /\ req'[q].name = n =>
                Serving(q) /\ req[q].from = Manager /\ req[q].name = n /\ req'[q].waits = req[q].waits
            BY <1>2, <1>3, <2>2 DEF Serving
        <3>5. \A q \in Requests : WaitsFor(q, Manager, n) =>
                (WaitsFor(q, Manager, n)' /\ req'[q].id = req[q].id) \/ ~Inserted(q)
            BY <1>5, <3>2 DEF WaitsFor
        <3>6. QED BY <1>6, <3>3, <3>4, <3>5, Elsewhere
    <2>3. QED BY <2>1, <2>2
<1>7. QED BY <1>4, <1>6 DEF Latest

\* A sender gives up: a burial, or Alertmanager on a name it then is late for.
LEMMA AbandonLatest ==
    ASSUME Inv, Latest, NEW from \in Senders, NEW name \in Names, Abandon(from, name),
           UNCHANGED <<store, told>>, late \subseteq late', from = Manager => name \in late'
    PROVE  Latest'
<1>1. \A r \in Requests : req'[r] = IF WaitsFor(r, from, name)
                                    THEN [req[r] EXCEPT !.waits = FALSE] ELSE req[r]
    BY DEF Abandon
<1>2. \A r \in Requests : req[r] \in Request
    BY DEF Inv, Types
<1>3. ASSUME NEW r \in Requests
      PROVE  /\ req'[r].stage = req[r].stage /\ req'[r].from = req[r].from
             /\ req'[r].name = req[r].name /\ req'[r].id = req[r].id
             /\ ~WaitsFor(r, from, name) => req'[r] = req[r]
    <2>1. CASE WaitsFor(r, from, name)
        BY <1>1, <1>2, <2>1 DEF Request
    <2>2. CASE ~WaitsFor(r, from, name)
        BY <1>1, <2>2
    <2>3. QED BY <2>1, <2>2
<1>4. NoIdYet'
    BY <1>3 DEF Latest, NoIdYet, Unstored
<1>5. ASSUME NEW n \in Names, n \notin late' PROVE Tells(n)'
    <2>1. \A r \in Requests : req[r].from = Manager /\ req[r].name = n => req'[r] = req[r]
        BY <1>3, <1>5 DEF WaitsFor
    <2>2. \A r \in Requests : WaitsFor(r, Manager, n)' => req'[r] = req[r]
        BY <1>3, <2>1 DEF WaitsFor
    <2>3. \A r \in Requests : WaitsFor(r, Manager, n) => req'[r] = req[r]
        BY <2>1 DEF WaitsFor
    <2>4. \A r \in Requests : Serving(r)' /\ req'[r].from = Manager /\ req'[r].name = n => req'[r] = req[r]
        BY <1>3, <2>1
    <2>5. QED BY <1>5, <2>2, <2>3, <2>4, Elsewhere DEF WaitsFor, Serving, Inserted
<1>6. QED BY <1>4, <1>5 DEF Latest

\* The steps of one thread that neither store nor answer anything: it goes on
\* with who it serves, or ends and had stored nothing yet.
LEMMA ThreadLatest ==
    ASSUME Inv, Latest, NEW r \in Requests, \A q \in Requests \ {r} : req'[q] = req[q],
           UNCHANGED <<store, told>>, late' = late,
           Unstored(r)' => req'[r].id = 0,
           \/ ~Serving(r)' /\ ~req'[r].waits /\ ~Inserted(r)
           \/ /\ req'[r].from = req[r].from /\ req'[r].name = req[r].name
              /\ req'[r].id = req[r].id /\ req'[r].waits = req[r].waits
              /\ Serving(r) /\ (Inserted(r)' => Inserted(r))
    PROVE  Latest'
<1>1. \A q \in Requests \ {r} : req'[q] = req[q]
    OBVIOUS
<1>2. NoIdYet'
    BY <1>1 DEF Latest, NoIdYet, Unstored
<1>3. ASSUME NEW n \in Names, n \notin late' PROVE Tells(n)'
    <2>1. \A q \in Requests : WaitsFor(q, Manager, n)' =>
            WaitsFor(q, Manager, n) /\ req'[q].id = req[q].id /\ (Inserted(q)' => Inserted(q))
        BY <1>1 DEF WaitsFor, Inserted
    <2>2. \A q \in Requests : Serving(q)' /\ req'[q].from = Manager /\ req'[q].name = n =>
            Serving(q) /\ req[q].from = Manager /\ req[q].name = n /\ req'[q].waits = req[q].waits
        BY <1>1 DEF Serving
    <2>3. \A q \in Requests : WaitsFor(q, Manager, n) =>
            (WaitsFor(q, Manager, n)' /\ req'[q].id = req[q].id) \/ ~Inserted(q)
        BY <1>1 DEF WaitsFor
    <2>4. QED BY <1>3, <2>1, <2>2, <2>3, Elsewhere
<1>4. QED BY <1>2, <1>3 DEF Latest

\* A thread that waits for the database keeps who it serves.
LEMMA HangsLatest == ASSUME Inv, Latest, NEW r \in Requests, Hangs(r) PROVE Latest'
<1>1. /\ req[r].stage = "insert" /\ req' = [req EXCEPT ![r].stage = "hung"]
      /\ UNCHANGED <<store, told>> /\ late' = late
    BY DEF Hangs, manager
<1>2. req \in [Requests -> Request] /\ req[r] \in Request
    BY DEF Inv, Types
<1>3. /\ req'[r].from = req[r].from /\ req'[r].name = req[r].name /\ req'[r].id = req[r].id
      /\ req'[r].waits = req[r].waits /\ req'[r].stage = "hung"
      /\ \A q \in Requests \ {r} : req'[q] = req[q]
    BY <1>1, <1>2 DEF Request
<1>4. req[r].id = 0 /\ Serving(r) /\ ~Inserted(r)'
    BY <1>1, <1>3 DEF Latest, NoIdYet, Unstored, Serving, Inserted
<1>5. QED BY <1>1, <1>3, <1>4, ThreadLatest

\* A thread that forwards keeps who it serves, and its record.
LEMMA ForwardLatest == ASSUME Inv, Latest, NEW r \in Requests, Forward(r) PROVE Latest'
<1> DEFINE tried == Append(req[r].tried, Channels[Len(req[r].tried) + 1])
           next == IF tried = Channels THEN "reply" ELSE "forward"
<1>1. /\ req[r].stage = "forward"
      /\ req' = [req EXCEPT ![r].tried = tried, ![r].stage = next]
      /\ UNCHANGED <<store, told>> /\ late' = late
    BY DEF Forward, Onward, manager
<1>2. req \in [Requests -> Request] /\ req[r] \in Request
    BY DEF Inv, Types
<1>3. next \in {"forward", "reply"}
    OBVIOUS
<1> HIDE DEF tried, next
<1>4. /\ req'[r].from = req[r].from /\ req'[r].name = req[r].name /\ req'[r].id = req[r].id
      /\ req'[r].waits = req[r].waits /\ req'[r].stage = next
      /\ \A q \in Requests \ {r} : req'[q] = req[q]
    BY <1>1, <1>2 DEF Request
<1>5. Serving(r) /\ Inserted(r) /\ ~Unstored(r)'
    BY <1>1, <1>3, <1>4 DEF Serving, Inserted, Unstored
<1>6. QED BY <1>1, <1>4, <1>5, ThreadLatest

\* A thread whose insert fails ends, without a record.
LEMMA InsertFailsLatest == ASSUME Inv, Latest, NEW r \in Requests, InsertFails(r) PROVE Latest'
<1>1. /\ req[r].stage = "insert" /\ req' = [req EXCEPT ![r] = Idle]
      /\ UNCHANGED <<store, told>> /\ late' = late
    BY DEF InsertFails, manager
<1>2. req'[r] = Idle /\ \A q \in Requests \ {r} : req'[q] = req[q]
    BY <1>1 DEF Inv, Types
<1>3. ~Serving(r)' /\ ~Unstored(r)' /\ ~req'[r].waits /\ ~Inserted(r)
    BY <1>1, <1>2 DEF Idle, Inserted, Serving, Unstored
<1>4. QED BY <1>1, <1>2, <1>3, ThreadLatest

\* The new record is behind all others, and of a name that is not late somebody
\* waits for it.
LEMMA InsertLatest == ASSUME Inv, Latest, NEW r \in Requests, Insert(r) PROVE Latest'
<1> DEFINE record == [from |-> req[r].from, name |-> req[r].name, status |-> req[r].status]
           new == Len(store) + 1
           next == IF Channels = <<>> THEN "reply" ELSE "forward"
<1>1. /\ req[r].stage = "insert" /\ store' = Append(store, record)
      /\ req' = [req EXCEPT ![r].id = new, ![r].stage = next]
      /\ UNCHANGED <<told, late>>
    BY DEF Insert, manager
<1>2. next \in {"forward", "reply"}
    OBVIOUS
<1>3. req \in [Requests -> Request] /\ req[r] \in Request /\ store \in Seq(Stored)
    BY DEF Inv, Types
<1> HIDE DEF next
<1>4. new \in Nat
    BY <1>3
<1>5. record \in Stored
    BY <1>1, <1>3 DEF Inv, ServesSenders, Serving, Request, Stored
<1>6. /\ req'[r].from = req[r].from /\ req'[r].name = req[r].name /\ req'[r].id = new
      /\ req'[r].waits = req[r].waits /\ req'[r].stage = next
      /\ \A q \in Requests \ {r} : req'[q] = req[q]
    BY <1>1, <1>3 DEF Request
<1>7. record.from = req[r].from /\ record.name = req[r].name /\ record.status = req[r].status
    OBVIOUS
<1> HIDE DEF record
<1>8. /\ DOMAIN store = 1..Len(store) /\ DOMAIN store' = 1..new /\ new \in Nat
      /\ new \notin DOMAIN store /\ new \in DOMAIN store' /\ store'[new] = record
      /\ \A i \in DOMAIN store : store'[i] = store[i] /\ i < new /\ i \in DOMAIN store'
      /\ \A i \in DOMAIN store' : i \in DOMAIN store \/ i = new
    BY <1>1, <1>3, <1>5
<1> HIDE DEF new
<1>9. ~Inserted(r) /\ Serving(r) /\ Inserted(r)' /\ Serving(r)'
    BY <1>1, <1>2, <1>6 DEF Inserted, Serving
<1>10. NoIdYet'
    BY <1>2, <1>6 DEF Latest, NoIdYet, Unstored
<1>11. \A q \in Requests, n \in Names : WaitsFor(q, Manager, n)' <=> WaitsFor(q, Manager, n)
    BY <1>6 DEF WaitsFor
<1>12. ASSUME NEW n \in Names, n \notin late' PROVE Tells(n)'
    <2>0. Tells(n)
        BY <1>1, <1>12 DEF Latest
    <2>1. \A q \in Requests :
            Serving(q)' /\ req'[q].from = Manager /\ req'[q].name = n => req'[q].waits
        BY <1>6, <1>9, <2>0 DEF Tells, Serving
    <2>2. \A p, q \in Requests : WaitsFor(p, Manager, n)' /\ WaitsFor(q, Manager, n)' => p = q
        BY <1>11, <2>0 DEF Tells
    <2>3. CASE req[r].from = Manager /\ req[r].name = n
        <3>1. Of(n)' = Of(n) \cup {new}
            <4>1. new \in Of(n)'
                BY <1>7, <1>8, <2>3 DEF Of
            <4>2. \A i \in DOMAIN store : i \in Of(n)' <=> i \in Of(n)
                BY <1>8 DEF Of
            <4>3. \A i \in Of(n)' : i \in DOMAIN store \/ i = new
                BY <1>8 DEF Of
            <4>4. Of(n) \subseteq DOMAIN store
                BY DEF Of
            <4>5. QED BY <4>1, <4>2, <4>3, <4>4
        <3>2. WaitsFor(r, Manager, n)
            BY <1>9, <2>0, <2>3 DEF Tells, WaitsFor
        <3>3. \A i \in Of(n)' : i <= new
            BY <1>8, <3>1 DEF Of
        <3>4. \A q \in Requests : WaitsFor(q, Manager, n)' /\ Inserted(q)' =>
                \A i \in Of(n)' : i <= req'[q].id
            BY <1>6, <1>11, <2>2, <3>2, <3>3
        <3>5. \A i \in Of(n)' :
                \/ \E j \in Of(n)' : j > i
                \/ \E q \in Requests : WaitsFor(q, Manager, n)' /\ req'[q].id = i
            <4>1. WaitsFor(r, Manager, n)' /\ req'[r].id = new
                BY <1>6, <1>11, <3>2
            <4>2. \A i \in Of(n) : new > i
                BY <1>8 DEF Of
            <4>3. QED BY <3>1, <4>1, <4>2
        <3>6. QED BY <2>1, <2>2, <3>4, <3>5 DEF Tells
    <2>4. CASE ~(req[r].from = Manager /\ req[r].name = n)
        <3>1. Of(n)' = Of(n)
            BY <1>7, <1>8, <2>4 DEF Of
        <3>2. ~WaitsFor(r, Manager, n)
            BY <2>4 DEF WaitsFor
        <3>3. \A q \in Requests : WaitsFor(q, Manager, n)' => q # r /\ req'[q] = req[q]
            BY <1>6, <1>11, <3>2
        <3>4. \A q \in Requests : WaitsFor(q, Manager, n)' /\ Inserted(q)' =>
                \A i \in Of(n)' : i <= req'[q].id
            BY <1>11, <2>0, <3>1, <3>3 DEF Tells, Inserted
        <3>5. ASSUME NEW i \in Of(n)'
              PROVE  \/ \E j \in Of(n)' : j > i
                     \/ store'[i].status = told'[n]
                     \/ \E q \in Requests : WaitsFor(q, Manager, n)' /\ req'[q].id = i
            <4>1. i \in Of(n) /\ store'[i] = store[i]
                BY <1>8, <3>1, <3>5 DEF Of
            <4>2. CASE \E q \in Requests : WaitsFor(q, Manager, n) /\ req[q].id = i
                BY <1>11, <3>3, <4>2
            <4>3. CASE ~\E q \in Requests : WaitsFor(q, Manager, n) /\ req[q].id = i
                BY <1>1, <2>0, <3>1, <4>1, <4>3 DEF Tells
            <4>4. QED BY <4>2, <4>3
        <3>6. QED BY <2>1, <2>2, <3>4, <3>5 DEF Tells
    <2>5. QED BY <2>3, <2>4
<1>13. QED BY <1>10, <1>12 DEF Latest

\* The answer tells what the last record does.
LEMMA ReplyLatest == ASSUME Inv, Latest, NEW r \in Requests, Reply(r) PROVE Latest'
<1>1. /\ req[r].stage = "reply" /\ req' = [req EXCEPT ![r] = Idle]
      /\ told' = [n \in Names |-> IF WaitsFor(r, Manager, n) THEN req[r].status ELSE told[n]]
      /\ store' = store /\ late' = late
    BY DEF Reply
<1>2. req'[r] = Idle /\ \A q \in Requests \ {r} : req'[q] = req[q]
    BY <1>1 DEF Inv, Types
<1>3. Idle.stage = "idle" /\ ~Idle.waits
    BY DEF Idle
<1>4. NoIdYet'
    BY <1>2, <1>3 DEF Latest, NoIdYet, Unstored
<1>5. ASSUME NEW n \in Names, n \notin late' PROVE Tells(n)'
    <2>0. Tells(n)
        BY <1>1, <1>5 DEF Latest
    <2>1. CASE WaitsFor(r, Manager, n)
        <3>1. Inserted(r)
            BY <1>1 DEF Inserted
        <3>2. /\ req[r].id \in Of(n) /\ store[req[r].id].status = req[r].status
              /\ \A i \in Of(n) : i <= req[r].id
            BY <2>0, <2>1, <3>1, Waiting DEF Tells
        <3>3. \A q \in Requests : ~WaitsFor(q, Manager, n)'
            BY <1>2, <1>3, <2>0, <2>1 DEF Tells, WaitsFor
        <3>4. Of(n)' = Of(n) /\ told'[n] = req[r].status
            BY <1>1, <2>1 DEF Of
        <3>5. \A i \in Of(n) : i \in Nat
            BY DEF Of, Inv, Types
        <3>6. \A i \in Of(n) : i = req[r].id \/ req[r].id > i
            BY <3>2, <3>5
        <3>7. \A i \in Of(n) : (\E j \in Of(n) : j > i) \/ store[i].status = told'[n]
            BY <3>2, <3>4, <3>6
        <3>8. \A q \in Requests :
                Serving(q)' /\ req'[q].from = Manager /\ req'[q].name = n => req'[q].waits
            BY <1>2, <1>3, <2>0 DEF Tells, Serving
        <3>9. QED BY <1>1, <3>3, <3>4, <3>7, <3>8 DEF Tells
    <2>2. CASE ~WaitsFor(r, Manager, n)
        <3>1. told'[n] = told[n]
            BY <1>1, <2>2
        <3>2. \A q \in Requests : WaitsFor(q, Manager, n)' =>
                WaitsFor(q, Manager, n) /\ req'[q].id = req[q].id /\ (Inserted(q)' => Inserted(q))
            BY <1>2, <1>3 DEF WaitsFor, Inserted
        <3>3. \A q \in Requests : Serving(q)' /\ req'[q].from = Manager /\ req'[q].name = n =>
                Serving(q) /\ req[q].from = Manager /\ req[q].name = n /\ req'[q].waits = req[q].waits
            BY <1>2, <1>3 DEF Serving
        <3>4. \A q \in Requests : WaitsFor(q, Manager, n) =>
                (WaitsFor(q, Manager, n)' /\ req'[q].id = req[q].id) \/ ~Inserted(q)
            BY <1>2, <2>2 DEF WaitsFor
        <3>5. QED BY <1>1, <1>5, <3>1, <3>2, <3>3, <3>4, Elsewhere
    <2>3. QED BY <2>1, <2>2
<1>6. QED BY <1>4, <1>5 DEF Latest

\* A restart: what Alertmanager waited for is late.
LEMMA CrashLatest == ASSUME Inv, Latest, Crash PROVE Latest'
<1>1. /\ \A r \in Requests : req'[r] = Idle
      /\ late' = late \cup {n \in Names : \E r \in Requests : WaitsFor(r, Manager, n)}
      /\ UNCHANGED <<store, told>>
    BY DEF Crash, manager
<1>2. Idle.stage = "idle" /\ ~Idle.waits
    BY DEF Idle
<1>3. NoIdYet'
    BY <1>1, <1>2 DEF NoIdYet, Unstored
<1>4. ASSUME NEW n \in Names, n \notin late' PROVE Tells(n)'
    <2>1. n \notin late /\ \A r \in Requests : ~WaitsFor(r, Manager, n)
        BY <1>1, <1>4
    <2>2. \A r \in Requests : ~WaitsFor(r, Manager, n)' /\ ~Serving(r)'
        BY <1>1, <1>2 DEF WaitsFor, Serving
    <2>3. QED BY <1>1, <2>1, <2>2, Elsewhere
<1>5. QED BY <1>3, <1>4 DEF Latest

\* Every step keeps it.
LEMMA StepLatest == Inv /\ Latest /\ [Next]_vars => Latest'
<1>0. SUFFICES ASSUME Inv, Latest, [Next]_vars PROVE Latest'
    OBVIOUS
<1>1. CASE UNCHANGED vars
    BY <1>0, <1>1, SameLatest DEF vars, manager
<1>2. ASSUME NEW b \in Burials, Bury(b) \/ BuryFails(b) \/ Notify(b) \/ PostWebhookFails(b)
                                \/ PostManager(b) \/ SkipManager(b)
      PROVE  Latest'
    <2>1. UNCHANGED <<req, store, told, late>>
        BY <1>2 DEF Bury, BuryFails, Notify, PostWebhookFails, PostManager, SkipManager, manager
    <2>2. QED BY <1>0, <2>1, SameLatest
<1>3. ASSUME NEW b \in Burials, PostWebhook(b) PROVE Latest'
    <2>1. Connect(b, Name[b], "posted") /\ UNCHANGED <<store, told, late>>
        BY <1>3 DEF PostWebhook, manager
    <2>2. b \in Senders /\ b # Manager /\ Name[b] \in Names
        BY ManagerIsNoBurial, BurialsHaveNames DEF Senders
    <2>3. QED BY <1>0, <2>1, <2>2, ConnectLatest
<1>4. ASSUME NEW b \in Burials, GiveUp(b) \/ WorkerDies(b) PROVE Latest'
    <2>1. Abandon(b, Name[b]) /\ UNCHANGED <<store, told>> /\ late' = late
        BY <1>4 DEF GiveUp, WorkerDies, manager
    <2>2. b \in Senders /\ b # Manager /\ Name[b] \in Names
        BY ManagerIsNoBurial, BurialsHaveNames DEF Senders
    <2>3. QED BY <1>0, <2>1, <2>2, AbandonLatest
<1>5. ASSUME NEW n \in Names, Resolve(n) PROVE Latest'
    BY <1>0, <1>5, SameLatest DEF Resolve
<1>6. ASSUME NEW n \in Names, Notification(n) PROVE Latest'
    <2>1. /\ Connect(Manager, n, alert[n]) /\ UNCHANGED <<store, told, late>>
          /\ \A r \in Requests : ~WaitsFor(r, Manager, n)
        BY <1>6 DEF Notification, manager
    <2>2. Manager \in Senders
        BY DEF Senders
    <2>3. QED BY <1>0, <2>1, <2>2, ConnectLatest
<1>7. ASSUME NEW n \in Names, NotificationTimesOut(n) PROVE Latest'
    <2>1. /\ Abandon(Manager, n) /\ UNCHANGED <<store, told>>
          /\ late \subseteq late' /\ n \in late'
        BY <1>7 DEF NotificationTimesOut, manager
    <2>2. Manager \in Senders
        BY DEF Senders
    <2>3. QED BY <1>0, <2>1, <2>2, AbandonLatest
<1>8. ASSUME NEW r \in Requests, Serve(r) \/ Hangs(r) PROVE Latest'
    BY <1>0, <1>8, InsertLatest, InsertFailsLatest, ForwardLatest, ReplyLatest, HangsLatest
       DEF Serve
<1>9. CASE Crash
    BY <1>0, <1>9, CrashLatest
<1>10. QED BY <1>0, <1>1, <1>2, <1>3, <1>4, <1>5, <1>6, <1>7, <1>8, <1>9 DEF Next, DeadLetter

\* The last record of a name tells what Alertmanager was last answered for, as
\* long as it waited for every answer: the webhook inserts before it answers, in
\* the order of the lock.
THEOREM LatestIsTold == Spec => []LatestTellsStatus
<1>1. Latest => LatestTellsStatus
    BY DEF Latest, Tells, LatestTellsStatus, Of
<1>2. Init => Inv /\ Latest
    BY InitInv, InitLatest
<1>3. Inv /\ Latest /\ [Next]_vars => (Inv /\ Latest)'
    BY StepInv, StepLatest
<1>4. QED BY <1>1, <1>2, <1>3, PTL DEF Spec
=============================================================================
