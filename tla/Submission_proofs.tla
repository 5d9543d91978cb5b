------------------------- MODULE Submission_proofs -------------------------
(***************************************************************************)
(* Proofs about Submission: types, what a request has written at each step,  *)
(* idempotency between requests that do not overlap, answers and the quota,  *)
(* for any requests, keys and bounds.                                        *)
(***************************************************************************)
EXTENDS Submission, FiniteSetTheorems, TLAPS

\* The jobs: what the type invariant needs of the queue.
JobsOK ==
    job \in [Requests \X {"flow", "tool"} ->
                {"absent", "waiting", "running", "finished", "dead"}]

\* The type invariant, the functions it leaves to the workers, that only a
\* request that has ended is answered and that only one with a key looks it up.
Typed ==
    /\ SubmissionTypeOK /\ JobsOK
    /\ \A r \in Requests :
        /\ step[r] # "ended" => reply[r] = None
        /\ step[r] = "lookup" => Key[r] # None
    /\ status \in [Requests -> {"absent", "queued", "running", "completed", "paused", "failed"}]

\* Nothing is stored at first.
LEMMA InitTyped == Init => Typed
<1>1. ASSUME Init PROVE Typed
    <2>1. \A r \in Requests : Flow(r) \in Requests \X {"flow", "tool"}
        BY DEF Flow
    <2>2. JobsOK
        BY <1>1 DEF Init, JobsOK, Queue!Init
    <2>3. \A r \in Requests : job[Flow(r)] = "absent"
        BY <1>1, <2>1 DEF Init, Queue!Init
    <2>4. QED BY <1>1, <2>2, <2>3, NoneIsNeither
          DEF Init, Typed, SubmissionTypeOK, Steps, Created, Unread
<1>2. QED BY <1>1

\* The steps of the meter.
Meter(r) == FindDict(r) \/ MakeDict(r) \/ ReadCount(r) \/ WriteCount(r)

\* Every step of a request keeps the types and the order of what it writes.
LEMMA StepTyped == Typed /\ [ApiNext]_vars => Typed'
<1>0. SUFFICES ASSUME Typed, [ApiNext]_vars PROVE Typed'
    OBVIOUS
<1>1. \A r \in Requests : Flow(r) \in Requests \X {"flow", "tool"}
    BY DEF Flow
<1>2. \A q, r \in Requests : Flow(q) = Flow(r) => q = r
    BY DEF Flow
<1>3. CASE UNCHANGED vars
    BY <1>0, <1>3 DEF Typed, SubmissionTypeOK, JobsOK, Created, vars, api, usage, queue, Flow
<1>4. ASSUME NEW r \in Requests, CheckQuota(r) PROVE Typed'
    BY <1>0, <1>4, NoneIsNeither
       DEF Typed, SubmissionTypeOK, JobsOK, Created, CheckQuota, Goto, Steps, usage, queue, Flow
<1>5. ASSUME NEW r \in Requests, Lookup(r) PROVE Typed'
    <2>1. /\ UNCHANGED <<keyOf, earlier, status, lifecycle, shared, job, runs>>
          /\ UNCHANGED <<dict, counts, meter, overlapped>>
        BY <1>5 DEF Lookup, queue, usage
    <2>2. \/ step' = [step EXCEPT ![r] = "create"] /\ reply' = reply
          \/ /\ keyOf[Key[r]] \in Created
             /\ step' = [step EXCEPT ![r] = "ended"]
             /\ reply' = [reply EXCEPT ![r] = keyOf[Key[r]]]
        BY <1>5 DEF Lookup, Answer, Goto
    <2>3. r \notin Created /\ step[r] = "lookup"
        BY <1>0, <1>5, NoneIsNeither DEF Lookup, Typed, SubmissionTypeOK
    <2>4. CASE step' = [step EXCEPT ![r] = "create"] /\ reply' = reply
        BY <1>0, <2>1, <2>3, <2>4 DEF Typed, SubmissionTypeOK, JobsOK, Created, Steps, Flow
    <2>5. CASE /\ keyOf[Key[r]] \in Created
               /\ step' = [step EXCEPT ![r] = "ended"]
               /\ reply' = [reply EXCEPT ![r] = keyOf[Key[r]]]
        <3>1. keyOf[Key[r]] \in Requests /\ keyOf[Key[r]] # r /\ Created' = Created
            BY <2>1, <2>3, <2>5 DEF Created
        <3>2. QED BY <1>0, <2>1, <2>3, <2>5, <3>1
              DEF Typed, SubmissionTypeOK, JobsOK, Steps, Flow
    <2>6. QED BY <2>2, <2>4, <2>5
<1>6. ASSUME NEW r \in Requests, Reject(r) PROVE Typed'
    BY <1>0, <1>6
       DEF Typed, SubmissionTypeOK, JobsOK, Created, Reject, Goto, Steps, usage, queue, Flow
<1>7. ASSUME NEW r \in Requests, Create(r) PROVE Typed'
    <2>1. /\ status' = [status EXCEPT ![r] = "queued"]
          /\ step' = [step EXCEPT ![r] = "lifecycle"]
          /\ UNCHANGED <<reply, keyOf, earlier, lifecycle, shared, job, runs>>
          /\ UNCHANGED <<dict, counts, meter, overlapped>>
        BY <1>7 DEF Create, Goto, queue, usage
    <2>2. r \notin Created /\ step[r] = "create"
        BY <1>0, <1>7, NoneIsNeither DEF Create, Typed, SubmissionTypeOK
    <2>3. status' \in [Requests ->
             {"absent", "queued", "running", "completed", "paused", "failed"}]
        BY <1>0, <2>1 DEF Typed
    <2>4. Created' = Created \cup {r}
        BY <1>0, <2>1 DEF Typed, Created
    <2>5. QED BY <1>0, <2>1, <2>2, <2>3, <2>4
          DEF Typed, SubmissionTypeOK, JobsOK, Steps, Flow
<1>8. ASSUME NEW r \in Requests, CreateLifecycle(r) PROVE Typed'
    <2>1. keyOf' \in [Keys -> Requests \cup {None}]
        BY <1>0, <1>8, KeyIsKey DEF CreateLifecycle, Typed, SubmissionTypeOK
    <2>2. QED BY <1>0, <1>8, <2>1
          DEF Typed, SubmissionTypeOK, JobsOK, Created, CreateLifecycle, Goto, Steps, usage, queue,
              Flow
<1>9. ASSUME NEW r \in Requests, Publish(r) PROVE Typed'
    <2>1. job' = [job EXCEPT ![Flow(r)] = "waiting"]
        BY <1>9 DEF Publish, Queue!Submit, Queue!Move
    <2>2. JobsOK'
        BY <1>0, <1>1, <2>1 DEF JobsOK, Typed
    <2>3. \A q \in Requests : job'[Flow(q)] = IF q = r THEN "waiting" ELSE job[Flow(q)]
        BY <1>0, <1>1, <1>2, <2>1 DEF JobsOK, Typed
    <2>4. QED BY <1>0, <1>9, <2>2, <2>3
          DEF Typed, SubmissionTypeOK, Created, Publish, Goto, Steps, usage
<1>10. ASSUME NEW r \in Requests, Register(r) PROVE Typed'
    BY <1>0, <1>10
       DEF Typed, SubmissionTypeOK, JobsOK, Created, Register, Goto, Steps, usage, queue, Flow
<1>11. ASSUME NEW r \in Requests, Meter(r) PROVE Typed'
    <2>1. meter[r] \in [dict : Requests \cup {None}, seen : Nat]
        BY <1>0 DEF Typed, SubmissionTypeOK
    <2>2. CASE FindDict(r) \/ MakeDict(r)
        <3>1. /\ dict' \in Requests \cup {None} /\ counts' = counts
              /\ meter' \in [Requests -> [dict : Requests \cup {None}, seen : Nat]]
              /\ overlapped' \subseteq Requests
              /\ step[r] \in {"meter", "factory"}
            BY <1>0, <2>2 DEF Typed, SubmissionTypeOK, FindDict, MakeDict, Metering
        <3>2. PICK s \in {"factory", "count"} :
                /\ step' = [step EXCEPT ![r] = s]
                /\ s = "count" => meter'[r].dict # None
            BY <1>0, <2>1, <2>2, NoneIsNeither
               DEF Typed, SubmissionTypeOK, FindDict, MakeDict, Goto
        <3>3. /\ \A q \in Requests : q # r => meter'[q] = meter[q]
              /\ UNCHANGED <<reply, keyOf, earlier, status, lifecycle, shared, job>>
            BY <1>0, <2>2 DEF Typed, SubmissionTypeOK, FindDict, MakeDict, queue
        <3>4. QED BY <1>0, <3>1, <3>2, <3>3
              DEF Typed, SubmissionTypeOK, JobsOK, Created, Steps, Flow
    <2>3. CASE ReadCount(r)
        <3>1. counts[meter[r].dict] \in Nat
            BY <1>0, <2>1, <2>3 DEF Typed, SubmissionTypeOK, ReadCount
        <3>2. QED BY <1>0, <2>1, <2>3, <3>1
              DEF Typed, SubmissionTypeOK, JobsOK, Created, ReadCount, Goto, Steps, queue, Flow
    <2>4. CASE WriteCount(r)
        <3>1. /\ counts' \in [Requests -> Nat] /\ r \in Created /\ Created' = Created
              /\ meter' = [meter EXCEPT ![r] = Unread]
              /\ meter' \in [Requests -> [dict : Requests \cup {None}, seen : Nat]]
            BY <1>0, <2>1, <2>4 DEF Typed, SubmissionTypeOK, WriteCount, Unread, Created, Steps
        <3>2. /\ step' = [step EXCEPT ![r] = "ended"] /\ reply' = [reply EXCEPT ![r] = r]
              /\ step[r] = "store"
              /\ UNCHANGED <<dict, overlapped, keyOf, earlier, status, lifecycle, shared, job>>
            BY <2>4 DEF WriteCount, Answer, Goto, queue
        <3>3. QED BY <1>0, <3>1, <3>2 DEF Typed, SubmissionTypeOK, JobsOK, Steps, Flow
    <2>5. QED BY <1>11, <2>2, <2>3, <2>4 DEF Meter
<1>12. QED
    BY <1>0, <1>3, <1>4, <1>5, <1>6, <1>7, <1>8, <1>9, <1>10, <1>11
       DEF ApiNext, Submit, Meter

\* SubmissionTypeOK holds in every reachable state: the maps are well typed, and
\* what is stored for a request is what its step says.
THEOREM SubmissionTyped == Spec => []SubmissionTypeOK
<1>1. Spec => []Typed
    BY InitTyped, StepTyped, PTL DEF Spec
<1>2. Typed => SubmissionTypeOK
    BY DEF Typed
<1>3. QED BY <1>1, <1>2, PTL

----------------------------------------------------------------------------
(* Idempotency *)

\* A request that began after another with its key had created an execution
\* finds the key recorded, so that it never gets to create one itself.
KeyedReplay ==
    /\ \A r \in Requests : \A q \in earlier[r] : step[q] = "ended"
    /\ \A r \in Created : step[r] # "lifecycle" /\ Key[r] # None
            => keyOf[Key[r]] \in Created
    /\ \A r \in Requests : \A q \in Created \cap earlier[r] :
            q # r /\ Key[q] = Key[r] /\ Key[r] # None
                => r \notin Created /\ step[r] # "create"

\* Every step of a request keeps KeyedReplay.
LEMMA StepReplay == Typed /\ KeyedReplay /\ [ApiNext]_vars => KeyedReplay'
<1>0. SUFFICES ASSUME Typed, KeyedReplay, [ApiNext]_vars PROVE KeyedReplay'
    OBVIOUS
<1>1. step \in [Requests -> Steps] /\ earlier \in [Requests -> SUBSET Requests]
      /\ keyOf \in [Keys -> Requests \cup {None}]
      /\ \A r \in Requests : step[r] \in {"new", "lookup", "create"} => r \notin Created
    BY <1>0, NoneIsNeither DEF Typed, SubmissionTypeOK
<1>2. CASE UNCHANGED vars
    BY <1>0, <1>2 DEF KeyedReplay, Created, vars, api, queue
<1>3. ASSUME NEW r \in Requests, CheckQuota(r) PROVE KeyedReplay'
    BY <1>0, <1>1, <1>3 DEF KeyedReplay, Created, CheckQuota, Goto
<1>4. ASSUME NEW r \in Requests, Lookup(r) PROVE KeyedReplay'
    <2>1. Key[r] # None =>
            \A q \in Created \cap earlier[r] : Key[q] = Key[r] => keyOf[Key[r]] \in Created
        BY <1>0, <1>1 DEF KeyedReplay
    <2>2. QED
        BY <1>0, <1>1, <1>4, <2>1, NoneIsNeither
           DEF KeyedReplay, Created, Lookup, Answer, Goto
<1>5. ASSUME NEW r \in Requests, Reject(r) PROVE KeyedReplay'
    BY <1>0, <1>1, <1>5 DEF KeyedReplay, Created, Reject, Goto
<1>6. ASSUME NEW r \in Requests, Create(r) PROVE KeyedReplay'
    <2>1. status \in [Requests ->
            {"absent", "queued", "running", "completed", "paused", "failed"}]
        BY <1>0 DEF Typed
    <2>2. Created' = Created \cup {r}
        BY <1>6, <2>1 DEF Create, Created
    <2>3. QED
        BY <1>0, <1>1, <1>6, <2>2 DEF KeyedReplay, Create, Goto
<1>7. ASSUME NEW r \in Requests, CreateLifecycle(r) PROVE KeyedReplay'
    <2>1. r \in Created /\ Created' = Created
        BY <1>0, <1>7 DEF Typed, SubmissionTypeOK, CreateLifecycle, Created
    <2>2. /\ step' = [step EXCEPT ![r] = "publish"] /\ earlier' = earlier
          /\ step[r] = "lifecycle"
          /\ keyOf' = IF Key[r] = None THEN keyOf ELSE [keyOf EXCEPT ![Key[r]] = r]
        BY <1>7 DEF CreateLifecycle, Goto
    <2>3. \A k \in Keys : keyOf[k] \in Created \/ k = Key[r] => keyOf'[k] \in Created
        BY <1>1, <2>1, <2>2, KeyIsKey, NoneIsNeither
    <2>4. \A q \in Created' : step'[q] # "lifecycle" /\ Key[q] # None
              => keyOf'[Key[q]] \in Created'
        <3>1. TAKE q \in Created'
        <3>2. q \in Requests BY DEF Created
        <3>3. HAVE step'[q] # "lifecycle" /\ Key[q] # None
        <3>4. Key[q] \in Keys BY <3>2, <3>3, KeyIsKey
        <3>5. CASE q = r BY <2>1, <2>3, <3>4, <3>5
        <3>6. CASE q # r
            BY <1>0, <1>1, <2>1, <2>2, <2>3, <3>2, <3>3, <3>4, <3>6 DEF KeyedReplay
        <3>7. QED BY <3>5, <3>6
    <2>5. \A q \in Requests : \A p \in earlier'[q] : step'[p] = "ended"
        BY <1>0, <1>1, <2>2 DEF KeyedReplay
    <2>6. \A q \in Requests : step'[q] = "create" => step[q] = "create"
        BY <1>1, <2>2
    <2>7. \A p \in Requests : \A q \in Created' \cap earlier'[p] :
              q # p /\ Key[q] = Key[p] /\ Key[p] # None
                  => p \notin Created' /\ step'[p] # "create"
        BY <1>0, <2>1, <2>2, <2>6 DEF KeyedReplay
    <2>8. QED BY <2>4, <2>5, <2>7 DEF KeyedReplay
<1>8. ASSUME NEW r \in Requests, Publish(r) \/ Register(r) PROVE KeyedReplay'
    BY <1>0, <1>1, <1>8 DEF KeyedReplay, Created, Publish, Register, Goto
<1>9. ASSUME NEW r \in Requests, Meter(r) PROVE KeyedReplay'
    <2>1. /\ UNCHANGED <<status, keyOf, earlier>> /\ step[r] \notin {"lifecycle", "ended"}
          /\ \E s \in {"factory", "count", "store", "ended"} : step' = [step EXCEPT ![r] = s]
        BY <1>9 DEF Meter, FindDict, MakeDict, ReadCount, WriteCount, Answer, Goto
    <2>2. QED BY <1>0, <1>1, <2>1 DEF KeyedReplay, Created
<1>10. QED
    BY <1>0, <1>2, <1>3, <1>4, <1>5, <1>6, <1>7, <1>8, <1>9 DEF ApiNext, Submit, Meter

\* At first no execution exists.
LEMMA InitReplay == Init => KeyedReplay
BY DEF Init, KeyedReplay, Created

\* KeyedReplay is stronger than the property.
LEMMA ReplayedAre == Typed /\ KeyedReplay => SequentialRetriesReplay
BY DEF Typed, KeyedReplay, SequentialRetriesReplay, Created

\* SequentialRetriesReplay holds in every reachable state: two executions with
\* one key were created only by requests that were in flight at once.
THEOREM RetriesReplay == Spec => []SequentialRetriesReplay
BY InitReplay, ReplayedAre, InitTyped, StepTyped, StepReplay, PTL DEF Spec

----------------------------------------------------------------------------
(* Answers *)

\* An execution whose lifecycle exists.
Findable(e) == e \in Created /\ step[e] # "lifecycle"

\* A recorded key, and an answer, name a findable execution of that key.
NamesFindable ==
    /\ \A k \in Keys : keyOf[k] # None => Findable(keyOf[k]) /\ Key[keyOf[k]] = k
    /\ \A r \in Requests : reply[r] # None => Findable(reply[r]) /\ Key[reply[r]] = Key[r]

\* No step makes a findable execution disappear.
LEMMA StepFindable ==
    ASSUME Typed, NEW r \in Requests, CheckQuota(r) \/ Submit(r)
    PROVE  \A e \in Requests : Findable(e) => Findable(e)'
<1>1. step \in [Requests -> Steps]
      /\ (step[r] \in {"new", "create"} => r \notin Created)
    BY NoneIsNeither DEF Typed, SubmissionTypeOK
<1>2. status' = status \/ (status' = [status EXCEPT ![r] = "queued"] /\ step[r] = "create")
    BY DEF CheckQuota, Submit, Lookup, Reject, Create, CreateLifecycle, Publish, Register,
           FindDict, MakeDict, ReadCount, WriteCount
<1>3. /\ \A e \in Requests : e # r => step'[e] = step[e]
      /\ step'[r] = "lifecycle" => step[r] = "create"
    BY <1>1 DEF CheckQuota, Submit, Lookup, Reject, Create, CreateLifecycle, Publish, Register,
           FindDict, MakeDict, ReadCount, WriteCount, Answer, Goto
<1>4. status \in [Requests ->
        {"absent", "queued", "running", "completed", "paused", "failed"}]
    BY DEF Typed
<1>5. Created \subseteq Created'
    BY <1>2, <1>4 DEF Created
<1>6. ASSUME NEW e \in Requests, Findable(e) PROVE Findable(e)'
    <2>1. e = r => step[r] # "create"
        BY <1>1, <1>6 DEF Findable
    <2>2. step'[e] # "lifecycle"
        BY <1>1, <1>3, <1>6, <2>1 DEF Findable
    <2>3. QED BY <1>5, <1>6, <2>2 DEF Findable
<1>7. QED BY <1>6

\* Every step of a request keeps NamesFindable.
LEMMA StepNames == Typed /\ NamesFindable /\ [ApiNext]_vars => NamesFindable'
<1>0. SUFFICES ASSUME Typed, NamesFindable, [ApiNext]_vars PROVE NamesFindable'
    OBVIOUS
<1>1. keyOf \in [Keys -> Requests \cup {None}] /\ reply \in [Requests -> Requests \cup {None}]
    BY <1>0 DEF Typed, SubmissionTypeOK
<1>2. CASE UNCHANGED vars
    BY <1>0, <1>2 DEF NamesFindable, Findable, Created, vars, api, queue
<1>3. SUFFICES ASSUME NEW r \in Requests, CheckQuota(r) \/ Submit(r) PROVE NamesFindable'
    BY <1>0, <1>2 DEF ApiNext
<1>4. \A e \in Requests : Findable(e) => Findable(e)'
    BY <1>0, <1>3, StepFindable
<1>5. CASE keyOf' = keyOf /\ reply' = reply
    BY <1>0, <1>1, <1>4, <1>5 DEF NamesFindable
<1>6. CASE Lookup(r)
    <2>1. Key[r] \in Keys
        BY <1>0, <1>6, KeyIsKey DEF Lookup, Typed
    <2>2. keyOf' = keyOf
        BY <1>6 DEF Lookup
    <2>3. CASE reply' = reply
        BY <1>5, <2>2, <2>3
    <2>4. CASE /\ reply' = [reply EXCEPT ![r] = keyOf[Key[r]]]
               /\ keyOf[Key[r]] # None
        <3>1. PICK e \in Requests : e = keyOf[Key[r]] /\ Findable(e) /\ Key[e] = Key[r]
            BY <1>0, <1>1, <2>1, <2>4 DEF NamesFindable
        <3>2. Findable(e)'
            BY <1>4, <3>1
        <3>3. (\A k \in Keys : keyOf[k] # None => Findable(keyOf[k]) /\ Key[keyOf[k]] = k)'
            BY <1>0, <1>1, <1>4, <2>2 DEF NamesFindable
        <3>4. (\A q \in Requests : reply[q] # None
                => Findable(reply[q]) /\ Key[reply[q]] = Key[q])'
            BY <1>0, <1>1, <1>4, <2>4, <3>1, <3>2 DEF NamesFindable
        <3>5. QED BY <3>3, <3>4 DEF NamesFindable
    <2>5. QED
        BY <1>6, <2>3, <2>4 DEF Lookup, Answer
<1>7. CASE CreateLifecycle(r)
    <2>1. Findable(r)'
        BY <1>0, <1>7 DEF CreateLifecycle, Goto, Findable, Created, Typed, SubmissionTypeOK
    <2>2. QED
        BY <1>0, <1>1, <1>3, <1>4, <1>7, <2>1, KeyIsKey DEF NamesFindable, CreateLifecycle
<1>8. CASE WriteCount(r)
    <2>1. Findable(r)
        BY <1>0, <1>8 DEF WriteCount, Findable, Typed, SubmissionTypeOK, Steps
    <2>2. QED
        BY <1>0, <1>1, <1>3, <1>4, <1>8, <2>1 DEF NamesFindable, WriteCount, Answer
<1>9. QED
    BY <1>3, <1>5, <1>6, <1>7, <1>8
       DEF CheckQuota, Submit, Reject, Create, Publish, Register, FindDict, MakeDict, ReadCount

\* At first nothing is named.
LEMMA InitNames == Init => NamesFindable
BY DEF Init, NamesFindable

\* NamesFindable is stronger than the property.
LEMMA AnswersAre == Typed /\ NamesFindable => AnswersExist
BY DEF Typed, SubmissionTypeOK, NamesFindable, Findable, AnswersExist, Created, InFlight

\* AnswersExist holds in every reachable state: an answer names a stored
\* execution of the request's key with a lifecycle, and with a job unless its
\* own request is about to publish it.
THEOREM AnswersNameExecutions == Spec => []AnswersExist
BY InitNames, AnswersAre, InitTyped, StepTyped, StepNames, PTL DEF Spec

----------------------------------------------------------------------------
(* The quota *)

Metered == {r \in Created : step[r] = "ended"}
\* The executions that the usage cannot miss.
Counted == Metered \ overlapped

\* What the meter keeps, although its steps interleave: of two requests that
\* meter at once both are marked; no count exceeds the executions whose requests
\* ended; the usage counts at least those that no other overlapped, and so does
\* the count that anyone is about to write there; and while a dict is being made
\* there is none of them.
Ledger ==
    /\ \A q, r \in Metering : q # r => r \in overlapped
    /\ \A r \in Requests :
            counts[r] <= Cardinality(Metered) /\ meter[r].seen <= Cardinality(Metered)
    /\ Cardinality(Counted) <= Used
    /\ \A r \in Metering :
        /\ step[r] = "factory" => Counted = {}
        /\ step[r] # "factory" => r \in overlapped \/ meter[r].dict = dict
        /\ step[r] = "store" /\ meter[r].dict = dict => Cardinality(Counted) <= meter[r].seen

\* Those that are counted, and together with the requests in flight, which may
\* each create one, they are bounded.
Quota == Ledger /\ Cardinality(Counted \cup InFlight) <= Limit - 1 + MaxInFlight

\* The executions there are, and those there may soon be, are finite in number.
LEMMA QuotaSets ==
    /\ IsFiniteSet(Metered) /\ Cardinality(Metered) \in Nat
    /\ IsFiniteSet(Counted) /\ Cardinality(Counted) \in Nat
    /\ IsFiniteSet(InFlight) /\ Cardinality(InFlight) \in Nat
    /\ IsFiniteSet(Counted \cup InFlight) /\ Cardinality(Counted \cup InFlight) \in Nat
<1>1. /\ Metered \subseteq Requests /\ Counted \subseteq Requests /\ InFlight \subseteq Requests
      /\ Counted \cup InFlight \subseteq Requests
    BY DEF Metered, Counted, Created, InFlight
<1>2. /\ IsFiniteSet(Metered) /\ IsFiniteSet(Counted) /\ IsFiniteSet(InFlight)
      /\ IsFiniteSet(Counted \cup InFlight)
    BY <1>1, RequestsAreFinite, FS_Subset
<1>3. QED BY <1>2, FS_CardinalityType

\* A step of no meter.
LEMMA LedgerKept ==
    ASSUME Ledger, UNCHANGED <<dict, counts, meter, overlapped>>, Metered' = Metered,
           Metering' = Metering, \A r \in Metering : step'[r] = step[r]
    PROVE  Ledger'
BY DEF Ledger, Counted, Used

\* What a step of a meter before the last one leaves as it is.
LEMMA MeterGoesOn ==
    ASSUME Typed, NEW r \in Requests, FindDict(r) \/ MakeDict(r) \/ ReadCount(r)
    PROVE  /\ Metered' = Metered /\ Counted' = Counted /\ InFlight' = InFlight
           /\ Metering' = Metering \cup {r}
           /\ \A q \in Requests : q # r => step'[q] = step[q] /\ meter'[q] = meter[q]
           /\ overlapped \subseteq overlapped'
<1>1. /\ step \in [Requests -> Steps] /\ r \notin Metered
      /\ meter \in [Requests -> [dict : Requests \cup {None}, seen : Nat]]
    BY DEF Typed, SubmissionTypeOK, Metered, FindDict, MakeDict, ReadCount
<1>2. /\ status' = status /\ counts' = counts
      /\ step[r] \notin {"new", "ended"}
      /\ \E s \in {"factory", "count", "store"} : step' = [step EXCEPT ![r] = s]
      /\ \/ meter' = [meter EXCEPT ![r].dict = dict]
         \/ meter' = [meter EXCEPT ![r].dict = r]
         \/ meter' = [meter EXCEPT ![r].seen = counts[meter[r].dict]]
      /\ overlapped' = overlapped \/ overlapped' = overlapped \cup Metering \cup {r}
    BY DEF FindDict, MakeDict, ReadCount, Goto
<1>3. Metered' = Metered
    BY <1>1, <1>2 DEF Metered, Created
<1>4. Metering \cap Metered = {}
    BY DEF Metering, Metered
<1>5. Counted' = Counted
    BY <1>1, <1>2, <1>3, <1>4 DEF Counted
<1>6. InFlight' = InFlight /\ Metering' = Metering \cup {r}
    BY <1>1, <1>2 DEF InFlight, Metering
<1>7. \A q \in Requests : q # r => step'[q] = step[q] /\ meter'[q] = meter[q]
    BY <1>1, <1>2
<1>8. QED BY <1>2, <1>3, <1>5, <1>6, <1>7

\* The last step of a meter ends the request.
LEMMA MeterEnds ==
    ASSUME Typed, NEW r \in Requests, WriteCount(r)
    PROVE  /\ r \in Metering /\ Metering' = Metering \ {r} /\ InFlight' = InFlight \ {r}
           /\ r \in InFlight /\ r \notin Metered
           /\ Metered' = Metered \cup {r} /\ Cardinality(Metered') = Cardinality(Metered) + 1
           /\ Counted' = IF r \in overlapped THEN Counted ELSE Counted \cup {r}
           /\ r \notin overlapped => Cardinality(Counted') = Cardinality(Counted) + 1
           /\ overlapped' = overlapped /\ dict' = dict
           /\ counts' = [counts EXCEPT ![meter[r].dict] = meter[r].seen + 1]
           /\ meter[r].dict \in Requests
           /\ \A q \in Requests : q # r => step'[q] = step[q] /\ meter'[q] = meter[q]
           /\ meter'[r] = Unread
<1>1. /\ step \in [Requests -> Steps] /\ step[r] = "store" /\ r \in Created
      /\ meter \in [Requests -> [dict : Requests \cup {None}, seen : Nat]]
      /\ meter[r].dict \in Requests
    BY DEF Typed, SubmissionTypeOK, WriteCount, Steps
<1>2. /\ UNCHANGED <<status, dict, overlapped>>
      /\ step' = [step EXCEPT ![r] = "ended"] /\ meter' = [meter EXCEPT ![r] = Unread]
      /\ counts' = [counts EXCEPT ![meter[r].dict] = meter[r].seen + 1]
    BY DEF WriteCount, Answer, Goto
<1>3. r \in Metering /\ Metering' = Metering \ {r}
    BY <1>1, <1>2 DEF Metering
<1>4. r \in InFlight /\ InFlight' = InFlight \ {r}
    BY <1>1, <1>2 DEF InFlight
<1>5. r \notin Metered /\ Metered' = Metered \cup {r}
    BY <1>1, <1>2 DEF Metered, Created
<1>6. Counted' = IF r \in overlapped THEN Counted ELSE Counted \cup {r}
    BY <1>2, <1>5 DEF Counted
<1>7. r \notin Counted
    BY <1>5 DEF Counted
<1>8. Cardinality(Metered') = Cardinality(Metered) + 1
    BY <1>5, QuotaSets, FS_AddElement
<1>9. r \notin overlapped => Cardinality(Counted') = Cardinality(Counted) + 1
    BY <1>6, <1>7, QuotaSets, FS_AddElement
<1>10. QED BY <1>1, <1>2, <1>3, <1>4, <1>5, <1>6, <1>8, <1>9

\* The types the argument on the meter rests on.
MeterTypes ==
    /\ dict \in Requests \cup {None} /\ None \notin Requests
    /\ counts \in [Requests -> Nat]
    /\ meter \in [Requests -> [dict : Requests \cup {None}, seen : Nat]]

\* Every step of a meter keeps the ledger.
LEMMA MeterLedger ==
    ASSUME Typed, Ledger, NEW r \in Requests, Meter(r)
    PROVE  Ledger'
<1>1. MeterTypes /\ MeterTypes'
    <2>1. Typed'
        BY StepTyped DEF ApiNext, Submit, Meter
    <2>2. QED BY <2>1, NoneIsNeither DEF Typed, SubmissionTypeOK, MeterTypes
<1>2. Used \in Nat
    BY <1>1 DEF MeterTypes, Used
<1>3. Metering \subseteq Requests
    BY DEF Metering
<1>4. CASE FindDict(r)
    <2>1. /\ step[r] = "meter" /\ UNCHANGED <<dict, counts>>
          /\ meter' = [meter EXCEPT ![r].dict = dict]
          /\ step' = [step EXCEPT ![r] = IF dict = None THEN "factory" ELSE "count"]
          /\ overlapped' = IF Metering = {} THEN overlapped ELSE overlapped \cup Metering \cup {r}
        BY <1>4 DEF FindDict, Goto
    <2>2. /\ step'[r] = IF dict = None THEN "factory" ELSE "count"
          /\ meter'[r].dict = dict /\ meter'[r].seen = meter[r].seen
        BY <1>1, <2>1 DEF MeterTypes, Typed, SubmissionTypeOK
    <2>3. dict = None => Counted = {}
        <3>1. dict = None => Cardinality(Counted) = 0
            BY QuotaSets DEF Ledger, Used
        <3>2. QED BY <3>1, QuotaSets, FS_EmptySet
    <2>4. /\ Metered' = Metered /\ Counted' = Counted /\ Metering' = Metering \cup {r}
          /\ \A q \in Requests : q # r => step'[q] = step[q] /\ meter'[q] = meter[q]
          /\ overlapped \subseteq overlapped' /\ Used' = Used
        BY <1>4, <2>1, MeterGoesOn DEF Used
    <2>5. \A p, q \in Metering' : p # q => q \in overlapped'
        BY <2>1, <2>4 DEF Ledger
    <2>6. \A q \in Requests : counts'[q] <= Cardinality(Metered')
                              /\ meter'[q].seen <= Cardinality(Metered')
        BY <2>1, <2>2, <2>4 DEF Ledger
    <2>7. ASSUME NEW q \in Metering'
          PROVE  /\ step'[q] = "factory" => Counted' = {}
                 /\ step'[q] # "factory" => q \in overlapped' \/ meter'[q].dict = dict'
                 /\ step'[q] = "store" /\ meter'[q].dict = dict'
                        => Cardinality(Counted') <= meter'[q].seen
        <3>1. CASE q = r
            BY <2>1, <2>2, <2>3, <2>4, <3>1
        <3>2. CASE q # r
            BY <1>3, <2>1, <2>4, <3>2 DEF Ledger
        <3>3. QED BY <3>1, <3>2
    <2>8. QED BY <2>4, <2>5, <2>6, <2>7 DEF Ledger
<1>5. CASE MakeDict(r)
    <2>1. /\ step[r] = "factory" /\ UNCHANGED <<counts, overlapped>>
          /\ dict' = r /\ meter' = [meter EXCEPT ![r].dict = r]
          /\ step' = [step EXCEPT ![r] = "count"]
        BY <1>5 DEF MakeDict, Goto
    <2>2. /\ r \in Metering /\ step'[r] = "count"
          /\ meter'[r].dict = r /\ meter'[r].seen = meter[r].seen
        BY <1>1, <2>1 DEF MeterTypes, Typed, SubmissionTypeOK, Metering
    <2>3. Counted = {} /\ Cardinality(Counted) = 0
        BY <2>1, <2>2, FS_EmptySet DEF Ledger
    <2>4. /\ Metered' = Metered /\ Counted' = Counted /\ Metering' = Metering
          /\ \A q \in Requests : q # r => step'[q] = step[q] /\ meter'[q] = meter[q]
        BY <1>5, <2>2, MeterGoesOn
    <2>5. Used' \in Nat
        BY <1>1 DEF MeterTypes, Used
    <2>6. \A q \in Requests : counts'[q] <= Cardinality(Metered')
                              /\ meter'[q].seen <= Cardinality(Metered')
        BY <2>1, <2>2, <2>4 DEF Ledger
    <2>7. ASSUME NEW q \in Metering'
          PROVE  /\ step'[q] = "factory" => Counted' = {}
                 /\ step'[q] # "factory" => q \in overlapped' \/ meter'[q].dict = dict'
                 /\ step'[q] = "store" /\ meter'[q].dict = dict'
                        => Cardinality(Counted') <= meter'[q].seen
        <3>1. meter'[q].seen \in Nat
            BY <1>1, <1>3, <2>4 DEF MeterTypes
        <3>2. CASE q = r
            BY <2>1, <2>2, <3>2
        <3>3. CASE q # r
            <4>1. q \in overlapped'
                BY <2>1, <2>2, <2>4, <3>3 DEF Ledger
            <4>2. QED BY <2>3, <2>4, <3>1, <4>1
        <3>4. QED BY <3>2, <3>3
    <2>8. QED BY <2>1, <2>3, <2>4, <2>5, <2>6, <2>7 DEF Ledger
<1>6. CASE ReadCount(r)
    <2>1. /\ step[r] = "count" /\ UNCHANGED <<dict, counts, overlapped>>
          /\ meter' = [meter EXCEPT ![r].seen = counts[meter[r].dict]]
          /\ step' = [step EXCEPT ![r] = "store"]
        BY <1>6 DEF ReadCount, Goto
    <2>2. /\ r \in Metering /\ step'[r] = "store"
          /\ meter'[r].dict = meter[r].dict /\ meter'[r].seen = counts[meter[r].dict]
          /\ meter[r].dict \in Requests
        BY <1>1, <2>1 DEF MeterTypes, Typed, SubmissionTypeOK, Metering
    <2>3. /\ Metered' = Metered /\ Counted' = Counted /\ Metering' = Metering
          /\ \A q \in Requests : q # r => step'[q] = step[q] /\ meter'[q] = meter[q]
          /\ Used' = Used
        BY <1>6, <2>1, <2>2, MeterGoesOn DEF Used
    <2>4. \A q \in Requests : counts'[q] <= Cardinality(Metered')
                              /\ meter'[q].seen <= Cardinality(Metered')
        BY <2>1, <2>2, <2>3 DEF Ledger
    <2>5. ASSUME NEW q \in Metering'
          PROVE  /\ step'[q] = "factory" => Counted' = {}
                 /\ step'[q] # "factory" => q \in overlapped' \/ meter'[q].dict = dict'
                 /\ step'[q] = "store" /\ meter'[q].dict = dict'
                        => Cardinality(Counted') <= meter'[q].seen
        <3>1. CASE q = r
            <4>1. meter[r].dict = dict => Used = counts[meter[r].dict]
                BY <1>1, <2>2 DEF Used, MeterTypes
            <4>2. QED BY <2>1, <2>2, <2>3, <3>1, <4>1 DEF Ledger
        <3>2. CASE q # r
            BY <1>3, <2>1, <2>3, <3>2 DEF Ledger
        <3>3. QED BY <3>1, <3>2
    <2>6. QED BY <2>1, <2>3, <2>4, <2>5 DEF Ledger
<1>7. CASE WriteCount(r)
    <2> DEFINE d == meter[r].dict
               new == meter[r].seen + 1
               m == Cardinality(Metered)
               k == Cardinality(Counted)
    <2>1. /\ r \in Metering /\ Metering' = Metering \ {r}
          /\ overlapped' = overlapped /\ dict' = dict /\ d \in Requests
          /\ counts' = [counts EXCEPT ![d] = new]
          /\ Cardinality(Metered') = m + 1
          /\ r \in overlapped => Counted' = Counted
          /\ r \notin overlapped => Cardinality(Counted') = k + 1
          /\ \A q \in Requests : q # r => step'[q] = step[q] /\ meter'[q] = meter[q]
          /\ meter'[r] = Unread
        BY <1>7, MeterEnds
    <2>2. /\ m \in Nat /\ k \in Nat /\ meter[r].seen \in Nat /\ meter[r].seen <= m
          /\ step[r] = "store"
        BY <1>1, <1>7, QuotaSets DEF MeterTypes, Ledger, WriteCount
    <2>3. \A q \in Metering' : r \in overlapped
        BY <2>1 DEF Ledger
    <2>4. \A p, q \in Metering' : p # q => q \in overlapped'
        BY <2>1 DEF Ledger
    <2>5. ASSUME NEW q \in Requests
          PROVE  counts'[q] <= Cardinality(Metered') /\ meter'[q].seen <= Cardinality(Metered')
        <3>1. counts[q] \in Nat /\ counts[q] <= m /\ meter[q].seen \in Nat /\ meter[q].seen <= m
            BY <1>1 DEF MeterTypes, Ledger
        <3>2. counts'[q] = counts[q] \/ counts'[q] = new
            BY <1>1, <2>1 DEF MeterTypes
        <3>3. meter'[q].seen = meter[q].seen \/ meter'[q].seen = 0
            BY <2>1 DEF Unread
        <3>4. QED BY <2>1, <2>2, <3>1, <3>2, <3>3
    <2>6. Cardinality(Counted') <= Used'
        <3>1. CASE d = dict
            <4>1. Used' = new /\ k <= meter[r].seen
                BY <1>1, <2>1, <2>2, <3>1 DEF Used, Ledger, MeterTypes
            <4>2. QED BY <2>1, <2>2, <4>1
        <3>2. CASE d # dict
            <4>1. r \in overlapped
                BY <2>1, <2>2, <3>2 DEF Ledger
            <4>2. Used' = Used
                BY <1>1, <2>1, <3>2 DEF Used, MeterTypes
            <4>3. QED BY <2>1, <4>1, <4>2 DEF Ledger
        <3>3. QED BY <3>1, <3>2
    <2>7. ASSUME NEW q \in Metering'
          PROVE  /\ step'[q] = "factory" => Counted' = {}
                 /\ step'[q] # "factory" => q \in overlapped' \/ meter'[q].dict = dict'
                 /\ step'[q] = "store" /\ meter'[q].dict = dict'
                        => Cardinality(Counted') <= meter'[q].seen
        BY <1>3, <2>1, <2>3 DEF Ledger
    <2>8. QED BY <2>4, <2>5, <2>6, <2>7 DEF Ledger
<1>8. QED BY <1>4, <1>5, <1>6, <1>7 DEF Meter

\* A step that counts nobody and lets no request in.
LEMMA QuotaShrinks ==
    ASSUME Quota, Ledger', Counted' \cup InFlight' \subseteq Counted \cup InFlight
    PROVE  Quota'
<1>1. /\ IsFiniteSet(Counted' \cup InFlight')
      /\ Cardinality(Counted' \cup InFlight') <= Cardinality(Counted \cup InFlight)
    BY QuotaSets, FS_Subset
<1>2. Cardinality(Counted' \cup InFlight') \in Nat
    BY <1>1, FS_CardinalityType
<1>3. Limit \in Nat /\ MaxInFlight \in Nat
    BY LimitsArePositive
<1> DEFINE now == Cardinality(Counted \cup InFlight)
           next == Cardinality(Counted' \cup InFlight')
<1>4. now <= Limit - 1 + MaxInFlight /\ now \in Nat /\ next \in Nat /\ next <= now
    BY <1>1, <1>2, QuotaSets DEF Quota
<1> HIDE DEF now, next
<1>5. next <= Limit - 1 + MaxInFlight
    BY <1>3, <1>4
<1>6. QED BY <1>5 DEF Quota, next

\* Every step of a request keeps the bound.
LEMMA StepQuota == Typed /\ Quota /\ [ApiNext]_vars => Quota'
<1>0. SUFFICES ASSUME Typed, Quota, [ApiNext]_vars PROVE Quota'
    OBVIOUS
<1>1. /\ step \in [Requests -> Steps]
      /\ status \in [Requests -> {"absent", "queued", "running", "completed", "paused", "failed"}]
      /\ \A r \in Requests : step[r] \in {"new", "lookup", "create"} => r \notin Created
    BY <1>0, NoneIsNeither DEF Typed, SubmissionTypeOK
<1>2. Limit \in Nat \ {0} /\ MaxInFlight \in Nat
    BY LimitsArePositive
<1>3. Created \subseteq Requests /\ Ledger
    BY <1>0 DEF Created, Quota
<1>4. CASE UNCHANGED vars
    <2>1. /\ UNCHANGED <<dict, counts, meter, overlapped, step>>
          /\ Metered' = Metered /\ Metering' = Metering /\ InFlight' = InFlight
        BY <1>4 DEF vars, api, usage, Metered, Metering, Created, InFlight
    <2>2. Ledger' /\ Counted' = Counted
        BY <1>3, <2>1, LedgerKept DEF Counted
    <2>3. QED BY <1>0, <2>1, <2>2, QuotaShrinks
<1>5. ASSUME NEW r \in Requests, CheckQuota(r) PROVE Quota'
    <2>1. /\ step[r] = "new" /\ Cardinality(InFlight) < MaxInFlight
          /\ UNCHANGED <<dict, counts, meter, overlapped, status>>
          /\ \/ Used >= Limit /\ step' = [step EXCEPT ![r] = "ended"]
             \/ /\ ~(Used >= Limit)
                /\ \/ step' = [step EXCEPT ![r] = "create"]
                   \/ step' = [step EXCEPT ![r] = "lookup"]
        BY <1>5 DEF CheckQuota, Goto, usage
    <2>2. r \notin Created /\ Created' = Created
        BY <1>1, <2>1 DEF Created
    <2>3. Metered' = Metered /\ Metering' = Metering
        BY <1>1, <1>3, <2>1, <2>2 DEF Metered, Metering
    <2>4. Ledger' /\ Counted' = Counted
        <3>1. \A q \in Metering : step'[q] = step[q]
            BY <1>1, <2>1 DEF Metering
        <3>2. QED BY <1>3, <2>1, <2>3, <3>1, LedgerKept DEF Counted
    <2>5. CASE step' = [step EXCEPT ![r] = "ended"]
        <3>1. InFlight' = InFlight
            BY <1>1, <2>1, <2>5 DEF InFlight
        <3>2. QED BY <1>0, <2>4, <3>1, QuotaShrinks
    <2>6. CASE ~(Used >= Limit) /\ InFlight' = InFlight \cup {r}
        <3> DEFINE m == Cardinality(Counted)
                   n == Cardinality(InFlight)
                   u == Cardinality(Counted \cup InFlight)
                   v == Cardinality((Counted \cup InFlight) \cup {r})
        <3>1. /\ m \in Nat /\ n \in Nat /\ u \in Nat
              /\ u = m + n - Cardinality(Counted \cap InFlight)
              /\ Cardinality(Counted \cap InFlight) \in Nat
            <4>1. IsFiniteSet(Counted \cap InFlight)
                BY QuotaSets, FS_Subset
            <4>2. Cardinality(Counted \cap InFlight) \in Nat
                BY <4>1, FS_CardinalityType
            <4>3. QED BY <4>2, QuotaSets, FS_Union
        <3>2. v \in {u, u + 1}
            BY QuotaSets, FS_AddElement
        <3>3. Counted' \cup InFlight' = (Counted \cup InFlight) \cup {r}
            BY <2>4, <2>6
        <3>4. m <= Used /\ Used \in Nat
            BY <1>0, <1>3, NoneIsNeither DEF Ledger, Used, Typed, SubmissionTypeOK
        <3> HIDE DEF m, n, u, v
        <3>5. m < Limit /\ n < MaxInFlight
            BY <1>2, <2>1, <2>6, <3>1, <3>4 DEF n
        <3>6. v <= Limit - 1 + MaxInFlight
            BY <1>2, <3>1, <3>2, <3>5
        <3>7. QED BY <2>4, <3>3, <3>6 DEF Quota, v
    <2>7. ~(Used >= Limit) => step' = [step EXCEPT ![r] = "ended"]
                              \/ InFlight' = InFlight \cup {r}
        BY <1>1, <2>1 DEF InFlight
    <2>8. QED BY <2>1, <2>5, <2>6, <2>7
<1>6. ASSUME NEW r \in Requests,
             \/ Lookup(r) \/ Reject(r) \/ Create(r)
             \/ CreateLifecycle(r) \/ Publish(r) \/ Register(r)
      PROVE  Quota'
    <2>1. /\ UNCHANGED <<dict, counts, meter, overlapped>>
          /\ step[r] \in {"lookup", "create", "lifecycle", "publish", "register"}
          /\ \E s \in {"create", "lifecycle", "publish", "register", "meter", "ended"} :
                step' = [step EXCEPT ![r] = s] /\ (s = "ended" => step[r] \in {"lookup", "create"})
          /\ \/ status' = status
             \/ status' = [status EXCEPT ![r] = "queued"] /\ step'[r] = "lifecycle"
        BY <1>1, <1>6
           DEF Lookup, Reject, Create, CreateLifecycle, Publish, Register, Goto, Answer, usage
    <2>2. Metered' = Metered /\ Metering' = Metering
        BY <1>1, <2>1 DEF Metered, Metering, Created
    <2>3. \A q \in Metering : step'[q] = step[q]
        BY <1>1, <2>1 DEF Metering
    <2>4. Ledger' /\ Counted' = Counted
        BY <1>3, <2>1, <2>2, <2>3, LedgerKept DEF Counted
    <2>5. InFlight' \subseteq InFlight
        BY <1>1, <2>1 DEF InFlight
    <2>6. QED BY <1>0, <2>4, <2>5, QuotaShrinks
<1>7. ASSUME NEW r \in Requests, Meter(r) PROVE Quota'
    <2>1. Ledger'
        BY <1>0, <1>3, <1>7, MeterLedger
    <2>2. CASE WriteCount(r)
        <3>1. Counted' \cup InFlight' \subseteq Counted \cup InFlight
            BY <1>0, <2>2, MeterEnds
        <3>2. QED BY <1>0, <2>1, <3>1, QuotaShrinks
    <2>3. CASE FindDict(r) \/ MakeDict(r) \/ ReadCount(r)
        <3>1. Counted' \cup InFlight' = Counted \cup InFlight
            BY <1>0, <2>3, MeterGoesOn
        <3>2. QED BY <1>0, <2>1, <3>1, QuotaShrinks
    <2>4. QED BY <1>7, <2>2, <2>3 DEF Meter
<1>8. QED
    BY <1>0, <1>4, <1>5, <1>6, <1>7 DEF ApiNext, Submit, Meter

\* At first there is no execution.
LEMMA InitQuota == Init => Quota
<1>1. SUFFICES ASSUME Init PROVE Quota
    OBVIOUS
<1>2. Metered = {} /\ Counted = {} /\ InFlight = {} /\ Metering = {}
    BY <1>1 DEF Init, Metered, Counted, Created, InFlight, Metering
<1>3. Cardinality({}) = 0 /\ {} \cup {} = {}
    BY FS_EmptySet
<1>4. Limit \in Nat \ {0} /\ MaxInFlight \in Nat
    BY LimitsArePositive
<1>5. 0 <= Limit - 1 + MaxInFlight
    BY <1>4
<1>6. /\ Used = 0
      /\ \A r \in Requests : counts[r] = 0 /\ meter[r].seen = 0
    BY <1>1 DEF Init, Used, Unread
<1>7. Ledger
    BY <1>2, <1>3, <1>6 DEF Ledger
<1>8. QED BY <1>2, <1>3, <1>5, <1>7 DEF Quota

\* The executions are among those that were metered or are in flight.
LEMMA OvershotIs == ASSUME Typed, Quota PROVE QuotaOvershootBounded
<1>1. Created \subseteq Metered \cup InFlight
    BY NoneIsNeither DEF Typed, SubmissionTypeOK, Metered, InFlight, Created
<1>2. Created \ overlapped \subseteq Counted \cup InFlight
    BY <1>1 DEF Counted
<1>3. /\ IsFiniteSet(Created \ overlapped)
      /\ Cardinality(Created \ overlapped) <= Cardinality(Counted \cup InFlight)
    BY <1>2, QuotaSets, FS_Subset
<1>4. Cardinality(Created \ overlapped) \in Nat
    BY <1>3, FS_CardinalityType
<1>5. Limit \in Nat /\ MaxInFlight \in Nat
    BY LimitsArePositive
<1> DEFINE c == Cardinality(Created \ overlapped)
           u == Cardinality(Counted \cup InFlight)
<1>6. c \in Nat /\ u \in Nat /\ c <= u /\ u <= Limit - 1 + MaxInFlight
    BY <1>3, <1>4, QuotaSets DEF Quota
<1> HIDE DEF c, u
<1>7. c <= Limit - 1 + MaxInFlight
    BY <1>5, <1>6
<1>8. Used <= Cardinality(Metered)
    BY QuotaSets DEF Typed, SubmissionTypeOK, Quota, Ledger, Used
<1>9. QED BY <1>7, <1>8 DEF Quota, Ledger, QuotaOvershootBounded, Metered, Counted, c

\* QuotaOvershootBounded holds in every reachable state: apart from executions
\* that were metered while another was, whose counts may be lost, a tenant never
\* has more than its limit and the requests that may be in flight at once.
THEOREM OvershootIsBounded == Spec => []QuotaOvershootBounded
BY InitQuota, OvershotIs, InitTyped, StepTyped, StepQuota, PTL DEF Spec
=============================================================================
