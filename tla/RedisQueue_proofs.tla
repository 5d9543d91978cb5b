-------------------------- MODULE RedisQueue_proofs --------------------------
(***************************************************************************)
(* Proofs about RedisQueue, for any tasks, workers, reapers and bounds: its  *)
(* types, that it loses no task, and, on time, that one worker at a time     *)
(* holds a task, that every claim is visible and that an outcome is final.   *)
(***************************************************************************)
EXTENDS RedisQueue, FiniteSetTheorems, SequenceTheorems, TLAPS

----------------------------------------------------------------------------
(* What the commands on the list do to the set of tasks it holds *)

\* RPUSH adds the pushed task to the set of tasks a list holds.
LEMMA RangeAppend ==
    ASSUME NEW q \in Seq(Tasks), NEW t \in Tasks
    PROVE  Append(q, t) \in Seq(Tasks) /\ Range(Append(q, t)) = Range(q) \cup {t}
<1>1. Append(q, t) \in Seq(Tasks)
    OBVIOUS
<1>2. ASSUME NEW x \in Range(q) \cup {t}
      PROVE  x \in Range(Append(q, t))
    <2>1. CASE x = t
        <3>1. Append(q, t)[Len(q) + 1] = t /\ Len(q) + 1 \in DOMAIN Append(q, t)
            OBVIOUS
        <3>2. QED BY <2>1, <3>1 DEF Range
    <2>2. CASE x \in Range(q)
        <3>1. PICK i \in DOMAIN q : q[i] = x
            BY <2>2 DEF Range
        <3>2. Append(q, t)[i] = x /\ i \in DOMAIN Append(q, t)
            BY <3>1
        <3>3. QED BY <3>2 DEF Range
    <2>3. QED BY <1>2, <2>1, <2>2
<1>3. Range(Append(q, t)) \subseteq Range(q) \cup {t}
    BY DEF Range
<1>4. QED BY <1>1, <1>2, <1>3

\* LPUSH of several tasks adds them all.
LEMMA RangeConcat ==
    ASSUME NEW p \in Seq(Tasks), NEW q \in Seq(Tasks)
    PROVE  p \o q \in Seq(Tasks) /\ Range(p \o q) = Range(p) \cup Range(q)
<1>1. p \o q \in Seq(Tasks)
    OBVIOUS
<1>2. ASSUME NEW x \in Range(p)
      PROVE  x \in Range(p \o q)
    <2>1. PICK i \in DOMAIN p : p[i] = x
        BY DEF Range
    <2>2. (p \o q)[i] = x /\ i \in DOMAIN (p \o q)
        BY <2>1
    <2>3. QED BY <2>2 DEF Range
<1>3. ASSUME NEW x \in Range(q)
      PROVE  x \in Range(p \o q)
    <2>1. PICK i \in DOMAIN q : q[i] = x
        BY DEF Range
    <2>2. (p \o q)[Len(p) + i] = x /\ Len(p) + i \in DOMAIN (p \o q)
        BY <2>1
    <2>3. QED BY <2>2 DEF Range
<1>4. Range(p \o q) \subseteq Range(p) \cup Range(q)
    <2>1. SUFFICES ASSUME NEW i \in DOMAIN (p \o q)
                   PROVE  (p \o q)[i] \in Range(p) \cup Range(q)
        BY DEF Range
    <2>2. CASE i <= Len(p)
        BY <2>2 DEF Range
    <2>3. CASE i > Len(p)
        <3>1. (p \o q)[i] = q[i - Len(p)] /\ i - Len(p) \in DOMAIN q
            BY <2>3
        <3>2. QED BY <3>1 DEF Range
    <2>4. QED BY <2>2, <2>3
<1>5. QED BY <1>1, <1>2, <1>3, <1>4

\* RPOPLPUSH takes away at most the task at the tail.
LEMMA RangeFront ==
    ASSUME NEW q \in Seq(Tasks), q # <<>>
    PROVE  /\ q[Len(q)] \in Tasks
           /\ SubSeq(q, 1, Len(q) - 1) \in Seq(Tasks)
           /\ Range(q) = Range(SubSeq(q, 1, Len(q) - 1)) \cup {q[Len(q)]}
<1> DEFINE front == SubSeq(q, 1, Len(q) - 1)
<1>1. Len(q) \in Nat \ {0} /\ q[Len(q)] \in Tasks
    OBVIOUS
<1>2. /\ front \in Seq(Tasks) /\ Len(front) = Len(q) - 1
      /\ \A i \in 1..Len(q) - 1 : front[i] = q[i]
    <2>1. \A i \in 1..Len(q) - 1 : q[i] \in Tasks
        BY <1>1
    <2>2. 1 \in Int /\ Len(q) - 1 \in Int
        BY <1>1
    <2>3. /\ front \in Seq(Tasks)
          /\ Len(front) = IF 1 <= Len(q) - 1 THEN Len(q) - 1 - 1 + 1 ELSE 0
          /\ \A i \in 1..(Len(q) - 1 - 1 + 1) : front[i] = q[1 + i - 1]
        BY <2>1, <2>2, SubSeqProperties
    <2>4. Len(q) - 1 - 1 + 1 = Len(q) - 1 /\ \A i \in 1..Len(q) - 1 : 1 + i - 1 = i
        BY <1>1
    <2>5. Len(front) = Len(q) - 1
        <3>1. CASE Len(q) = 1 BY <2>3, <3>1
        <3>2. CASE Len(q) # 1 BY <1>1, <2>3, <2>4, <3>2
        <3>3. QED BY <3>1, <3>2
    <2>6. QED BY <2>3, <2>4, <2>5
<1>3. \A i \in 1..Len(q) - 1 : front[i] = q[i]
    BY <1>2
<1>4. DOMAIN q = 1..Len(q) /\ DOMAIN front = 1..Len(q) - 1
    BY <1>1, <1>2
<1>5. ASSUME NEW x \in Range(q), x # q[Len(q)]
      PROVE  x \in Range(front)
    <2>1. PICK i \in 1..Len(q) : q[i] = x
        BY <1>4, <1>5 DEF Range
    <2>2. i \in 1..Len(q) - 1
        BY <1>1, <1>5, <2>1
    <2>3. QED BY <1>3, <1>4, <2>1, <2>2 DEF Range
<1>6. Range(front) \subseteq Range(q)
    <2>1. SUFFICES ASSUME NEW i \in 1..Len(q) - 1
                   PROVE  front[i] \in Range(q)
        BY <1>4 DEF Range
    <2>2. i \in 1..Len(q) /\ front[i] = q[i]
        BY <1>1, <1>3
    <2>3. QED BY <1>4, <2>2 DEF Range
<1>7. q[Len(q)] \in Range(q)
    BY <1>1, <1>4 DEF Range
<1>8. QED BY <1>1, <1>2, <1>5, <1>6, <1>7

\* A pipeline pushes exactly the members the scan returned.
LEMMA RangeOrderings ==
    ASSUME NEW S \in SUBSET Tasks, IsFiniteSet(S), NEW order \in Orderings(S)
    PROVE  order \in Seq(Tasks) /\ Range(order) = S
<1>1. order \in [1..Cardinality(S) -> S] /\ Range(order) = S
    BY DEF Orderings
<1>2. Cardinality(S) \in Nat
    BY FS_CardinalityType
<1>3. order \in Seq(S)
    BY <1>1, <1>2
<1>4. order \in Seq(Tasks)
    BY <1>3
<1>5. QED BY <1>1, <1>4

----------------------------------------------------------------------------
(* Types *)

\* The empty keys and idle processes are well typed.
LEMMA InitTypes == Init => TypeOK
<1> SUFFICES ASSUME Init PROVE TypeOK
    OBVIOUS
<1>1. StoreOK
    BY DEF Init, StoreOK
<1>2. /\ \A w \in Workers : pc[w] = "idle"
      /\ \A r \in Reapers : pc[r] = "rest"
      /\ pc \in [Actors -> {"idle", "rest"}]
    BY ActorsAreDistinct DEF Init, Actors, Home
<1>3. ControlOK
    BY <1>2 DEF Init, ControlOK, WorkerSteps, ReaperSteps, Holding
<1>4. QED BY <1>1, <1>3 DEF TypeOK

\* What the control state says of one process.
LEMMA InHand ==
    ASSUME ControlOK, NEW a \in Actors
    PROVE  /\ pc[a] \in Holding => hand[a] \in Tasks
           /\ a \in Workers \/ a \in Reapers
           /\ ~(a \in Workers /\ a \in Reapers)
BY ActorsAreDistinct DEF ControlOK, Actors

\* Only process a moves, and it is well formed after its move.
Moves(a) ==
    /\ pc' = [pc EXCEPT ![a] = pc'[a]]
    /\ hand' = [hand EXCEPT ![a] = hand'[a]]
    /\ seen' = [seen EXCEPT ![a] = seen'[a]]
    /\ a \in Workers => pc'[a] \in WorkerSteps
    /\ a \in Reapers => pc'[a] \in ReaperSteps
    /\ hand'[a] \in Tasks \cup {None}
    /\ pc'[a] \in Holding <=> hand'[a] # None
    /\ seen'[a] \in SUBSET Tasks

\* A move of one process keeps the control part of the type invariant.
LEMMA ControlStep ==
    ASSUME ControlOK, NEW a \in Actors, Moves(a)
    PROVE  ControlOK'
<1>1. pc'[a] \in WorkerSteps \cup ReaperSteps
    BY DEF Actors, Moves
<1>2. pc' \in [Actors -> WorkerSteps \cup ReaperSteps]
    BY <1>1 DEF ControlOK, Moves
<1>3. \A w \in Workers : pc'[w] \in WorkerSteps
    BY DEF ControlOK, Actors, Moves
<1>4. \A r \in Reapers : pc'[r] \in ReaperSteps
    BY DEF ControlOK, Actors, Moves
<1>5. hand' \in [Actors -> Tasks \cup {None}] /\ seen' \in [Actors -> SUBSET Tasks]
    BY DEF ControlOK, Moves
<1>6. \A b \in Actors : pc'[b] \in Holding <=> hand'[b] # None
    BY DEF ControlOK, Moves
<1>7. QED BY <1>2, <1>3, <1>4, <1>5, <1>6 DEF ControlOK

\* One more use of a bound.
LEMMA UseTypes ==
    ASSUME used \in [crashes : Nat, errors : Nat, slow : Nat, requeues : Nat],
           NEW what \in {"crashes", "errors", "slow", "requeues"}, Use(what)
    PROVE  used' \in [crashes : Nat, errors : Nat, slow : Nat, requeues : Nat]
<1>1. CASE what = "crashes" BY <1>1 DEF Use
<1>2. CASE what = "errors" BY <1>2 DEF Use
<1>3. CASE what = "slow" BY <1>3 DEF Use
<1>4. CASE what = "requeues" BY <1>4 DEF Use
<1>5. QED BY <1>1, <1>2, <1>3, <1>4

\* Every step keeps the type invariant.
LEMMA StepTypes == TypeOK /\ [Next]_vars => TypeOK'
<1> SUFFICES ASSUME StoreOK, ControlOK, [Next]_vars PROVE StoreOK' /\ ControlOK'
    BY DEF TypeOK
<1> USE DEF redis, history
<1>1. ASSUME NEW t \in Tasks, Publish(t) PROVE StoreOK' /\ ControlOK'
    BY <1>1, RangeAppend DEF Publish, StoreOK, ControlOK
<1>2. ASSUME NEW t \in Tasks, Clock(t) PROVE StoreOK' /\ ControlOK'
    <2>1. CASE DelayElapses(t)
        BY <2>1 DEF DelayElapses, StoreOK, ControlOK
    <2>2. CASE DeadlinePasses(t)
        BY <2>2, UseTypes DEF DeadlinePasses, StoreOK, ControlOK
    <2>3. QED BY <1>2, <2>1, <2>2 DEF Clock
<1>3. ASSUME NEW w \in Workers, WorkerNext(w) \/ PopFallback(w)
      PROVE  StoreOK' /\ ControlOK'
    <2> w \in Actors /\ w \notin Reapers
        BY ActorsAreDistinct DEF Actors
    <2> USE DEF WorkerSteps, Holding
    <2>0. pc[w] \in Holding => hand[w] \in Tasks
        BY InHand
    <2>1. CASE Scan(w)
        <3>1. StoreOK'
            BY <2>1 DEF Scan, StoreOK
        <3>2. Moves(w)
            BY <2>1 DEF Scan, Goto, Moves, ControlOK
        <3>3. QED BY <3>1, <3>2, ControlStep
    <2>2. CASE Promote(w)
        <3>1. PICK order \in Orderings(seen[w]) : queue' = order \o queue
            BY <2>2 DEF Promote
        <3>2. seen[w] \in SUBSET Tasks /\ IsFiniteSet(seen[w])
            BY FS_Subset, TasksAreFinite DEF ControlOK
        <3>3. queue' \in Seq(Tasks)
            BY <3>1, <3>2, RangeOrderings, RangeConcat DEF StoreOK
        <3>4. StoreOK'
            BY <2>2, <3>3 DEF Promote, StoreOK
        <3>5. Moves(w)
            BY <2>2 DEF Promote, Goto, Moves, ControlOK
        <3>6. QED BY <3>4, <3>5, ControlStep
    <2>3. CASE Pop(w) /\ queue = <<>>
        <3>1. StoreOK'
            BY <2>3 DEF Pop, StoreOK
        <3>2. Moves(w)
            BY <2>3 DEF Pop, Goto, Moves, ControlOK
        <3>3. QED BY <3>1, <3>2, ControlStep
    <2>4. CASE (Pop(w) \/ PopFallback(w)) /\ queue # <<>>
        <3>1. /\ queue[Len(queue)] \in Tasks
              /\ SubSeq(queue, 1, Len(queue) - 1) \in Seq(Tasks)
            BY <2>4, RangeFront DEF StoreOK
        <3>2. StoreOK'
            <4>1. CASE Pop(w)
                <5>1. PICK t \in Tasks :
                        processing' = [processing EXCEPT ![t] = processing[t] + 1]
                    BY <2>4, <3>1, <4>1 DEF Pop
                <5>2. processing' \in [Tasks -> Nat]
                    BY <5>1 DEF StoreOK
                <5>3. queue' \in Seq(Tasks)
                    BY <2>4, <3>1, <4>1 DEF Pop
                <5>4. QED BY <4>1, <5>2, <5>3 DEF Pop, StoreOK
            <4>2. CASE PopFallback(w)
                BY <3>1, <4>2, UseTypes DEF PopFallback, StoreOK
            <4>3. QED BY <2>4, <4>1, <4>2
        <3>3. Moves(w)
            BY <2>4, <3>1, NoneIsNoTask DEF Pop, PopFallback, Goto, Moves, ControlOK
        <3>4. QED BY <3>2, <3>3, ControlStep
    <2>5. CASE Store(w) \/ Stamp(w)
        <3>1. hand[w] \in Tasks
            BY <2>0, <2>5 DEF Store, Stamp
        <3>2. StoreOK'
            <4>1. CASE Store(w)
                <5>1. processing[hand[w]] + 1 \in Nat
                    BY <3>1 DEF StoreOK
                <5>2. QED BY <3>1, <4>1, <5>1 DEF Store, StoreOK
            <4>2. CASE Stamp(w)
                BY <3>1, <4>2 DEF Stamp, StoreOK
            <4>3. QED BY <2>5, <4>1, <4>2
        <3>3. Moves(w)
            BY <2>5, <3>1, NoneIsNoTask
               DEF Store, Stamp, Goto, Drop, Moves, ControlOK
        <3>4. QED BY <3>2, <3>3, ControlStep
    <2>6. CASE Succeed(w) \/ Raise(w) \/ PassBack(w)
        <3>1. hand[w] \in Tasks
            BY <2>0, <2>6 DEF Succeed, Raise, PassBack
        <3>2. StoreOK'
            <4>1. CASE Succeed(w)
                BY <3>1, <4>1 DEF Succeed, StoreOK
            <4>2. CASE Raise(w)
                <5>1. fails[hand[w]] + 1 \in Nat
                    BY <3>1 DEF StoreOK
                <5>2. used' \in [crashes : Nat, errors : Nat, slow : Nat, requeues : Nat]
                    BY <4>2, UseTypes DEF Raise, StoreOK
                <5>3. QED BY <3>1, <4>2, <5>1, <5>2 DEF Raise, StoreOK
            <4>3. CASE PassBack(w)
                BY <3>1, <4>3, UseTypes DEF PassBack, StoreOK
            <4>4. QED BY <2>6, <4>1, <4>2, <4>3
        <3>3. Moves(w)
            BY <2>6, <3>1, NoneIsNoTask
               DEF Succeed, Raise, PassBack, Goto, Drop, Moves, ControlOK
        <3>4. QED BY <3>2, <3>3, ControlStep
    <2>7. CASE AckRemove(w) \/ RequeueRemove(w) \/ BuryRemove(w)
        <3>1. hand[w] \in Tasks
            BY <2>0, <2>7 DEF AckRemove, RequeueRemove, BuryRemove
        <3>2. StoreOK'
            <4>1. CASE AckRemove(w)
                BY <3>1, <4>1 DEF AckRemove, Unlisted, StoreOK
            <4>2. CASE RequeueRemove(w)
                BY <3>1, <4>2 DEF RequeueRemove, Unlisted, StoreOK
            <4>3. CASE BuryRemove(w)
                BY <3>1, <4>3 DEF BuryRemove, Unlisted, StoreOK
            <4>4. QED BY <2>7, <4>1, <4>2, <4>3
        <3>3. Moves(w)
            BY <2>7, <3>1, NoneIsNoTask
               DEF AckRemove, RequeueRemove, BuryRemove, Goto, Drop, Moves, ControlOK
        <3>4. QED BY <3>2, <3>3, ControlStep
    <2>8. CASE AckForget(w) \/ RequeueDelay(w) \/ BuryPush(w)
        <3>1. hand[w] \in Tasks
            BY <2>0, <2>8 DEF AckForget, RequeueDelay, BuryPush
        <3>2. StoreOK'
            <4>1. CASE AckForget(w)
                BY <3>1, <4>1 DEF AckForget, StoreOK
            <4>2. CASE RequeueDelay(w)
                BY <3>1, <4>2 DEF RequeueDelay, StoreOK
            <4>3. CASE BuryPush(w)
                BY <3>1, <4>3 DEF BuryPush, StoreOK
            <4>4. QED BY <2>8, <4>1, <4>2, <4>3
        <3>3. Moves(w)
            BY <2>8, <3>1, NoneIsNoTask
               DEF AckForget, RequeueDelay, BuryPush, Goto, Drop, Moves, ControlOK
        <3>4. QED BY <3>2, <3>3, ControlStep
    <2>9. QED BY <1>3, <2>1, <2>2, <2>3, <2>4, <2>5, <2>6, <2>7, <2>8
              DEF WorkerNext, PopFallback
<1>4. ASSUME NEW r \in Reapers, ReaperNext(r)
      PROVE  StoreOK' /\ ControlOK'
    <2> r \in Actors /\ r \notin Workers
        BY ActorsAreDistinct DEF Actors
    <2> USE DEF ReaperSteps, Holding
    <2>0. pc[r] \in Holding => hand[r] \in Tasks
        BY InHand
    <2>1. CASE Survey(r)
        <3>1. StoreOK'
            BY <2>1 DEF Survey, StoreOK
        <3>2. Moves(r)
            BY <2>1 DEF Survey, Goto, Moves, ControlOK
        <3>3. QED BY <3>1, <3>2, ControlStep
    <2>2. CASE Sweep(r)
        <3>1. StoreOK'
            BY <2>2 DEF Sweep, StoreOK
        <3>2. Moves(r)
            BY <2>2, NoneIsNoTask DEF Sweep, Onward, Goto, Moves, ControlOK
        <3>3. QED BY <3>1, <3>2, ControlStep
    <2>3. CASE ReapRemove(r) \/ ReapForget(r)
        <3>1. hand[r] \in Tasks
            BY <2>0, <2>3 DEF ReapRemove, ReapForget
        <3>2. StoreOK'
            <4>1. CASE ReapRemove(r)
                BY <3>1, <4>1 DEF ReapRemove, Unlisted, StoreOK
            <4>2. CASE ReapForget(r)
                BY <3>1, <4>2 DEF ReapForget, StoreOK
            <4>3. QED BY <2>3, <4>1, <4>2
        <3>3. Moves(r)
            BY <2>3, <3>1, NoneIsNoTask
               DEF ReapRemove, ReapForget, Goto, Moves, ControlOK
        <3>4. QED BY <3>2, <3>3, ControlStep
    <2>4. CASE ReapPush(r)
        <3>1. <<hand[r]>> \in Seq(Tasks)
            BY <2>0, <2>4 DEF ReapPush
        <3>2. queue' \in Seq(Tasks)
            BY <2>4, <3>1, RangeConcat DEF ReapPush, StoreOK
        <3>3. StoreOK'
            BY <2>4, <3>2 DEF ReapPush, StoreOK
        <3>4. Moves(r)
            BY <2>4 DEF ReapPush, Onward, Goto, Drop, Moves, ControlOK
        <3>5. QED BY <3>3, <3>4, ControlStep
    <2>5. QED BY <1>4, <2>1, <2>2, <2>3, <2>4 DEF ReaperNext
<1>5. ASSUME NEW a \in Actors, CommandRaises(a) PROVE StoreOK' /\ ControlOK'
    <2>1. StoreOK'
        BY <1>5, UseTypes DEF CommandRaises, StoreOK
    <2>2. CASE a \in Workers
        <3>1. a \notin Reapers /\ Home(a) = "idle"
            BY <2>2, ActorsAreDistinct DEF Home
        <3>2. pc[a] \in WorkerSteps /\ pc[a] \in DOMAIN ErrorExit
            BY <1>5, <2>2 DEF CommandRaises, ControlOK
        <3>3. CASE ErrorExit[pc[a]] = "idle"
            <4>1. Moves(a)
                BY <1>5, <3>1, <3>3
                   DEF CommandRaises, Goto, Drop, Moves, ControlOK, WorkerSteps, Holding
            <4>2. QED BY <2>1, <4>1, ControlStep
        <3>4. CASE ErrorExit[pc[a]] # "idle"
            <4>1. /\ ErrorExit[pc[a]] \in WorkerSteps
                  /\ ErrorExit[pc[a]] \in Holding /\ pc[a] \in Holding
                BY <3>2, <3>4 DEF ErrorExit, WorkerSteps, Holding
            <4>2. Goto(a, ErrorExit[pc[a]]) /\ UNCHANGED <<hand, seen>>
                BY <1>5, <3>1, <3>4 DEF CommandRaises
            <4>3. Moves(a)
                BY <3>1, <4>1, <4>2 DEF Goto, Moves, ControlOK
            <4>4. QED BY <2>1, <4>3, ControlStep
        <3>5. QED BY <3>3, <3>4
    <2>3. CASE a \in Reapers
        <3>1. a \notin Workers /\ Home(a) = "rest"
            BY <2>3, ActorsAreDistinct DEF Home
        <3>2. pc[a] \in ReaperSteps /\ pc[a] \in DOMAIN ErrorExit
            BY <1>5, <2>3 DEF CommandRaises, ControlOK
        <3>3. ErrorExit[pc[a]] = "rest"
            BY <3>2 DEF ErrorExit, ReaperSteps
        <3>4. Drop(a) /\ UNCHANGED seen /\ Onward(a)
            BY <1>5, <2>3, <3>1, <3>3 DEF CommandRaises
        <3>5. Moves(a)
            BY <3>1, <3>4 DEF Onward, Goto, Drop, Moves, ControlOK, ReaperSteps, Holding
        <3>6. QED BY <2>1, <3>5, ControlStep
    <2>4. QED BY <2>1, <2>2, <2>3, InHand
<1>6. ASSUME NEW a \in Actors, Crash(a) PROVE StoreOK' /\ ControlOK'
    <2>1. StoreOK'
        BY <1>6, UseTypes DEF Crash, StoreOK
    <2>2. /\ a \in Workers => Home(a) \in WorkerSteps
          /\ a \in Reapers => Home(a) \in ReaperSteps
          /\ Home(a) \notin Holding
        BY ActorsAreDistinct DEF Home, WorkerSteps, ReaperSteps, Holding
    <2>3. Moves(a)
        BY <1>6, <2>2 DEF Crash, Goto, Drop, Moves, ControlOK
    <2>4. QED BY <2>1, <2>3, ControlStep
<1>7. CASE UNCHANGED vars
    BY <1>7 DEF vars, StoreOK, ControlOK
<1>8. QED
    BY <1>1, <1>2, <1>3, <1>4, <1>5, <1>6, <1>7 DEF Next

\* TypeOK holds in every reachable state: lists of tasks, counts, and a task in
\* the hand of every process that is past its claim.
THEOREM TypeCorrect == Spec => []TypeOK
<1>1. TypeOK /\ [Next]_vars => TypeOK'
    BY StepTypes
<1>2. QED BY InitTypes, <1>1, PTL DEF Spec

----------------------------------------------------------------------------
(* Conservation *)

\* Where a task may be.
Kept(t) == t \in finished \cup buried \/ Stored(t) \/ Carried(t)

\* No step takes a task out of the histories of its outcome.
LEMMA OutcomesStay == [Next]_vars => finished \subseteq finished' /\ buried \subseteq buried'
BY DEF Next, WorkerNext, ReaperNext, Clock, Publish, DelayElapses, DeadlinePasses, Scan,
       Promote, Pop, PopFallback, Store, Stamp, Succeed, Raise, PassBack, AckRemove,
       AckForget, RequeueRemove, RequeueDelay, BuryRemove, BuryPush, Survey, Sweep,
       ReapRemove, ReapForget, ReapPush, CommandRaises, Crash, vars, history

\* What another process carries stays carried, and what process a itself carries
\* stays so when it moves from one carrying step to another.
LEMMA CarriedStays ==
    ASSUME ControlOK, NEW a \in Actors, NEW t, Carried(t),
           pc' = [pc EXCEPT ![a] = pc'[a]], hand' = [hand EXCEPT ![a] = hand'[a]],
           pc[a] \in Carrying => pc'[a] \in Carrying /\ hand'[a] = hand[a]
    PROVE  Carried(t)'
<1>1. PICK b \in Actors : hand[b] = t /\ pc[b] \in Carrying
    BY DEF Carried
<1>2. hand'[b] = t /\ pc'[b] \in Carrying
    BY <1>1 DEF ControlOK
<1>3. QED BY <1>1, <1>2 DEF Carried

\* A process that reaches the step "step" with task t in hand carries it.
LEMMA CarriedNow ==
    ASSUME NEW a \in Actors, NEW t, hand'[a] = t, pc'[a] \in Carrying
    PROVE  Carried(t)'
BY DEF Carried

\* The strengthening that makes Conserved inductive: LREM for an ack takes away
\* the last copy of a task only because that task is finished.
AcksFinished == \A w \in Workers : pc[w] = "ack" => hand[w] \in finished

\* Every step keeps AcksFinished: a worker reaches its ack only through Succeed.
LEMMA AcksFinishedStep == ControlOK /\ AcksFinished /\ [Next]_vars => AcksFinished'
<1> SUFFICES ASSUME ControlOK, AcksFinished, [Next]_vars,
                    NEW w \in Workers, pc'[w] = "ack"
             PROVE  hand'[w] \in finished'
    BY DEF AcksFinished
<1> w \in Actors /\ w \notin Reapers
    BY ActorsAreDistinct DEF Actors
<1>1. CASE pc[w] = "ack" /\ UNCHANGED hand
    BY <1>1, OutcomesStay DEF AcksFinished
<1>2. ASSUME NEW v \in Workers, WorkerNext(v) \/ PopFallback(v)
      PROVE  hand'[w] \in finished'
    <2>1. CASE v # w
        <3>1. pc[w] = "ack" /\ hand'[w] = hand[w]
            BY <1>2, <2>1 DEF WorkerNext, Scan, Promote, Pop, PopFallback, Store, Stamp,
                Succeed, Raise, PassBack, AckRemove, AckForget, RequeueRemove, RequeueDelay,
                BuryRemove, BuryPush, Goto, Drop, ControlOK
        <3>2. QED BY <3>1, OutcomesStay DEF AcksFinished
    <2>2. CASE v = w /\ Succeed(w)
        BY <2>2 DEF Succeed
    <2>3. CASE v = w /\ ~Succeed(w)
        BY <1>2, <2>3 DEF WorkerNext, Scan, Promote, Pop, PopFallback, Store, Stamp,
                Raise, PassBack, AckRemove, AckForget, RequeueRemove, RequeueDelay,
                BuryRemove, BuryPush, Goto, Drop, ControlOK
    <2>4. QED BY <2>1, <2>2, <2>3
<1>3. ASSUME NEW a \in Actors, (ReaperNext(a) /\ a \in Reapers) \/ CommandRaises(a) \/ Crash(a)
      PROVE  hand'[w] \in finished'
    <2>1. CASE a # w
        <3>1. pc[w] = "ack" /\ hand'[w] = hand[w]
            BY <1>3, <2>1 DEF ReaperNext, Survey, Sweep, ReapRemove, ReapForget, ReapPush,
                CommandRaises, Crash, Onward, Goto, Drop, ControlOK
        <3>2. QED BY <3>1, OutcomesStay DEF AcksFinished
    <2>2. CASE a = w
        <3>1. CommandRaises(w) \/ Crash(w)
            BY <1>3, <2>2
        <3>2. CASE Crash(w)
            BY <3>2 DEF Crash, Goto, Home, ControlOK
        <3>3. CASE CommandRaises(w)
            <4>1. pc[w] \in DOMAIN ErrorExit /\ pc'[w] \in {"idle", ErrorExit[pc[w]]}
                BY <3>3 DEF CommandRaises, Goto, Home, ControlOK
            <4>2. ErrorExit[pc[w]] # "ack"
                BY <4>1 DEF ErrorExit
            <4>3. QED BY <4>1, <4>2
        <3>4. QED BY <3>1, <3>2, <3>3
    <2>3. QED BY <2>1, <2>2
<1>4. CASE UNCHANGED vars \/ \E t \in Tasks : Publish(t) \/ Clock(t)
    BY <1>1, <1>4 DEF vars, Publish, Clock, DelayElapses, DeadlinePasses
<1>5. QED
    BY <1>2, <1>3, <1>4 DEF Next, Actors

\* Every step of a system whose deaths and errors spare the carrying steps keeps
\* the tasks it had.
LEMMA KeptStep ==
    ASSUME StoreOK, ControlOK, AcksFinished, [Next]_vars, (CrashAt \cup FailAt) \cap Carrying = {},
           NEW t \in Tasks, Kept(t)
    PROVE  Kept(t)'
<1> SUFFICES ASSUME t \notin finished' \cup buried' PROVE Stored(t)' \/ Carried(t)'
    BY DEF Kept
<1>0. Stored(t) \/ Carried(t)
    BY OutcomesStay DEF Kept
<1> USE DEF redis, history
<1>1. ASSUME NEW u \in Tasks, Publish(u) PROVE Stored(t)' \/ Carried(t)'
    <2>1. Range(queue') = Range(queue) \cup {u}
        BY <1>1, RangeAppend DEF Publish, StoreOK
    <2>2. UNCHANGED <<delayed, processing, pc, hand>>
        BY <1>1 DEF Publish
    <2>3. QED BY <1>0, <2>1, <2>2 DEF Stored, Carried
<1>2. ASSUME NEW u \in Tasks, Clock(u) PROVE Stored(t)' \/ Carried(t)'
    <2>1. UNCHANGED <<queue, processing, pc, hand>>
        BY <1>2 DEF Clock, DelayElapses, DeadlinePasses
    <2>2. delayed[t] # "absent" => delayed'[t] # "absent"
        BY <1>2 DEF Clock, DelayElapses, DeadlinePasses, StoreOK
    <2>3. QED BY <1>0, <2>1, <2>2 DEF Stored, Carried
<1>3. ASSUME NEW w \in Workers, WorkerNext(w) \/ PopFallback(w)
      PROVE  Stored(t)' \/ Carried(t)'
    <2> w \in Actors
        BY DEF Actors
    <2> USE DEF Carrying
    <2>0. pc[w] \in Holding => hand[w] \in Tasks
        BY InHand
    <2>1. CASE Scan(w) \/ Stamp(w) \/ Succeed(w) \/ Raise(w) \/ PassBack(w) \/ AckForget(w)
        <3>1. UNCHANGED <<queue, delayed, processing>>
            BY <2>1 DEF Scan, Stamp, Succeed, Raise, PassBack, AckForget
        <3>2. /\ pc' = [pc EXCEPT ![w] = pc'[w]] /\ hand' = [hand EXCEPT ![w] = hand'[w]]
              /\ pc[w] \notin Carrying
            BY <2>1 DEF Scan, Stamp, Succeed, Raise, PassBack, AckForget, Goto, Drop, ControlOK
        <3>3. QED BY <1>0, <3>1, <3>2, CarriedStays DEF Stored
    <2>2. CASE Promote(w)
        <3>1. PICK order \in Orderings(seen[w]) : queue' = order \o queue
            BY <2>2 DEF Promote
        <3>2. seen[w] \in SUBSET Tasks /\ IsFiniteSet(seen[w])
            BY FS_Subset, TasksAreFinite DEF ControlOK
        <3>3. Range(queue') = seen[w] \cup Range(queue)
            <4>1. order \in Seq(Tasks) /\ Range(order) = seen[w]
                BY <3>1, <3>2, RangeOrderings
            <4>2. QED BY <3>1, <4>1, RangeConcat DEF StoreOK
        <3>4. Stored(t) => Stored(t)'
            BY <2>2, <3>3 DEF Promote, Stored, StoreOK
        <3>5. /\ pc' = [pc EXCEPT ![w] = pc'[w]] /\ hand' = [hand EXCEPT ![w] = hand'[w]]
              /\ pc[w] \notin Carrying
            BY <2>2 DEF Promote, Goto, ControlOK
        <3>6. QED BY <1>0, <3>4, <3>5, CarriedStays
    <2>3. CASE Pop(w) /\ queue = <<>>
        <3>1. UNCHANGED <<queue, delayed, processing>>
            BY <2>3 DEF Pop
        <3>2. /\ pc' = [pc EXCEPT ![w] = pc'[w]] /\ hand' = [hand EXCEPT ![w] = hand'[w]]
              /\ pc[w] \notin Carrying
            BY <2>3 DEF Pop, Goto, ControlOK
        <3>3. QED BY <1>0, <3>1, <3>2, CarriedStays DEF Stored
    <2>4. CASE (Pop(w) \/ PopFallback(w)) /\ queue # <<>>
        <3> DEFINE u == queue[Len(queue)]
        <3>1. u \in Tasks /\ Range(queue) = Range(queue') \cup {u}
            BY <2>4, RangeFront DEF Pop, PopFallback, StoreOK
        <3>2. /\ pc' = [pc EXCEPT ![w] = pc'[w]] /\ hand' = [hand EXCEPT ![w] = hand'[w]]
              /\ hand'[w] = u /\ pc[w] \notin Carrying
            BY <2>4 DEF Pop, PopFallback, Goto, ControlOK
        <3>3. CASE Carried(t)
            BY <3>2, <3>3, CarriedStays
        <3>4. CASE Stored(t) /\ t # u
            <4>1. processing'[t] = processing[t] /\ delayed'[t] = delayed[t]
                BY <2>4, <3>1, <3>4 DEF Pop, PopFallback, StoreOK
            <4>2. QED BY <3>1, <3>4, <4>1 DEF Stored
        <3>5. CASE t = u /\ Pop(w)
            <4>1. processing'[t] = processing[t] + 1 /\ processing[t] \in Nat
                BY <2>4, <3>5 DEF Pop, StoreOK
            <4>2. QED BY <4>1 DEF Stored
        <3>6. CASE t = u /\ PopFallback(w)
            <4>1. pc'[w] = "store"
                BY <3>6 DEF PopFallback, Goto, ControlOK
            <4>2. QED BY <3>2, <3>6, <4>1, CarriedNow
        <3>7. QED BY <1>0, <2>4, <3>3, <3>4, <3>5, <3>6
    <2>5. CASE Store(w)
        <3>1. hand[w] \in Tasks /\ processing[hand[w]] \in Nat
            BY <2>0, <2>5 DEF Store, Holding, StoreOK
        <3>2. Stored(t) \/ t = hand[w] => Stored(t)'
            BY <2>5, <3>1 DEF Store, Stored, StoreOK
        <3>3. CASE Carried(t) /\ t # hand[w]
            BY <2>5, <3>3 DEF Store, Goto, Carried, ControlOK
        <3>4. QED BY <1>0, <3>2, <3>3
    <2>6. CASE AckRemove(w)
        <3>1. t # hand[w] => (Stored(t) => Stored(t)')
            BY <2>6 DEF AckRemove, Unlisted, Stored, StoreOK
        <3>2. /\ pc' = [pc EXCEPT ![w] = pc'[w]] /\ hand' = [hand EXCEPT ![w] = hand'[w]]
              /\ pc[w] \notin Carrying
            BY <2>6 DEF AckRemove, Goto, ControlOK
        <3>3. CASE t # hand[w]
            BY <1>0, <3>1, <3>2, <3>3, CarriedStays
        <3>4. CASE t = hand[w]
            BY <2>6, <3>4, OutcomesStay DEF AckRemove, AcksFinished
        <3>5. QED BY <3>3, <3>4
    <2>7. CASE RequeueRemove(w) \/ BuryRemove(w)
        <3>1. t # hand[w] => (Stored(t) => Stored(t)')
            BY <2>7 DEF RequeueRemove, BuryRemove, Unlisted, Stored, StoreOK
        <3>2. /\ pc' = [pc EXCEPT ![w] = pc'[w]] /\ hand' = [hand EXCEPT ![w] = hand'[w]]
              /\ pc[w] \notin Carrying
              /\ pc'[w] \in Carrying /\ hand'[w] = hand[w]
            BY <2>7 DEF RequeueRemove, BuryRemove, Goto, ControlOK
        <3>3. CASE t # hand[w]
            BY <1>0, <3>1, <3>2, <3>3, CarriedStays
        <3>4. CASE t = hand[w]
            BY <3>2, <3>4, CarriedNow
        <3>5. QED BY <3>3, <3>4
    <2>8. CASE RequeueDelay(w)
        <3>1. Stored(t) \/ t = hand[w] => Stored(t)'
            BY <2>8 DEF RequeueDelay, Stored, StoreOK
        <3>2. CASE Carried(t) /\ t # hand[w]
            BY <2>8, <3>2 DEF RequeueDelay, Goto, Drop, Carried, ControlOK
        <3>3. QED BY <1>0, <3>1, <3>2
    <2>9. CASE BuryPush(w)
        <3>1. t # hand[w]
            BY <2>9 DEF BuryPush
        <3>2. Stored(t) => Stored(t)'
            BY <2>9 DEF BuryPush, Stored
        <3>3. Carried(t) => Carried(t)'
            BY <2>9, <3>1 DEF BuryPush, Goto, Drop, Carried, ControlOK
        <3>4. QED BY <1>0, <3>2, <3>3
    <2>10. QED BY <1>3, <2>1, <2>2, <2>3, <2>4, <2>5, <2>6, <2>7, <2>8, <2>9
               DEF WorkerNext, PopFallback
<1>4. ASSUME NEW r \in Reapers, ReaperNext(r)
      PROVE  Stored(t)' \/ Carried(t)'
    <2> r \in Actors
        BY DEF Actors
    <2> USE DEF Carrying
    <2>0. pc[r] \in Holding => hand[r] \in Tasks
        BY InHand
    <2>1. CASE Survey(r) \/ Sweep(r)
        <3>1. UNCHANGED <<queue, delayed, processing>>
            BY <2>1 DEF Survey, Sweep
        <3>2. pc[r] \notin Carrying
            BY <2>1 DEF Survey, Sweep
        <3>3. pc' = [pc EXCEPT ![r] = pc'[r]] /\ hand' = [hand EXCEPT ![r] = hand'[r]]
            BY <2>1 DEF Survey, Sweep, Onward, Goto, ControlOK
        <3>4. QED BY <1>0, <3>1, <3>2, <3>3, CarriedStays DEF Stored
    <2>2. CASE ReapRemove(r)
        <3>1. t # hand[r] => (Stored(t) => Stored(t)')
            BY <2>2 DEF ReapRemove, Unlisted, Stored, StoreOK
        <3>2. /\ pc' = [pc EXCEPT ![r] = pc'[r]] /\ hand' = [hand EXCEPT ![r] = hand'[r]]
              /\ pc[r] \notin Carrying
              /\ pc'[r] \in Carrying /\ hand'[r] = hand[r]
            BY <2>2 DEF ReapRemove, Goto, ControlOK
        <3>3. CASE t # hand[r]
            BY <1>0, <3>1, <3>2, <3>3, CarriedStays
        <3>4. CASE t = hand[r]
            BY <3>2, <3>4, CarriedNow
        <3>5. QED BY <3>3, <3>4
    <2>3. CASE ReapForget(r)
        <3>1. UNCHANGED <<queue, delayed, processing>>
            BY <2>3 DEF ReapForget
        <3>2. /\ pc' = [pc EXCEPT ![r] = pc'[r]] /\ hand' = [hand EXCEPT ![r] = hand'[r]]
              /\ pc'[r] \in Carrying /\ hand'[r] = hand[r]
            BY <2>3 DEF ReapForget, Goto, ControlOK
        <3>3. QED BY <1>0, <3>1, <3>2, CarriedStays DEF Stored
    <2>4. CASE ReapPush(r)
        <3>1. hand[r] \in Tasks /\ <<hand[r]>> \in Seq(Tasks) /\ Range(<<hand[r]>>) = {hand[r]}
            BY <2>0, <2>4 DEF ReapPush, Holding, Range
        <3>2. Range(queue') = {hand[r]} \cup Range(queue)
            BY <2>4, <3>1, RangeConcat DEF ReapPush, StoreOK
        <3>3. Stored(t) \/ t = hand[r] => Stored(t)'
            BY <2>4, <3>2 DEF ReapPush, Stored
        <3>4. CASE Carried(t) /\ t # hand[r]
            BY <2>4, <3>4 DEF ReapPush, Onward, Goto, Drop, Carried, ControlOK
        <3>5. QED BY <1>0, <3>3, <3>4
    <2>5. QED BY <1>4, <2>1, <2>2, <2>3, <2>4 DEF ReaperNext
<1>5. ASSUME NEW a \in Actors, CommandRaises(a) \/ Crash(a)
      PROVE  Stored(t)' \/ Carried(t)'
    <2>1. UNCHANGED <<queue, delayed, processing>>
        BY <1>5 DEF CommandRaises, Crash
    <2>2. pc[a] \notin Carrying
        BY <1>5 DEF CommandRaises, Crash
    <2>3. pc' = [pc EXCEPT ![a] = pc'[a]] /\ hand' = [hand EXCEPT ![a] = hand'[a]]
        BY <1>5 DEF CommandRaises, Crash, Onward, Goto, Drop, ControlOK
    <2>4. QED BY <1>0, <2>1, <2>2, <2>3, CarriedStays DEF Stored
<1>6. CASE UNCHANGED vars
    BY <1>0, <1>6 DEF vars, Stored, Carried
<1>7. QED
    BY <1>1, <1>2, <1>3, <1>4, <1>5, <1>6 DEF Next

\* A published task is new in the queue or was published before.
LEMMA ConservedStep == TypeOK /\ AcksFinished /\ Conserved /\ [Next]_vars => Conserved'
<1> SUFFICES ASSUME StoreOK, ControlOK, AcksFinished, Conserved, [Next]_vars,
                    (CrashAt \cup FailAt) \cap Carrying = {},
                    NEW t \in published'
             PROVE  Kept(t)'
    BY DEF TypeOK, Conserved, Kept
<1>1. published' = published \/ \E u \in Tasks : Publish(u)
    BY DEF Next, WorkerNext, ReaperNext, Clock, DelayElapses, DeadlinePasses, Scan,
           Promote, Pop, PopFallback, Store, Stamp, Succeed, Raise, PassBack, AckRemove,
           AckForget, RequeueRemove, RequeueDelay, BuryRemove, BuryPush, Survey, Sweep,
           ReapRemove, ReapForget, ReapPush, CommandRaises, Crash, vars, history
<1>2. CASE t \in published
    <2>1. t \in Tasks /\ Kept(t)
        BY <1>2 DEF StoreOK, Conserved, Kept
    <2>2. QED BY <2>1, KeptStep
<1>3. CASE t \notin published
    <2>1. t \in Tasks /\ Publish(t)
        BY <1>1, <1>3 DEF Publish
    <2>2. t \in Range(queue')
        BY <2>1, RangeAppend DEF Publish, StoreOK
    <2>3. QED BY <2>2 DEF Kept, Stored
<1>4. QED BY <1>2, <1>3

\* Conserved holds in every reachable state, for any number of tasks, workers
\* and reapers and any bounds: the multi-command moves of the backend lose a task
\* only when a process dies, or a command raises, between the two commands.
THEOREM NoTaskLost == Spec => []Conserved
<1>1. Init => AcksFinished /\ Conserved
    BY DEF Init, AcksFinished, Conserved, Actors, Home
<1>2. TypeOK /\ AcksFinished /\ [Next]_vars => AcksFinished'
    BY AcksFinishedStep DEF TypeOK
<1>3. QED BY TypeCorrect, <1>1, <1>2, ConservedStep, PTL DEF Spec

----------------------------------------------------------------------------
(* One holder at a time *)

\* No process knows of task t and it has no deadline.
Loose(t) ==
    /\ \A a \in Actors : hand[a] # t /\ t \notin seen[a]
    /\ deadline[t] = "none"

\* A task waits in the queue at most once, and only while nobody works on it.
QueueLoose ==
    /\ \A t \in Tasks : t \in Range(queue) \/ t \notin published => Loose(t)
    /\ Range(queue) \subseteq published
    /\ IsInjective(queue)

\* Two processes never hold the same task.
OneHolder == \A a, b \in Actors : hand[a] # None /\ hand[a] = hand[b] => a = b

\* A worker holds a task whose deadline has not passed, and has not set yet when
\* it comes from the queue.
WorkersHold == \A w \in Workers :
    /\ seen[w] = {}
    /\ pc[w] \notin {"promote", "unlist", "postpone"}
    /\ hand[w] # None => deadline[hand[w]] # "passed"
    /\ pc[w] \in {"store", "stamp"} => deadline[hand[w]] = "none"

\* A reaper works on tasks whose deadline has passed, and gives back a task
\* whose deadline it has deleted.
ReapersHold == \A r \in Reapers :
    /\ \A t \in seen[r] : deadline[t] = "passed" /\ hand[r] # t
    /\ pc[r] = "return" => deadline[hand[r]] = "none"

\* Nothing was requeued, so nothing is delayed.
NothingDelayed == \A t \in Tasks : delayed[t] = "absent"

\* The strengthening that makes Exclusive inductive: a task is in the queue, or
\* with one worker, or with the reaper, or left with a deadline, one at a time.
Ownership == QueueLoose /\ OneHolder /\ WorkersHold /\ ReapersHold /\ NothingDelayed

\* The strengthening of Watched: who removed a task from the processing list
\* and is about to forget its deadline knows that it is not there.
Unlisting ==
    /\ \A w \in Workers : pc[w] = "forget" => processing[hand[w]] = 0
    /\ \A r \in Reapers : pc[r] = "clear" => processing[hand[r]] = 0

OwnedOnTime == OnTime => Ownership

\* A claim the reaper can see, now or after the next command of its worker.
Visible(t) == deadline[t] # "none" \/ \E a \in Actors : hand[a] = t /\ pc[a] = "stamp"


\* The bounds only grow, so a run that is on time was on time before.
LEMMA OnTimeBefore ==
    ASSUME StoreOK, [Next]_vars, OnTime'
    PROVE  OnTime
<1>1. /\ used'.slow \in {used.slow, used.slow + 1}
      /\ used'.requeues \in {used.requeues, used.requeues + 1}
    <2>1. ASSUME NEW what \in {"crashes", "errors", "slow", "requeues"}, Use(what)
          PROVE  /\ used'.slow \in {used.slow, used.slow + 1}
                 /\ used'.requeues \in {used.requeues, used.requeues + 1}
        BY <2>1 DEF Use, StoreOK
    <2>2. UNCHANGED used \/ \E what \in {"crashes", "errors", "slow", "requeues"} : Use(what)
        BY DEF Next, WorkerNext, ReaperNext, Clock, Publish, DelayElapses, DeadlinePasses,
               Scan, Promote, Pop, PopFallback, Store, Stamp, Succeed, Raise, PassBack,
               AckRemove, AckForget, RequeueRemove, RequeueDelay, BuryRemove, BuryPush,
               Survey, Sweep, ReapRemove, ReapForget, ReapPush, CommandRaises, Crash, vars
    <2>3. QED BY <2>1, <2>2
<1>2. used.slow \in Nat /\ used.requeues \in Nat
    BY DEF StoreOK
<1>3. QED BY <1>1, <1>2 DEF OnTime

\* A run on time has used no requeue in its step.
LEMMA NoRequeueNow ==
    ASSUME StoreOK, OnTime'
    PROVE  ~Use("requeues") /\ ~Use("slow")
<1>1. used.slow \in Nat /\ used.requeues \in Nat
    BY DEF StoreOK
<1>2. Use("requeues") => used'.requeues = used.requeues + 1
    BY DEF Use, StoreOK
<1>3. Use("slow") => used'.slow = used.slow + 1
    BY DEF Use, StoreOK
<1>4. QED BY <1>1, <1>2, <1>3 DEF OnTime

\* There is at most one reaper.
LEMMA SingleReaper ==
    ASSUME OnTime, NEW r \in Reapers, NEW s \in Reapers
    PROVE  r = s
<1>1. Cardinality(Reapers) \in Nat /\ Cardinality(Reapers) # 0
    BY ReapersAreFinite, FS_CardinalityType, FS_EmptySet
<1>2. Cardinality(Reapers) = 1
    BY <1>1 DEF OnTime
<1>3. QED BY <1>2, ReapersAreFinite, FS_Singleton

\* RPUSH of a task that is not in the list repeats nothing.
LEMMA InjectiveAppend ==
    ASSUME NEW q \in Seq(Tasks), IsInjective(q), NEW t \in Tasks, t \notin Range(q)
    PROVE  IsInjective(Append(q, t))
<1>1. /\ DOMAIN Append(q, t) = 1..Len(q) + 1 /\ DOMAIN q = 1..Len(q) /\ Len(q) \in Nat
      /\ Append(q, t)[Len(q) + 1] = t
      /\ \A i \in 1..Len(q) : Append(q, t)[i] = q[i]
    OBVIOUS
<1>2. \A i \in 1..Len(q) : q[i] # t
    BY <1>1 DEF Range
<1>3. \A i \in 1..Len(q) + 1 : i = Len(q) + 1 \/ i \in 1..Len(q)
    BY <1>1
<1>4. QED BY <1>1, <1>2, <1>3 DEF IsInjective

\* LPUSH of a task that is not in the list repeats nothing.
LEMMA InjectivePush ==
    ASSUME NEW q \in Seq(Tasks), IsInjective(q), NEW t \in Tasks, t \notin Range(q)
    PROVE  IsInjective(<<t>> \o q)
<1> DEFINE p == <<t>> \o q
<1>1. /\ DOMAIN p = 1..Len(q) + 1 /\ DOMAIN q = 1..Len(q) /\ Len(q) \in Nat
      /\ p[1] = t
      /\ \A i \in 2..Len(q) + 1 : p[i] = q[i - 1] /\ i - 1 \in 1..Len(q)
    OBVIOUS
<1>2. \A i \in 1..Len(q) : q[i] # t
    BY <1>1 DEF Range
<1>3. \A i \in 1..Len(q) + 1 : i = 1 \/ i \in 2..Len(q) + 1
    BY <1>1
<1>4. SUFFICES ASSUME NEW i \in 1..Len(q) + 1, NEW j \in 1..Len(q) + 1, p[i] = p[j]
               PROVE  i = j
    BY <1>1 DEF IsInjective
<1>5. CASE i = 1 \/ j = 1
    BY <1>1, <1>2, <1>3, <1>4, <1>5
<1>6. CASE i \in 2..Len(q) + 1 /\ j \in 2..Len(q) + 1
    <2>1. q[i - 1] = q[j - 1] /\ i - 1 \in DOMAIN q /\ j - 1 \in DOMAIN q
        BY <1>1, <1>4, <1>6
    <2>2. i - 1 = j - 1
        BY <2>1 DEF IsInjective
    <2>3. QED BY <2>2
<1>7. QED BY <1>3, <1>5, <1>6

\* What RPOP leaves repeats nothing and does not hold the task that it returned.
LEMMA InjectiveFront ==
    ASSUME NEW q \in Seq(Tasks), IsInjective(q), q # <<>>
    PROVE  /\ IsInjective(SubSeq(q, 1, Len(q) - 1))
           /\ q[Len(q)] \notin Range(SubSeq(q, 1, Len(q) - 1))
<1> DEFINE front == SubSeq(q, 1, Len(q) - 1)
<1>1. /\ DOMAIN q = 1..Len(q) /\ Len(q) \in Nat \ {0}
      /\ DOMAIN front = 1..Len(q) - 1
      /\ \A i \in 1..Len(q) - 1 : front[i] = q[i] /\ i \in 1..Len(q) /\ i # Len(q)
    OBVIOUS
<1>2. Len(q) \in DOMAIN q
    OBVIOUS
<1> HIDE DEF front
<1>3. QED BY <1>1, <1>2 DEF IsInjective, Range, front

\* A step in which one process moves on, lets go of its task or forgets part of
\* its snapshot, and no key of Ownership changes, keeps Ownership.
LEMMA OwnershipMove ==
    ASSUME ControlOK, Ownership, NEW a \in Actors, Moves(a),
           UNCHANGED <<queue, deadline, delayed, published>>,
           hand'[a] \in {hand[a], None}, seen'[a] \subseteq seen[a],
           pc'[a] \notin {"promote", "unlist", "postpone", "return"},
           pc'[a] \in {"store", "stamp"} => pc[a] \in {"store", "stamp"} /\ hand'[a] = hand[a]
    PROVE  Ownership'
<1> USE DEF Ownership
<1>1. \A b \in Actors :
        /\ hand'[b] \in {hand[b], None} /\ seen'[b] \subseteq seen[b]
        /\ b # a => hand'[b] = hand[b] /\ pc'[b] = pc[b] /\ seen'[b] = seen[b]
    BY DEF Moves, ControlOK
<1>2. \A t \in Tasks : Loose(t) => Loose(t)'
    BY <1>1, NoneIsNoTask DEF Loose
<1>3. QueueLoose'
    BY <1>2 DEF QueueLoose
<1>4. OneHolder'
    BY <1>1 DEF OneHolder
<1>5. WorkersHold'
    <2>1. SUFFICES ASSUME NEW w \in Workers
                   PROVE  /\ seen'[w] = {}
                          /\ pc'[w] \notin {"promote", "unlist", "postpone"}
                          /\ hand'[w] # None => deadline'[hand'[w]] # "passed"
                          /\ pc'[w] \in {"store", "stamp"} => deadline'[hand'[w]] = "none"
        BY DEF WorkersHold
    <2>2. w \in Actors
        BY DEF Actors
    <2>3. QED BY <1>1, <2>2 DEF WorkersHold
<1>6. ReapersHold'
    <2>1. SUFFICES ASSUME NEW r \in Reapers
                   PROVE  /\ \A t \in seen'[r] : deadline'[t] = "passed" /\ hand'[r] # t
                          /\ pc'[r] = "return" => deadline'[hand'[r]] = "none"
        BY DEF ReapersHold
    <2>2. r \in Actors
        BY DEF Actors
    <2>3. \A t \in seen[r] : t # None
        BY <2>2, NoneIsNoTask DEF ControlOK
    <2>4. QED BY <1>1, <2>2, <2>3 DEF ReapersHold
<1>7. QED BY <1>3, <1>4, <1>5, <1>6 DEF NothingDelayed

\* The steps of a worker keep Ownership.
LEMMA OwnershipWorker ==
    ASSUME TypeOK, Ownership, OnTime, OnTime', NEW w \in Workers,
           WorkerNext(w) \/ PopFallback(w)
    PROVE  Ownership'
<1> w \in Actors /\ w \notin Reapers
    BY ActorsAreDistinct DEF Actors
<1> USE DEF Ownership, redis, history, WorkerSteps, ReaperSteps, Holding
<1> StoreOK /\ ControlOK
    BY DEF TypeOK
<1>0. /\ pc[w] \in Holding => hand[w] \in Tasks
      /\ pc[w] \notin {"promote", "unlist", "postpone"} /\ seen[w] = {}
      /\ \A b \in Actors : b \in Workers \/ b \in Reapers
    BY InHand DEF WorkersHold, Actors
<1>1. CASE Scan(w) \/ (Pop(w) /\ queue = <<>>) \/ Store(w)
    <2>1. Moves(w)
        BY <1>1, <1>0, NoneIsNoTask DEF Scan, Pop, Store, Goto, Moves, ControlOK
    <2>2. {t \in Tasks : delayed[t] = "due"} = {}
        BY DEF NothingDelayed
    <2>3. /\ UNCHANGED <<queue, deadline, delayed, published>>
          /\ hand'[w] \in {hand[w], None} /\ seen'[w] \subseteq seen[w]
          /\ pc'[w] \notin {"promote", "unlist", "postpone", "return"}
          /\ pc'[w] \in {"store", "stamp"} => pc[w] \in {"store", "stamp"} /\ hand'[w] = hand[w]
        BY <1>0, <1>1, <2>2 DEF Scan, Pop, Store, Goto, ControlOK
    <2>4. QED BY <2>1, <2>3, OwnershipMove
<1>2. CASE Succeed(w) \/ Raise(w) \/ AckRemove(w) \/ BuryRemove(w) \/ BuryPush(w)
    <2>1. Moves(w) /\ pc'[w] \notin {"promote", "unlist", "postpone", "return", "store", "stamp"}
        BY <1>0, <1>2, NoneIsNoTask, NoRequeueNow
           DEF Succeed, Raise, AckRemove, BuryRemove, BuryPush, Drop, Goto, Moves, ControlOK
    <2>2. /\ UNCHANGED <<queue, deadline, delayed, published>>
          /\ hand'[w] \in {hand[w], None} /\ seen'[w] \subseteq seen[w]
        BY <1>0, <1>2 DEF Succeed, Raise, AckRemove, BuryRemove, BuryPush, Drop, ControlOK
    <2>3. QED BY <2>1, <2>2, OwnershipMove
<1>3. CASE Promote(w) \/ PassBack(w) \/ RequeueRemove(w) \/ RequeueDelay(w)
    BY <1>0, <1>3, NoRequeueNow DEF Promote, PassBack, RequeueRemove, RequeueDelay
<1>4. CASE (Pop(w) \/ PopFallback(w)) /\ queue # <<>>
    <2> DEFINE t == queue[Len(queue)]
    <2>1. /\ t \in Tasks /\ Range(queue) = Range(queue') \cup {t}
          /\ t \notin Range(queue') /\ IsInjective(queue')
        BY <1>4, RangeFront, InjectiveFront DEF Pop, PopFallback, StoreOK, QueueLoose
    <2>2. /\ UNCHANGED <<deadline, delayed, published, seen>>
          /\ hand' = [hand EXCEPT ![w] = t]
          /\ pc' = [pc EXCEPT ![w] = pc'[w]] /\ pc'[w] \in {"store", "stamp"}
        BY <1>4 DEF Pop, PopFallback, Goto, ControlOK
    <2> HIDE DEF t
    <2>3. Loose(t)
        BY <2>1 DEF QueueLoose
    <2>4. \A b \in Actors : b # w => hand'[b] = hand[b] /\ hand[b] # t /\ pc'[b] = pc[b]
        BY <2>2, <2>3 DEF Loose, ControlOK
    <2>5. hand'[w] = t
        BY <2>2 DEF ControlOK
    <2>6. QueueLoose'
        <3>1. \A u \in Tasks : u # t /\ Loose(u) => Loose(u)'
            BY <2>2, <2>4, <2>5 DEF Loose
        <3>2. t \in published
            BY <2>1 DEF QueueLoose
        <3>3. QED BY <2>1, <2>2, <3>1, <3>2 DEF QueueLoose
    <2>7. OneHolder'
        BY <2>4, <2>5 DEF OneHolder
    <2>8. WorkersHold'
        BY <2>2, <2>3, <2>4, <2>5 DEF WorkersHold, Loose, Actors
    <2>9. ReapersHold'
        BY <2>2, <2>4 DEF ReapersHold, Actors
    <2>10. QED BY <2>2, <2>6, <2>7, <2>8, <2>9 DEF NothingDelayed
<1>5. CASE Stamp(w) \/ AckForget(w)
    <2>1. hand[w] \in Tasks
        BY <1>0, <1>5 DEF Stamp, AckForget
    <2>2. /\ UNCHANGED <<queue, delayed, published, seen>>
          /\ hand'[w] \in {hand[w], None} /\ pc'[w] \in {"work", "idle"}
          /\ \A b \in Actors : b # w => hand'[b] = hand[b] /\ pc'[b] = pc[b]
        BY <1>5 DEF Stamp, AckForget, Goto, Drop, ControlOK
    <2>3. /\ \A u \in Tasks : u # hand[w] => deadline'[u] = deadline[u]
          /\ deadline'[hand[w]] \in {"live", "none"}
        BY <1>5, <2>1 DEF Stamp, AckForget, StoreOK
    <2>4. deadline[hand[w]] # "passed"
        BY <2>1, NoneIsNoTask DEF WorkersHold
    <2>5. \A b \in Actors : hand[w] \notin seen[b]
        BY <1>0, <2>4 DEF ReapersHold, WorkersHold
    <2>6. QueueLoose'
        BY <2>1, <2>2, <2>3, NoneIsNoTask DEF QueueLoose, Loose
    <2>7. OneHolder'
        BY <2>2 DEF OneHolder
    <2>8. \A b \in Actors : b # w /\ hand[b] # None => hand[b] # hand[w] /\ hand[b] \in Tasks
        BY <2>1, NoneIsNoTask DEF OneHolder, ControlOK
    <2>9. WorkersHold'
        <3>1. SUFFICES ASSUME NEW v \in Workers
                       PROVE  /\ seen'[v] = {}
                              /\ pc'[v] \notin {"promote", "unlist", "postpone"}
                              /\ hand'[v] # None => deadline'[hand'[v]] # "passed"
                              /\ pc'[v] \in {"store", "stamp"} => deadline'[hand'[v]] = "none"
            BY DEF WorkersHold
        <3>2. v \in Actors
            BY DEF Actors
        <3>3. CASE v = w
            BY <2>2, <2>3, <3>3 DEF WorkersHold
        <3>4. CASE v # w
            <4>1. pc[v] \in {"store", "stamp"} => hand[v] # None
                BY <3>2 DEF ControlOK
            <4>2. QED BY <2>2, <2>3, <2>8, <3>2, <3>4, <4>1 DEF WorkersHold
        <3>5. QED BY <3>3, <3>4
    <2>10. ReapersHold'
        <3>1. SUFFICES ASSUME NEW r \in Reapers
                       PROVE  /\ \A u \in seen'[r] : deadline'[u] = "passed" /\ hand'[r] # u
                              /\ pc'[r] = "return" => deadline'[hand'[r]] = "none"
            BY DEF ReapersHold
        <3>2. r \in Actors /\ r # w /\ seen[r] \in SUBSET Tasks
            BY DEF Actors, ControlOK
        <3>3. pc[r] = "return" => hand[r] # None
            BY <3>2 DEF ControlOK
        <3>4. QED BY <2>2, <2>3, <2>5, <2>8, <3>2, <3>3 DEF ReapersHold
    <2>11. QED BY <2>2, <2>6, <2>7, <2>9, <2>10 DEF NothingDelayed
<1>6. QED
    BY <1>1, <1>2, <1>3, <1>4, <1>5 DEF WorkerNext, Pop, PopFallback

\* The steps of the reaper keep Ownership.
LEMMA OwnershipReaper ==
    ASSUME TypeOK, Ownership, OnTime, NEW r \in Reapers, ReaperNext(r)
    PROVE  Ownership'
<1> r \in Actors /\ r \notin Workers
    BY ActorsAreDistinct DEF Actors
<1> USE DEF Ownership, redis, history, WorkerSteps, ReaperSteps, Holding
<1> StoreOK /\ ControlOK
    BY DEF TypeOK
<1>0. /\ pc[r] \in Holding => hand[r] \in Tasks
      /\ seen[r] \in SUBSET Tasks
      /\ \A b \in Actors : b # r => b \in Workers /\ seen[b] = {}
    BY InHand, SingleReaper DEF Actors, ControlOK, WorkersHold
<1>1. CASE ReapRemove(r)
    <2>1. Moves(r) /\ pc'[r] = "clear"
        BY <1>0, <1>1, NoneIsNoTask DEF ReapRemove, Goto, Moves, ControlOK
    <2>2. UNCHANGED <<queue, deadline, delayed, published, hand, seen>>
        BY <1>1 DEF ReapRemove
    <2>3. QED BY <2>1, <2>2, OwnershipMove
<1>2. CASE Survey(r)
    <2>1. /\ seen' = [seen EXCEPT ![r] = {t \in Tasks : deadline[t] = "passed"}]
          /\ UNCHANGED <<queue, deadline, delayed, published, hand>>
          /\ pc[r] = "rest" /\ pc' = [pc EXCEPT ![r] = "sweep"]
        BY <1>2 DEF Survey, Goto
    <2>2. hand[r] = None
        BY <2>1 DEF ControlOK
    <2>3. QueueLoose'
        BY <2>1 DEF QueueLoose, Loose, ControlOK
    <2>4. OneHolder'
        BY <2>1 DEF OneHolder
    <2>5. WorkersHold'
        BY <2>1, ActorsAreDistinct DEF WorkersHold, ControlOK, Actors
    <2>6. ReapersHold'
        BY <2>1, <2>2, NoneIsNoTask, SingleReaper DEF ReapersHold, ControlOK
    <2>7. QED BY <2>1, <2>3, <2>4, <2>5, <2>6 DEF NothingDelayed
<1>3. CASE Sweep(r)
    <2>1. PICK t \in seen[r] :
            /\ seen' = [seen EXCEPT ![r] = @ \ {t}]
            /\ \/ /\ hand' = [hand EXCEPT ![r] = t]
                  /\ pc' = [pc EXCEPT ![r] = "take"]
               \/ /\ UNCHANGED hand
                  /\ pc' = [pc EXCEPT ![r] = pc'[r]] /\ pc'[r] \in {"rest", "sweep"}
        BY <1>3 DEF Sweep, Onward, Goto, ControlOK
    <2>2. /\ UNCHANGED <<queue, deadline, delayed, published>> /\ pc[r] = "sweep"
        BY <1>3 DEF Sweep
    <2>3. t \in Tasks /\ deadline[t] = "passed" /\ seen'[r] = seen[r] \ {t}
        BY <1>0, <2>1 DEF ReapersHold, ControlOK
    <2>4. \A b \in Actors : b # r => hand[b] # t
        BY <1>0, <2>3, NoneIsNoTask DEF WorkersHold
    <2>5. CASE hand' = hand /\ pc'[r] \in {"rest", "sweep"}
        <3>1. hand[r] = None
            BY <2>2 DEF ControlOK
        <3>2. Moves(r)
            BY <1>0, <2>1, <2>3, <2>5, <3>1 DEF Moves, ControlOK
        <3>3. QED BY <2>2, <2>3, <2>5, <3>2, OwnershipMove
    <2>6. CASE hand' = [hand EXCEPT ![r] = t] /\ pc' = [pc EXCEPT ![r] = "take"]
        <3>1. /\ \A b \in Actors : b # r => /\ hand'[b] = hand[b] /\ pc'[b] = pc[b]
                                             /\ seen'[b] = seen[b]
              /\ hand'[r] = t /\ pc'[r] = "take"
            BY <2>1, <2>6 DEF ControlOK
        <3>2. QueueLoose'
            <4>1. \A u \in Tasks : Loose(u) => u # t
                BY <2>1 DEF Loose
            <4>2. \A u \in Tasks : Loose(u) => Loose(u)'
                BY <2>2, <2>3, <3>1, <4>1 DEF Loose
            <4>3. QED BY <2>2, <4>2 DEF QueueLoose
        <3>3. OneHolder'
            BY <2>4, <3>1 DEF OneHolder
        <3>4. WorkersHold'
            BY <2>2, <3>1, ActorsAreDistinct DEF WorkersHold, Actors
        <3>5. ReapersHold'
            BY <2>2, <2>3, <3>1, SingleReaper DEF ReapersHold
        <3>6. QED BY <2>2, <3>2, <3>3, <3>4, <3>5 DEF NothingDelayed
    <2>7. QED BY <2>1, <2>5, <2>6, <1>0 DEF ControlOK
<1>4. CASE ReapForget(r)
    <2>1. hand[r] \in Tasks
        BY <1>0, <1>4 DEF ReapForget
    <2>2. /\ UNCHANGED <<queue, delayed, published, seen, hand>>
          /\ pc'[r] = "return" /\ \A b \in Actors : b # r => pc'[b] = pc[b]
        BY <1>4 DEF ReapForget, Goto, ControlOK
    <2>3. deadline'[hand[r]] = "none" /\ \A u \in Tasks : u # hand[r] => deadline'[u] = deadline[u]
        BY <1>4, <2>1 DEF ReapForget, StoreOK
    <2>4. QueueLoose'
        BY <2>2, <2>3 DEF QueueLoose, Loose
    <2>5. OneHolder'
        BY <2>2 DEF OneHolder
    <2>6. WorkersHold'
        <3>1. \A w \in Workers : w \in Actors /\ (hand[w] # None => hand[w] \in Tasks)
            BY DEF Actors, ControlOK
        <3>2. \A w \in Workers : pc[w] \in {"store", "stamp"} => hand[w] # None
            BY <3>1 DEF ControlOK
        <3>3. QED BY <2>2, <2>3, <3>1, <3>2, ActorsAreDistinct DEF WorkersHold
    <2>7. ReapersHold'
        BY <1>0, <2>2, <2>3, SingleReaper DEF ReapersHold
    <2>8. QED BY <2>2, <2>4, <2>5, <2>6, <2>7 DEF NothingDelayed
<1>5. CASE ReapPush(r)
    <2>1. hand[r] \in Tasks /\ <<hand[r]>> \in Seq(Tasks) /\ Range(<<hand[r]>>) = {hand[r]}
        BY <1>0, <1>5 DEF ReapPush, Range
    <2>2. /\ UNCHANGED <<deadline, delayed, published, seen>>
          /\ queue' = <<hand[r]>> \o queue
          /\ hand' = [hand EXCEPT ![r] = None]
          /\ pc' = [pc EXCEPT ![r] = pc'[r]] /\ pc'[r] \in {"rest", "sweep"}
          /\ pc[r] = "return"
        BY <1>5 DEF ReapPush, Onward, Goto, Drop, ControlOK
    <2>3. ~Loose(hand[r])
        BY DEF Loose
    <2>4. hand[r] \notin Range(queue) /\ hand[r] \in published
        BY <2>1, <2>3 DEF QueueLoose
    <2>5. Range(queue') = {hand[r]} \cup Range(queue) /\ IsInjective(queue')
        <3>1. IsInjective(queue) /\ queue \in Seq(Tasks)
            BY DEF QueueLoose, StoreOK
        <3>2. QED BY <2>1, <2>2, <2>4, <3>1, RangeConcat, InjectivePush
    <2>6. \A b \in Actors : b # r => /\ hand'[b] = hand[b] /\ hand[b] # hand[r]
                                     /\ pc'[b] = pc[b]
        BY <2>1, <2>2, NoneIsNoTask DEF OneHolder, ControlOK
    <2>7. hand'[r] = None
        BY <2>2 DEF ControlOK
    <2>8. PICK t \in Tasks : t = hand[r]
        BY <2>1
    <2>9. Loose(t)'
        <3>1. deadline[t] = "none" /\ \A b \in Actors : t \notin seen[b]
            BY <1>0, <2>2, <2>8 DEF ReapersHold
        <3>2. \A b \in Actors : hand'[b] # t
            BY <2>6, <2>7, <2>8, NoneIsNoTask
        <3>3. QED BY <2>2, <3>1, <3>2 DEF Loose
    <2>10. QueueLoose'
        <3>1. \A u \in Tasks : Loose(u) => Loose(u)'
            BY <2>2, <2>6, <2>7, NoneIsNoTask DEF Loose
        <3>2. QED BY <2>2, <2>4, <2>5, <2>8, <2>9, <3>1 DEF QueueLoose
    <2>11. OneHolder'
        BY <2>6, <2>7 DEF OneHolder
    <2>12. WorkersHold'
        BY <2>2, <2>6, ActorsAreDistinct DEF WorkersHold, Actors
    <2>13. ReapersHold'
        BY <1>0, <2>2, <2>7, SingleReaper, NoneIsNoTask DEF ReapersHold
    <2>14. QED BY <2>2, <2>10, <2>11, <2>12, <2>13 DEF NothingDelayed
<1>6. QED BY <1>1, <1>2, <1>3, <1>4, <1>5 DEF ReaperNext

\* Publishing, the clock, a command that raises and a death keep Ownership.
LEMMA OwnershipEnvironment ==
    ASSUME TypeOK, Ownership, OnTime, OnTime',
           \/ \E t \in Tasks : Publish(t) \/ Clock(t)
           \/ \E a \in Actors : CommandRaises(a) \/ Crash(a)
    PROVE  Ownership'
<1> USE DEF Ownership, redis, history, WorkerSteps, ReaperSteps, Holding
<1> StoreOK /\ ControlOK
    BY DEF TypeOK
<1>1. ASSUME NEW t \in Tasks, Publish(t) PROVE Ownership'
    <2>1. UNCHANGED <<delayed, deadline, pc, hand, seen>>
        BY <1>1 DEF Publish
    <2>2. t \notin Range(queue) /\ Loose(t)
        BY <1>1 DEF Publish, QueueLoose
    <2>3. Range(queue') = Range(queue) \cup {t} /\ IsInjective(queue')
        BY <1>1, <2>2, RangeAppend, InjectiveAppend DEF Publish, StoreOK, QueueLoose
    <2>4. \A u \in Tasks : Loose(u) => Loose(u)'
        BY <2>1 DEF Loose
    <2>5. QueueLoose'
        BY <1>1, <2>2, <2>3, <2>4 DEF Publish, QueueLoose
    <2>6. OneHolder' /\ WorkersHold' /\ ReapersHold' /\ NothingDelayed'
        BY <2>1 DEF OneHolder, WorkersHold, ReapersHold, NothingDelayed
    <2>7. QED BY <2>5, <2>6
<1>2. ASSUME NEW t \in Tasks, Clock(t) PROVE Ownership'
    <2>1. DeadlinePasses(t)
        BY <1>2 DEF Clock, DelayElapses, NothingDelayed
    <2>2. /\ UNCHANGED <<queue, delayed, pc, hand, seen, published>>
          /\ deadline[t] = "live" /\ deadline' = [deadline EXCEPT ![t] = "passed"]
          /\ \A w \in Workers : hand[w] = t => pc[w] \in {"store", "stamp"}
        BY <2>1, NoRequeueNow DEF DeadlinePasses
    <2>3. \A w \in Workers : hand[w] # t
        BY <2>2 DEF WorkersHold
    <2>4. deadline'[t] = "passed" /\ \A u \in Tasks : u # t => deadline'[u] = deadline[u]
        BY <2>2 DEF StoreOK
    <2>5. \A u \in Tasks : Loose(u) => u # t
        BY <2>2 DEF Loose
    <2>6. \A u \in Tasks : Loose(u) => Loose(u)'
        BY <2>2, <2>4, <2>5 DEF Loose
    <2>7. QueueLoose'
        BY <2>2, <2>6 DEF QueueLoose
    <2>8. OneHolder' /\ NothingDelayed'
        BY <2>2 DEF OneHolder, NothingDelayed
    <2>9. WorkersHold'
        <3>1. \A w \in Workers : w \in Actors /\ hand[w] \in Tasks \cup {None}
            BY DEF Actors, ControlOK
        <3>2. \A w \in Workers : pc[w] \in {"store", "stamp"} => hand[w] # None
            BY <3>1 DEF ControlOK
        <3>3. QED BY <2>2, <2>3, <2>4, <3>1, <3>2 DEF WorkersHold
    <2>10. ReapersHold'
        <3>1. \A r \in Reapers : r \in Actors /\ hand[r] \in Tasks \cup {None}
                                   /\ seen[r] \in SUBSET Tasks
            BY DEF Actors, ControlOK
        <3>2. \A r \in Reapers : pc[r] = "return" => hand[r] # None
            BY <3>1 DEF ControlOK
        <3>3. QED BY <2>2, <2>4, <3>1, <3>2 DEF ReapersHold
    <2>11. QED BY <2>7, <2>8, <2>9, <2>10
<1>3. ASSUME NEW a \in Actors, CommandRaises(a) PROVE Ownership'
    <2>1. UNCHANGED <<queue, deadline, delayed, published>>
        BY <1>3 DEF CommandRaises
    <2>2. pc[a] \in DOMAIN ErrorExit
        BY <1>3 DEF CommandRaises
    <2>3. CASE a \in Workers
        <3>1. a \notin Reapers /\ Home(a) = "idle"
            BY <2>3, ActorsAreDistinct DEF Home
        <3>2. pc[a] \in WorkerSteps /\ pc[a] \notin {"promote", "unlist", "postpone"}
              /\ seen[a] = {}
            BY <2>3 DEF ControlOK, WorkersHold
        <3>3. CASE ErrorExit[pc[a]] = "idle"
            <4>1. /\ Drop(a) /\ Goto(a, "idle")
                  /\ seen' = [seen EXCEPT ![a] = {}]
                BY <1>3, <3>1, <3>3 DEF CommandRaises
            <4>2. /\ Moves(a) /\ pc'[a] = "idle" /\ hand'[a] = None
                  /\ seen'[a] \subseteq seen[a]
                BY <3>1, <4>1 DEF Drop, Goto, Moves, ControlOK
            <4>3. QED BY <2>1, <4>2, OwnershipMove
        <3>4. CASE ErrorExit[pc[a]] # "idle"
            <4>1. /\ ErrorExit[pc[a]] \in {"work", "entomb"}
                  /\ pc[a] \in {"stamp", "bury"}
                BY <2>2, <3>2, <3>4 DEF ErrorExit
            <4>2. Goto(a, ErrorExit[pc[a]]) /\ UNCHANGED <<hand, seen>>
                BY <1>3, <3>1, <3>4 DEF CommandRaises
            <4>3. Moves(a) /\ pc'[a] \in {"work", "entomb"} /\ hand'[a] = hand[a]
                BY <3>1, <4>1, <4>2 DEF Goto, Moves, ControlOK
            <4>4. QED BY <2>1, <4>2, <4>3, OwnershipMove
        <3>5. QED BY <3>3, <3>4
    <2>4. CASE a \in Reapers
        <3>1. a \notin Workers /\ Home(a) = "rest"
            BY <2>4, ActorsAreDistinct DEF Home
        <3>2. pc[a] \in ReaperSteps
            BY <2>4 DEF ControlOK
        <3>3. ErrorExit[pc[a]] = "rest"
            BY <2>2, <3>2 DEF ErrorExit
        <3>4. Drop(a) /\ UNCHANGED seen /\ Onward(a)
            BY <1>3, <2>4, <3>1, <3>3 DEF CommandRaises
        <3>5. Moves(a) /\ pc'[a] \in {"rest", "sweep"} /\ hand'[a] = None
            BY <3>1, <3>4 DEF Onward, Goto, Drop, Moves, ControlOK
        <3>6. QED BY <2>1, <3>4, <3>5, OwnershipMove
    <2>5. QED BY <2>3, <2>4, InHand
<1>4. ASSUME NEW a \in Actors, Crash(a) PROVE Ownership'
    <2>1. /\ a \in Workers => Home(a) \in WorkerSteps
          /\ a \in Reapers => Home(a) \in ReaperSteps
          /\ Home(a) \in {"idle", "rest"}
        BY ActorsAreDistinct DEF Home
    <2>2. Moves(a) /\ pc'[a] \in {"idle", "rest"} /\ hand'[a] = None /\ seen'[a] = {}
        BY <1>4, <2>1 DEF Crash, Goto, Drop, Moves, ControlOK
    <2>3. UNCHANGED <<queue, deadline, delayed, published>>
        BY <1>4 DEF Crash
    <2>4. QED BY <2>2, <2>3, OwnershipMove
<1>5. QED BY <1>1, <1>2, <1>3, <1>4

\* Every step of a run on time keeps Ownership.
LEMMA OwnershipStep == TypeOK /\ OwnedOnTime /\ [Next]_vars => OwnedOnTime'
<1> SUFFICES ASSUME TypeOK, OwnedOnTime, [Next]_vars, OnTime' PROVE Ownership'
    BY DEF OwnedOnTime
<1>1. OnTime /\ Ownership
    BY OnTimeBefore DEF OwnedOnTime, TypeOK
<1>2. CASE UNCHANGED vars
    BY <1>1, <1>2 DEF vars, redis, history, Ownership, QueueLoose, Loose, OneHolder,
        WorkersHold, ReapersHold, NothingDelayed
<1>3. CASE Next
    BY <1>1, <1>3, OwnershipWorker, OwnershipReaper, OwnershipEnvironment DEF Next
<1>4. QED BY <1>2, <1>3

\* The empty keys and idle processes own nothing.
LEMMA InitOwnership == Init => Ownership
<1> SUFFICES ASSUME Init PROVE Ownership
    OBVIOUS
<1>1. \A t \in Tasks : Loose(t)
    BY NoneIsNoTask DEF Init, Loose
<1>2. Range(queue) = {} /\ IsInjective(queue)
    BY DEF Init, Range, IsInjective
<1>3. QueueLoose /\ OneHolder /\ NothingDelayed
    BY <1>1, <1>2 DEF Init, QueueLoose, OneHolder, NothingDelayed
<1>4. WorkersHold /\ ReapersHold
    BY ActorsAreDistinct DEF Init, WorkersHold, ReapersHold, Actors, Home
<1>5. QED BY <1>3, <1>4 DEF Ownership

\* Ownership holds in every reachable state of a run on time.
LEMMA OwnershipHolds == Spec => []OwnedOnTime
<1>1. Init => OwnedOnTime
    BY InitOwnership DEF OwnedOnTime
<1>2. QED BY TypeCorrect, <1>1, OwnershipStep, PTL DEF Spec

\* Exclusive holds in every reachable state, whatever dies and whatever command
\* raises: two workers hold the same task only after a worker missed its
\* deadline, after a requeue, or when several reapers give tasks back.
THEOREM OneWorkerAtATime == Spec => []Exclusive
<1>1. TypeOK /\ OwnedOnTime => Exclusive
    BY NoneIsNoTask DEF TypeOK, OwnedOnTime, OnTime, Ownership, OneHolder, Exclusive, Holds, Actors
<1>2. QED BY TypeCorrect, OwnershipHolds, <1>1, PTL

----------------------------------------------------------------------------
(* The reaper sees every claim *)

\* A step that changes no list, and after which only process a may be elsewhere
\* but not at "forget" or "clear", keeps Unlisting.
LEMMA UnlistingMove ==
    ASSUME ControlOK, Unlisting, NEW a \in Actors, Moves(a), UNCHANGED processing,
           pc'[a] \notin {"forget", "clear"}
    PROVE  Unlisting'
BY DEF Unlisting, Moves, ControlOK, Actors

\* The same for the claims: the process was not about to stamp its claim.
LEMMA VisibleMove ==
    ASSUME ControlOK, NEW a \in Actors, Moves(a), UNCHANGED deadline, pc[a] # "stamp",
           NEW t \in Tasks, Visible(t)
    PROVE  Visible(t)'
<1>1. CASE deadline[t] # "none"
    BY <1>1 DEF Visible
<1>2. CASE \E b \in Actors : hand[b] = t /\ pc[b] = "stamp"
    <2>1. PICK b \in Actors : hand[b] = t /\ pc[b] = "stamp"
        BY <1>2
    <2>2. hand'[b] = t /\ pc'[b] = "stamp"
        BY <2>1 DEF Moves, ControlOK
    <2>3. QED BY <2>2 DEF Visible
<1>3. QED BY <1>1, <1>2 DEF Visible

\* The claims that the processing list holds are visible, and the processes that
\* delete a deadline have removed the task before.
Claims == Unlisting /\ \A t \in Tasks : processing[t] > 0 => Visible(t)

ClaimsOnTime == OnTime /\ "stamp" \notin CrashAt \cup FailAt => Claims

\* LREM by one process keeps Claims.
LEMMA ClaimsUnlisted ==
    ASSUME StoreOK, ControlOK, OneHolder, Claims, NEW a \in Actors, Moves(a),
           hand[a] \in Tasks, Unlisted(hand[a]), UNCHANGED <<deadline, hand>>,
           pc[a] # "stamp"
    PROVE  Claims'
<1>1. /\ processing'[hand[a]] = 0
      /\ \A u \in Tasks : u # hand[a] => processing'[u] = processing[u]
    BY DEF Unlisted, StoreOK
<1>2. \A b \in Actors : b # a => pc'[b] = pc[b]
    BY DEF Moves, ControlOK
<1>3. \A t \in Tasks : processing'[t] > 0 => Visible(t)'
    <2>1. SUFFICES ASSUME NEW t \in Tasks, processing'[t] > 0 PROVE Visible(t)'
        OBVIOUS
    <2>2. processing'[t] = processing[t]
        BY <1>1, <2>1
    <2>3. QED BY <2>1, <2>2, VisibleMove DEF Claims
<1>4. \A b \in Actors : hand[b] \in Tasks /\ processing[hand[b]] = 0 => processing'[hand[b]] = 0
    BY <1>1
<1>5. Unlisting'
    <2>1. ASSUME NEW w \in Workers, pc'[w] = "forget" PROVE processing'[hand'[w]] = 0
        <3>1. w \in Actors
            BY DEF Actors
        <3>2. CASE w = a
            BY <1>1, <3>2
        <3>3. CASE w # a
            <4>1. pc[w] = "forget" /\ hand[w] \in Tasks
                BY <1>2, <2>1, <3>1, <3>3, InHand DEF Holding
            <4>2. QED BY <1>4, <3>1, <4>1 DEF Claims, Unlisting
        <3>4. QED BY <3>2, <3>3
    <2>2. ASSUME NEW r \in Reapers, pc'[r] = "clear" PROVE processing'[hand'[r]] = 0
        <3>1. r \in Actors
            BY DEF Actors
        <3>2. CASE r = a
            BY <1>1, <3>2
        <3>3. CASE r # a
            <4>1. pc[r] = "clear" /\ hand[r] \in Tasks
                BY <1>2, <2>2, <3>1, <3>3, InHand DEF Holding
            <4>2. QED BY <1>4, <3>1, <4>1 DEF Claims, Unlisting
        <3>4. QED BY <3>2, <3>3
    <2>3. QED BY <2>1, <2>2 DEF Unlisting
<1>6. QED BY <1>3, <1>5 DEF Claims

\* A new copy of a task that only process a holds, on its way to the HSET, keeps
\* Claims.
LEMMA ClaimsListed ==
    ASSUME StoreOK, ControlOK, Claims, NEW a \in Actors, Moves(a), NEW t \in Tasks,
           hand'[a] = t, pc'[a] = "stamp", pc[a] # "stamp", UNCHANGED deadline,
           processing' = [processing EXCEPT ![t] = @ + 1],
           \A b \in Actors : b # a => hand[b] # t
    PROVE  Claims'
<1>1. \A u \in Tasks : u # t => processing'[u] = processing[u]
    BY DEF StoreOK
<1>2. \A b \in Actors : b # a => pc'[b] = pc[b] /\ hand'[b] = hand[b]
    BY DEF Moves, ControlOK
<1>3. Visible(t)'
    BY DEF Visible
<1>4. \A u \in Tasks : processing'[u] > 0 => Visible(u)'
    <2>1. SUFFICES ASSUME NEW u \in Tasks, u # t, processing'[u] > 0 PROVE Visible(u)'
        BY <1>3
    <2>2. processing'[u] = processing[u]
        BY <1>1, <2>1
    <2>3. QED BY <2>1, <2>2, VisibleMove DEF Claims
<1>5. \A b \in Actors : b # a /\ hand[b] \in Tasks => processing'[hand[b]] = processing[hand[b]]
    BY <1>1
<1>6. \A b \in Actors : pc'[b] \in {"forget", "clear"} => b # a /\ hand[b] \in Tasks
    BY <1>2, InHand DEF Holding
<1>7. Unlisting'
    BY <1>2, <1>5, <1>6 DEF Claims, Unlisting, Actors
<1>8. QED BY <1>4, <1>7 DEF Claims

\* HDEL of a deadline by the process that holds its task keeps Claims, when the
\* task has left the processing list.
LEMMA ClaimsForgotten ==
    ASSUME StoreOK, ControlOK, Claims, NEW a \in Actors, Moves(a), hand[a] \in Tasks,
           processing[hand[a]] = 0, UNCHANGED processing, pc[a] # "stamp",
           deadline' = [deadline EXCEPT ![hand[a]] = "none"],
           pc'[a] \notin {"forget", "clear"}
    PROVE  Claims'
<1>1. Unlisting'
    BY UnlistingMove DEF Claims
<1>2. SUFFICES ASSUME NEW t \in Tasks, processing[t] > 0 PROVE Visible(t)'
    BY <1>1 DEF Claims
<1>3. t # hand[a] /\ Visible(t)
    BY <1>2 DEF Claims
<1>4. deadline'[t] = deadline[t]
    BY <1>3 DEF StoreOK
<1>5. CASE deadline[t] # "none"
    BY <1>4, <1>5 DEF Visible
<1>6. CASE deadline[t] = "none"
    <2>1. PICK b \in Actors : hand[b] = t /\ pc[b] = "stamp"
        BY <1>3, <1>6 DEF Visible
    <2>2. hand'[b] = t /\ pc'[b] = "stamp"
        BY <2>1 DEF Moves, ControlOK
    <2>3. QED BY <2>2 DEF Visible
<1>7. QED BY <1>5, <1>6

\* A step of one process that touches neither the processing list nor the
\* deadlines keeps Claims.
LEMMA ClaimsMove ==
    ASSUME ControlOK, Claims, NEW a \in Actors, Moves(a), UNCHANGED <<processing, deadline>>,
           pc[a] # "stamp", pc'[a] \notin {"forget", "clear"}
    PROVE  Claims'
<1>1. Unlisting'
    BY UnlistingMove DEF Claims
<1>2. QED BY <1>1, VisibleMove DEF Claims

\* The steps of a worker keep Claims.
LEMMA ClaimsWorker ==
    ASSUME TypeOK, Ownership, Claims, OnTime', NEW w \in Workers,
           WorkerNext(w) \/ PopFallback(w)
    PROVE  Claims'
<1> w \in Actors /\ w \notin Reapers
    BY ActorsAreDistinct DEF Actors
<1> USE DEF redis, history, WorkerSteps, ReaperSteps, Holding
<1> StoreOK /\ ControlOK
    BY DEF TypeOK
<1>0. /\ pc[w] \in Holding => hand[w] \in Tasks
      /\ pc[w] \notin {"promote", "unlist", "postpone"}
      /\ QueueLoose /\ OneHolder
    BY InHand DEF Ownership, WorkersHold
<1>1. CASE Scan(w) \/ (Pop(w) /\ queue = <<>>) \/ Succeed(w) \/ Raise(w) \/ BuryPush(w)
    <2>1. Moves(w)
        BY <1>0, <1>1, NoneIsNoTask
           DEF Scan, Pop, Succeed, Raise, BuryPush, Goto, Drop, Moves, ControlOK
    <2>2. /\ UNCHANGED <<processing, deadline>>
          /\ pc[w] # "stamp" /\ pc'[w] \notin {"forget", "clear"}
        BY <1>1 DEF Scan, Pop, Succeed, Raise, BuryPush, Goto, ControlOK
    <2>3. QED BY <2>1, <2>2, ClaimsMove
<1>2. CASE Promote(w) \/ PassBack(w) \/ RequeueRemove(w) \/ RequeueDelay(w)
    BY <1>0, <1>2, NoRequeueNow DEF Promote, PassBack, RequeueRemove, RequeueDelay
<1>3. CASE Pop(w) /\ queue # <<>>
    <2>1. PICK t \in Tasks : t = queue[Len(queue)] /\ t \in Range(queue)
        BY <1>3, RangeFront DEF StoreOK
    <2>2. /\ processing' = [processing EXCEPT ![t] = @ + 1]
          /\ hand' = [hand EXCEPT ![w] = t] /\ pc' = [pc EXCEPT ![w] = "stamp"]
          /\ UNCHANGED <<deadline, seen>> /\ pc[w] # "stamp"
        BY <1>3, <2>1 DEF Pop, Goto
    <2>3. \A b \in Actors : hand[b] # t
        BY <1>0, <2>1 DEF QueueLoose, Loose
    <2>4. Moves(w) /\ hand'[w] = t /\ pc'[w] = "stamp"
        BY <2>2, NoneIsNoTask DEF Moves, ControlOK
    <2>5. QED BY <2>2, <2>3, <2>4, ClaimsListed
<1>4. CASE PopFallback(w)
    <2>1. queue # <<>> /\ queue[Len(queue)] \in Tasks
        BY <1>4, RangeFront DEF PopFallback, StoreOK
    <2>2. Moves(w)
        BY <1>4, <2>1, NoneIsNoTask DEF PopFallback, Goto, Moves, ControlOK
    <2>3. /\ UNCHANGED <<processing, deadline>>
          /\ pc[w] # "stamp" /\ pc'[w] \notin {"forget", "clear"}
        BY <1>4 DEF PopFallback, Goto, ControlOK
    <2>4. QED BY <2>2, <2>3, ClaimsMove
<1>5. CASE Store(w)
    <2>1. PICK t \in Tasks : t = hand[w]
        BY <1>0, <1>5 DEF Store
    <2>2. /\ processing' = [processing EXCEPT ![t] = @ + 1]
          /\ UNCHANGED <<deadline, seen, hand>> /\ pc' = [pc EXCEPT ![w] = "stamp"]
          /\ pc[w] # "stamp"
        BY <1>5, <2>1 DEF Store, Goto
    <2>3. \A b \in Actors : b # w => hand[b] # t
        BY <1>0, <2>1, NoneIsNoTask DEF OneHolder
    <2>4. Moves(w) /\ hand'[w] = t /\ pc'[w] = "stamp"
        BY <2>1, <2>2, NoneIsNoTask DEF Moves, ControlOK
    <2>5. QED BY <2>2, <2>3, <2>4, ClaimsListed
<1>6. CASE Stamp(w)
    <2>1. PICK t \in Tasks : t = hand[w]
        BY <1>0, <1>6 DEF Stamp
    <2>2. /\ UNCHANGED <<processing, hand, seen>> /\ pc' = [pc EXCEPT ![w] = "work"]
          /\ deadline'[t] = "live" /\ \A u \in Tasks : u # t => deadline'[u] = deadline[u]
        BY <1>6, <2>1 DEF Stamp, Goto, StoreOK
    <2>3. Moves(w) /\ pc'[w] = "work"
        BY <1>0, <1>6, <2>2, NoneIsNoTask DEF Stamp, Moves, ControlOK
    <2>4. Unlisting'
        BY <2>2, <2>3, UnlistingMove DEF Claims
    <2>5. \A u \in Tasks : processing[u] > 0 => Visible(u)'
        <3>1. SUFFICES ASSUME NEW u \in Tasks, processing[u] > 0, u # t, deadline[u] = "none"
                       PROVE  Visible(u)'
            BY <2>2 DEF Visible
        <3>2. PICK b \in Actors : hand[b] = u /\ pc[b] = "stamp"
            BY <3>1 DEF Claims, Visible
        <3>3. b # w
            BY <2>1, <3>1, <3>2
        <3>4. hand'[b] = u /\ pc'[b] = "stamp"
            BY <2>2, <3>2, <3>3 DEF ControlOK
        <3>5. QED BY <3>4 DEF Visible
    <2>6. QED BY <2>2, <2>4, <2>5 DEF Claims
<1>7. CASE AckRemove(w) \/ BuryRemove(w)
    <2>1. /\ hand[w] \in Tasks /\ Unlisted(hand[w]) /\ UNCHANGED <<deadline, hand>>
          /\ pc[w] # "stamp"
        BY <1>0, <1>7 DEF AckRemove, BuryRemove
    <2>2. Moves(w)
        BY <1>0, <1>7, <2>1, NoneIsNoTask
           DEF AckRemove, BuryRemove, Goto, Moves, ControlOK
    <2>3. QED BY <1>0, <2>1, <2>2, ClaimsUnlisted
<1>8. CASE AckForget(w)
    <2>1. /\ hand[w] \in Tasks /\ processing[hand[w]] = 0 /\ UNCHANGED processing
          /\ deadline' = [deadline EXCEPT ![hand[w]] = "none"]
          /\ pc[w] # "stamp"
        BY <1>0, <1>8 DEF AckForget, Claims, Unlisting
    <2>2. Moves(w) /\ pc'[w] = "idle"
        BY <1>8 DEF AckForget, Goto, Drop, Moves, ControlOK
    <2>3. QED BY <2>1, <2>2, ClaimsForgotten
<1>9. QED
    BY <1>1, <1>2, <1>3, <1>4, <1>5, <1>6, <1>7, <1>8 DEF WorkerNext, Pop

\* The steps of the reaper keep Claims.
LEMMA ClaimsReaper ==
    ASSUME TypeOK, Ownership, Claims, NEW r \in Reapers, ReaperNext(r)
    PROVE  Claims'
<1> r \in Actors /\ r \notin Workers
    BY ActorsAreDistinct DEF Actors
<1> USE DEF redis, history, WorkerSteps, ReaperSteps, Holding
<1> StoreOK /\ ControlOK /\ OneHolder
    BY DEF TypeOK, Ownership
<1>0. pc[r] \in Holding => hand[r] \in Tasks
    BY InHand
<1>1. CASE Survey(r) \/ Sweep(r) \/ ReapPush(r)
    <2>1. Moves(r)
        <3>1. CASE Survey(r)
            BY <3>1 DEF Survey, Goto, Moves, ControlOK
        <3>2. CASE Sweep(r)
            BY <3>2, NoneIsNoTask DEF Sweep, Onward, Goto, Moves, ControlOK
        <3>3. CASE ReapPush(r)
            BY <3>3 DEF ReapPush, Onward, Goto, Drop, Moves, ControlOK
        <3>4. QED BY <1>1, <3>1, <3>2, <3>3
    <2>2. /\ UNCHANGED <<processing, deadline>>
          /\ pc[r] # "stamp" /\ pc'[r] \notin {"forget", "clear"}
        BY <1>1 DEF Survey, Sweep, ReapPush, Onward, Goto, ControlOK
    <2>3. QED BY <2>1, <2>2, ClaimsMove
<1>2. CASE ReapRemove(r)
    <2>1. /\ hand[r] \in Tasks /\ Unlisted(hand[r]) /\ UNCHANGED <<deadline, hand>>
          /\ pc[r] # "stamp"
        BY <1>0, <1>2 DEF ReapRemove
    <2>2. Moves(r)
        BY <1>0, <1>2, <2>1, NoneIsNoTask DEF ReapRemove, Goto, Moves, ControlOK
    <2>3. QED BY <2>1, <2>2, ClaimsUnlisted
<1>3. CASE ReapForget(r)
    <2>1. /\ hand[r] \in Tasks /\ processing[hand[r]] = 0 /\ UNCHANGED processing
          /\ deadline' = [deadline EXCEPT ![hand[r]] = "none"]
          /\ pc[r] # "stamp"
        BY <1>0, <1>3 DEF ReapForget, Claims, Unlisting
    <2>2. Moves(r) /\ pc'[r] = "return"
        BY <1>0, <1>3, NoneIsNoTask DEF ReapForget, Goto, Drop, Moves, ControlOK
    <2>3. QED BY <2>1, <2>2, ClaimsForgotten
<1>4. QED BY <1>1, <1>2, <1>3 DEF ReaperNext

\* Publishing, the clock, an error or a death away from the HSET keep Claims.
LEMMA ClaimsEnvironment ==
    ASSUME TypeOK, Claims, "stamp" \notin CrashAt \cup FailAt,
           \/ \E t \in Tasks : Publish(t) \/ Clock(t)
           \/ \E a \in Actors : CommandRaises(a) \/ Crash(a)
    PROVE  Claims'
<1> USE DEF redis, history, WorkerSteps, ReaperSteps, Holding
<1> StoreOK /\ ControlOK
    BY DEF TypeOK
<1>1. ASSUME NEW t \in Tasks, Publish(t) \/ Clock(t) PROVE Claims'
    <2>1. UNCHANGED <<processing, pc, hand>>
        BY <1>1 DEF Publish, Clock, DelayElapses, DeadlinePasses
    <2>2. \A u \in Tasks : deadline[u] # "none" => deadline'[u] # "none"
        BY <1>1 DEF Publish, Clock, DelayElapses, DeadlinePasses, StoreOK
    <2>3. QED BY <2>1, <2>2 DEF Claims, Unlisting, Visible
<1>2. ASSUME NEW a \in Actors, CommandRaises(a) PROVE Claims'
    <2>1. UNCHANGED <<processing, deadline>> /\ pc[a] # "stamp" /\ pc[a] \in DOMAIN ErrorExit
        BY <1>2 DEF CommandRaises
    <2>2. CASE a \in Workers
        <3>1. a \notin Reapers /\ Home(a) = "idle"
            BY <2>2, ActorsAreDistinct DEF Home
        <3>2. CASE ErrorExit[pc[a]] = "idle"
            <4>1. Moves(a) /\ pc'[a] = "idle"
                BY <1>2, <3>1, <3>2 DEF CommandRaises, Drop, Goto, Moves, ControlOK
            <4>2. QED BY <2>1, <4>1, ClaimsMove
        <3>3. CASE ErrorExit[pc[a]] # "idle"
            <4>1. /\ ErrorExit[pc[a]] \in {"postpone", "entomb"}
                  /\ pc[a] \in {"unlist", "bury"}
                BY <2>1, <2>2, <3>3 DEF ErrorExit, ControlOK
            <4>2. Goto(a, ErrorExit[pc[a]]) /\ UNCHANGED <<hand, seen>>
                BY <1>2, <3>1, <3>3 DEF CommandRaises
            <4>3. Moves(a) /\ pc'[a] \in {"postpone", "entomb"}
                BY <3>1, <4>1, <4>2 DEF Goto, Moves, ControlOK
            <4>4. QED BY <2>1, <4>3, ClaimsMove
        <3>4. QED BY <3>2, <3>3
    <2>3. CASE a \in Reapers
        <3>1. a \notin Workers /\ Home(a) = "rest"
            BY <2>3, ActorsAreDistinct DEF Home
        <3>2. pc[a] \in ReaperSteps
            BY <2>3 DEF ControlOK
        <3>3. ErrorExit[pc[a]] = "rest"
            BY <2>1, <3>2 DEF ErrorExit
        <3>4. Drop(a) /\ UNCHANGED seen /\ Onward(a)
            BY <1>2, <2>3, <3>1, <3>3 DEF CommandRaises
        <3>5. Moves(a) /\ pc'[a] \in {"rest", "sweep"}
            BY <3>1, <3>4 DEF Onward, Goto, Drop, Moves, ControlOK
        <3>6. QED BY <2>1, <3>5, ClaimsMove
    <2>4. QED BY <2>2, <2>3, InHand
<1>3. ASSUME NEW a \in Actors, Crash(a) PROVE Claims'
    <2>1. /\ a \in Workers => Home(a) \in WorkerSteps
          /\ a \in Reapers => Home(a) \in ReaperSteps
          /\ Home(a) \in {"idle", "rest"}
        BY ActorsAreDistinct DEF Home
    <2>2. Moves(a) /\ pc'[a] \in {"idle", "rest"}
        BY <1>3, <2>1 DEF Crash, Goto, Drop, Moves, ControlOK
    <2>3. UNCHANGED <<processing, deadline>> /\ pc[a] # "stamp"
        BY <1>3 DEF Crash
    <2>4. QED BY <2>2, <2>3, ClaimsMove
<1>4. QED BY <1>1, <1>2, <1>3

\* Every step of a run on time keeps Claims.
LEMMA ClaimsStep == TypeOK /\ OwnedOnTime /\ ClaimsOnTime /\ [Next]_vars => ClaimsOnTime'
<1> SUFFICES ASSUME TypeOK, OwnedOnTime, ClaimsOnTime, [Next]_vars, OnTime',
                    "stamp" \notin CrashAt \cup FailAt
             PROVE  Claims'
    BY DEF ClaimsOnTime
<1>1. OnTime /\ Ownership /\ Claims
    BY OnTimeBefore DEF OwnedOnTime, ClaimsOnTime, TypeOK
<1>2. CASE UNCHANGED vars
    BY <1>1, <1>2 DEF vars, redis, history, Claims, Unlisting, Visible
<1>3. CASE Next
    BY <1>1, <1>3, ClaimsWorker, ClaimsReaper, ClaimsEnvironment DEF Next
<1>4. QED BY <1>2, <1>3

\* Watched holds in every reachable state: with one reaper, workers on time, no
\* requeue and no HSET cut short, the reaper can find every task of the
\* processing list, whatever else dies or raises.
THEOREM ReaperSeesEveryClaim == Spec => []Watched
<1>1. Init => ClaimsOnTime
    BY DEF Init, ClaimsOnTime, Claims, Unlisting, Actors, Home
<1>2. ClaimsOnTime => Watched
    BY DEF ClaimsOnTime, OnTime, Claims, Visible, Watched
<1>3. QED BY TypeCorrect, OwnershipHolds, <1>1, ClaimsStep, <1>2, PTL DEF Spec

----------------------------------------------------------------------------
(* An outcome is final *)

Settled == finished \cup buried

\* The strengthening that makes OutcomesFinal inductive: a settled task is in the
\* processing list only until the LREM of its ack, and who is past the LREM of an
\* ack or of a burial knows that its task is not there.
SettledAside ==
    /\ finished \cap buried = {}
    /\ Settled \subseteq published /\ Settled \cap Range(queue) = {}
    /\ \A t \in Settled : processing[t] > 0 => \E w \in Workers : hand[w] = t /\ pc[w] = "ack"
    /\ \A a \in Actors : hand[a] \in Settled => pc[a] \in {"ack", "forget"}
    /\ \A w \in Workers : pc[w] \in {"forget", "entomb"} => processing[hand[w]] = 0

NoLremCut == "ack" \notin CrashAt \cup FailAt /\ "bury" \notin FailAt

SettledOnTime == OnTime /\ NoLremCut => SettledAside

\* A step of process a that settles nothing, puts no settled task into a list and
\* does not leave an ack without its LREM keeps SettledAside.
LEMMA SettledMove ==
    ASSUME TypeOK, SettledAside, NEW a \in Actors, Moves(a),
           UNCHANGED <<finished, buried, published>>, Settled \cap Range(queue') = {},
           \A t \in Tasks : \/ processing'[t] \in {0, processing[t]}
                            \/ t \notin Settled /\ \A b \in Actors : b # a => hand[b] # t,
           pc[a] = "ack" => pc'[a] = "ack" \/ processing'[hand[a]] = 0,
           pc[a] = "ack" => hand'[a] \in {hand[a], None},
           hand'[a] \in Settled => pc'[a] \in {"ack", "forget"},
           a \in Workers /\ pc'[a] \in {"forget", "entomb"} => processing'[hand'[a]] = 0
    PROVE  SettledAside'
<1> USE DEF SettledAside, Settled, WorkerSteps, Holding
<1>1. StoreOK /\ ControlOK /\ finished \cup buried \subseteq Tasks
    BY DEF TypeOK, StoreOK
<1>2. /\ \A b \in Actors : b # a => pc'[b] = pc[b] /\ hand'[b] = hand[b]
      /\ \A w \in Workers : w \in Actors
    BY <1>1 DEF Moves, ControlOK, Actors
<1>3. ASSUME NEW t \in finished \cup buried, processing'[t] > 0
      PROVE  \E w \in Workers : hand'[w] = t /\ pc'[w] = "ack"
    <2>1. t \in Tasks /\ processing'[t] = processing[t]
        BY <1>1, <1>3
    <2>2. PICK w \in Workers : hand[w] = t /\ pc[w] = "ack"
        BY <1>3, <2>1
    <2>3. CASE w = a
        <3>1. pc'[a] = "ack"
            BY <1>3, <2>2, <2>3
        <3>2. hand'[a] = hand[a]
            BY <2>2, <2>3, <3>1 DEF Moves
        <3>3. QED BY <2>2, <2>3, <3>1, <3>2
    <2>4. CASE w # a
        BY <1>2, <2>2, <2>4
    <2>5. QED BY <2>3, <2>4
<1>4. \A b \in Actors : hand'[b] \in finished \cup buried => pc'[b] \in {"ack", "forget"}
    BY <1>2
<1>5. ASSUME NEW w \in Workers, pc'[w] \in {"forget", "entomb"}
      PROVE  processing'[hand'[w]] = 0
    <2>1. CASE w = a
        BY <1>5, <2>1
    <2>2. CASE w # a
        <3>1. PICK t \in Tasks : t = hand[w] /\ processing[t] = 0
            BY <1>1, <1>2, <1>5, <2>2, InHand
        <3>2. hand'[w] = t /\ processing'[t] = 0
            BY <1>2, <2>2, <3>1
        <3>3. QED BY <3>2
    <2>3. QED BY <2>1, <2>2
<1>6. QED BY <1>3, <1>4, <1>5

\* The step that settles the task of a worker keeps SettledAside: the task was not
\* settled, nobody else holds it, and the worker keeps it for its ack or has
\* removed it from the processing list.
LEMMA SettledNow ==
    ASSUME TypeOK, Ownership, SettledAside, NEW w \in Workers, Moves(w), hand[w] \in Tasks,
           pc[w] \in {"work", "entomb"}, UNCHANGED <<queue, processing, published>>,
           \/ finished' = finished \cup {hand[w]} /\ UNCHANGED buried
           \/ buried' = buried \cup {hand[w]} /\ UNCHANGED finished,
           \/ UNCHANGED hand /\ pc'[w] = "ack"
           \/ hand'[w] = None /\ pc[w] = "entomb" /\ pc'[w] = "idle"
    PROVE  SettledAside'
<1> USE DEF SettledAside, Settled
<1> w \in Actors /\ StoreOK /\ ControlOK
    BY DEF Actors, TypeOK
<1>1. PICK t \in Tasks : t = hand[w]
    OBVIOUS
<1>2. /\ t \notin finished \cup buried /\ t # None
      /\ \A b \in Actors : b # w => hand[b] # t /\ hand'[b] = hand[b] /\ pc'[b] = pc[b]
      /\ \A v \in Workers : v \in Actors
    BY <1>1, NoneIsNoTask DEF Ownership, OneHolder, Moves, ControlOK, Actors
<1>3. t \in published /\ t \notin Range(queue)
    BY <1>1 DEF Ownership, QueueLoose, Loose
<1>4. /\ finished' \cup buried' = (finished \cup buried) \cup {t}
      /\ finished' \cap buried' = {}
    BY <1>1, <1>2
<1>5. ASSUME NEW u \in finished' \cup buried', processing'[u] > 0
      PROVE  \E v \in Workers : hand'[v] = u /\ pc'[v] = "ack"
    <2>1. CASE u = t
        <3>1. UNCHANGED hand /\ pc'[w] = "ack"
            BY <1>1, <1>5, <2>1 DEF StoreOK
        <3>2. QED BY <1>1, <2>1, <3>1
    <2>2. CASE u # t
        <3>1. PICK v \in Workers : hand[v] = u /\ pc[v] = "ack"
            BY <1>4, <1>5, <2>2
        <3>2. v # w
            BY <3>1
        <3>3. QED BY <1>2, <3>1, <3>2
    <2>3. QED BY <2>1, <2>2
<1>6. ASSUME NEW b \in Actors, hand'[b] \in finished' \cup buried'
      PROVE  pc'[b] \in {"ack", "forget"}
    <2>1. CASE b = w
        BY <1>6, <2>1, NoneIsNoTask DEF StoreOK
    <2>2. CASE b # w
        BY <1>2, <1>4, <1>6, <2>2
    <2>3. QED BY <2>1, <2>2
<1>7. \A v \in Workers : pc'[v] \in {"forget", "entomb"} => processing'[hand'[v]] = 0
    BY <1>2
<1>8. QED BY <1>3, <1>4, <1>5, <1>6, <1>7

\* The steps of a worker keep SettledAside.
LEMMA SettledWorker ==
    ASSUME TypeOK, Ownership, SettledAside, OnTime', NEW w \in Workers,
           WorkerNext(w) \/ PopFallback(w)
    PROVE  SettledAside'
<1> w \in Actors /\ w \notin Reapers
    BY ActorsAreDistinct DEF Actors
<1> USE DEF redis, history, WorkerSteps, ReaperSteps, Holding
<1> StoreOK /\ ControlOK
    BY DEF TypeOK
<1>0. /\ pc[w] \in Holding => hand[w] \in Tasks
      /\ pc[w] \notin {"promote", "unlist", "postpone"}
      /\ None \notin Settled /\ Settled \cap Range(queue) = {}
      /\ hand[w] \in Settled => pc[w] \in {"ack", "forget"}
      /\ pc[w] \in {"forget", "entomb"} => processing[hand[w]] = 0
    BY InHand, NoneIsNoTask DEF Ownership, WorkersHold, SettledAside, StoreOK, Settled
<1>1. CASE Scan(w) \/ (Pop(w) /\ queue = <<>>) \/ Stamp(w) \/ Raise(w) \/ AckForget(w)
    <2>1. Moves(w) /\ pc[w] # "ack" /\ pc'[w] \notin {"forget", "entomb"}
        BY <1>0, <1>1, NoneIsNoTask, NoRequeueNow
           DEF Scan, Pop, Stamp, Raise, AckForget, Goto, Drop, Moves, ControlOK
    <2>2. UNCHANGED <<queue, processing, finished, buried, published>>
        BY <1>1 DEF Scan, Pop, Stamp, Raise, AckForget
    <2>3. hand'[w] \notin Settled
        BY <1>0, <1>1 DEF Scan, Pop, Stamp, Raise, AckForget, Drop, ControlOK
    <2>4. QED BY <1>0, <2>1, <2>2, <2>3, SettledMove
<1>2. CASE Promote(w) \/ PassBack(w) \/ RequeueRemove(w) \/ RequeueDelay(w)
    BY <1>0, <1>2, NoRequeueNow DEF Promote, PassBack, RequeueRemove, RequeueDelay
<1>3. CASE (Pop(w) \/ PopFallback(w)) /\ queue # <<>>
    <2>1. PICK t \in Tasks : t = queue[Len(queue)] /\ Range(queue) = Range(queue') \cup {t}
        BY <1>3, RangeFront DEF Pop, PopFallback, StoreOK
    <2>2. t \notin Settled /\ \A b \in Actors : hand[b] # t
        BY <1>0, <2>1 DEF Ownership, QueueLoose, Loose
    <2>3. /\ hand' = [hand EXCEPT ![w] = t] /\ pc' = [pc EXCEPT ![w] = pc'[w]]
          /\ UNCHANGED <<seen, finished, buried, published>>
          /\ pc[w] # "ack" /\ pc'[w] \in {"store", "stamp"}
        BY <1>3, <2>1 DEF Pop, PopFallback, Goto, ControlOK
    <2>4. Moves(w) /\ hand'[w] = t
        BY <2>3, NoneIsNoTask DEF Moves, ControlOK
    <2>5. UNCHANGED processing \/ processing' = [processing EXCEPT ![t] = @ + 1]
        BY <1>3, <2>1 DEF Pop, PopFallback
    <2>6. \A u \in Tasks : u = t \/ processing'[u] = processing[u]
        BY <2>5 DEF StoreOK
    <2>7. QED BY <1>0, <2>1, <2>2, <2>3, <2>4, <2>6, SettledMove
<1>4. CASE Store(w)
    <2>1. PICK t \in Tasks : t = hand[w]
        BY <1>0, <1>4 DEF Store
    <2>2. t \notin Settled /\ \A b \in Actors : b # w => hand[b] # t
        BY <1>0, <1>4, <2>1, NoneIsNoTask DEF Store, Ownership, OneHolder
    <2>3. /\ UNCHANGED <<queue, hand, seen, finished, buried, published>>
          /\ pc' = [pc EXCEPT ![w] = "stamp"] /\ pc[w] # "ack"
          /\ \A u \in Tasks : u = t \/ processing'[u] = processing[u]
        BY <1>4, <2>1 DEF Store, Goto, StoreOK
    <2>4. Moves(w) /\ hand'[w] = t /\ pc'[w] = "stamp"
        BY <2>1, <2>3, NoneIsNoTask DEF Moves, ControlOK
    <2>5. QED BY <1>0, <2>2, <2>3, <2>4, SettledMove
<1>5. CASE AckRemove(w) \/ BuryRemove(w)
    <2>1. PICK t \in Tasks : t = hand[w]
        BY <1>0, <1>5 DEF AckRemove, BuryRemove
    <2>2. /\ UNCHANGED <<queue, hand, seen, finished, buried, published>>
          /\ pc' = [pc EXCEPT ![w] = pc'[w]]
          /\ \/ pc[w] = "ack" /\ pc'[w] = "forget"
             \/ pc[w] = "bury" /\ pc'[w] = "entomb"
          /\ processing'[t] = 0
          /\ \A u \in Tasks : u = t \/ processing'[u] = processing[u]
        BY <1>5, <2>1 DEF AckRemove, BuryRemove, Unlisted, Goto, StoreOK, ControlOK
    <2>3. Moves(w) /\ hand'[w] = t
        BY <2>1, <2>2, NoneIsNoTask DEF Moves, ControlOK
    <2>4. hand'[w] \in Settled => pc'[w] = "forget"
        BY <1>0, <2>2
    <2>5. \A u \in Tasks : processing'[u] \in {0, processing[u]}
        BY <2>2
    <2>6. processing'[hand'[w]] = 0 /\ processing'[hand[w]] = 0 /\ pc'[w] # "ack"
        BY <2>1, <2>2, <2>3
    <2>7. QED BY <1>0, <2>2, <2>3, <2>4, <2>5, <2>6, SettledMove
<1>6. CASE Succeed(w)
    <2>1. /\ hand[w] \in Tasks /\ pc[w] = "work"
          /\ finished' = finished \cup {hand[w]} /\ pc' = [pc EXCEPT ![w] = "ack"]
          /\ UNCHANGED <<queue, processing, hand, seen, published, buried>>
        BY <1>0, <1>6 DEF Succeed, Goto
    <2>2. Moves(w) /\ pc'[w] = "ack"
        BY <2>1, NoneIsNoTask DEF Moves, ControlOK
    <2>3. QED BY <2>1, <2>2, SettledNow
<1>7. CASE BuryPush(w)
    <2>1. /\ hand[w] \in Tasks /\ pc[w] = "entomb"
          /\ buried' = buried \cup {hand[w]} /\ pc' = [pc EXCEPT ![w] = "idle"]
          /\ hand' = [hand EXCEPT ![w] = None]
          /\ UNCHANGED <<queue, processing, seen, published, finished>>
        BY <1>0, <1>7 DEF BuryPush, Goto, Drop
    <2>2. Moves(w) /\ pc'[w] = "idle" /\ hand'[w] = None
        BY <2>1 DEF Moves, ControlOK
    <2>3. QED BY <2>1, <2>2, SettledNow
<1>8. QED
    BY <1>1, <1>2, <1>3, <1>4, <1>5, <1>6, <1>7 DEF WorkerNext, Pop, PopFallback

\* The steps of the reaper keep SettledAside: the deadline of a task that waits
\* for its ack has not passed, so the reaper does not take it.
LEMMA SettledReaper ==
    ASSUME TypeOK, Ownership, SettledAside, NEW r \in Reapers, ReaperNext(r)
    PROVE  SettledAside'
<1> r \in Actors /\ r \notin Workers
    BY ActorsAreDistinct DEF Actors
<1> USE DEF redis, history, WorkerSteps, ReaperSteps, Holding
<1> StoreOK /\ ControlOK
    BY DEF TypeOK
<1>0. /\ pc[r] \in Holding => hand[r] \in Tasks
      /\ pc[r] \in ReaperSteps /\ hand[r] \notin Settled
      /\ None \notin Settled /\ Settled \cap Range(queue) = {}
    BY InHand, NoneIsNoTask DEF ControlOK, SettledAside, StoreOK, Settled
<1>1. CASE Survey(r) \/ ReapForget(r)
    <2>1. Moves(r)
        BY <1>0, <1>1, NoneIsNoTask DEF Survey, ReapForget, Goto, Moves, ControlOK
    <2>2. UNCHANGED <<queue, processing, finished, buried, published, hand>>
        BY <1>1 DEF Survey, ReapForget
    <2>3. QED BY <1>0, <2>1, <2>2, SettledMove
<1>2. CASE Sweep(r)
    <2>1. Moves(r)
        BY <1>2, NoneIsNoTask DEF Sweep, Onward, Goto, Moves, ControlOK
    <2>2. UNCHANGED <<queue, processing, finished, buried, published>>
        BY <1>2 DEF Sweep
    <2>3. PICK t \in seen[r] :
            \/ processing[t] > 0 /\ hand' = [hand EXCEPT ![r] = t]
            \/ UNCHANGED hand
        BY <1>2 DEF Sweep
    <2>4. CASE UNCHANGED hand
        BY <1>0, <2>1, <2>2, <2>4, SettledMove
    <2>5. CASE processing[t] > 0 /\ hand' = [hand EXCEPT ![r] = t]
        <3>1. deadline[t] = "passed" /\ t \in Tasks
            BY DEF Ownership, ReapersHold, ControlOK
        <3>2. ~ \E w \in Workers : hand[w] = t
            BY <3>1, NoneIsNoTask DEF Ownership, WorkersHold
        <3>3. t \notin Settled
            BY <2>5, <3>2 DEF SettledAside
        <3>4. hand'[r] = t
            BY <2>5 DEF ControlOK
        <3>5. QED BY <1>0, <2>1, <2>2, <3>3, <3>4, SettledMove
    <2>6. QED BY <2>3, <2>4, <2>5
<1>3. CASE ReapRemove(r)
    <2>1. Moves(r)
        BY <1>0, <1>3, NoneIsNoTask DEF ReapRemove, Goto, Moves, ControlOK
    <2>2. /\ UNCHANGED <<queue, hand, finished, buried, published>>
          /\ \A u \in Tasks : processing'[u] \in {0, processing[u]}
        BY <1>0, <1>3 DEF ReapRemove, Unlisted, StoreOK
    <2>3. QED BY <1>0, <2>1, <2>2, SettledMove
<1>4. CASE ReapPush(r)
    <2>1. Moves(r) /\ hand'[r] = None
        BY <1>4 DEF ReapPush, Onward, Goto, Drop, Moves, ControlOK
    <2>2. UNCHANGED <<processing, finished, buried, published>>
        BY <1>4 DEF ReapPush
    <2>3. PICK t \in Tasks : t = hand[r] /\ queue' = <<t>> \o queue
        BY <1>0, <1>4 DEF ReapPush
    <2>4. <<t>> \in Seq(Tasks) /\ Range(<<t>>) = {t}
        BY DEF Range
    <2>5. Range(queue') = {t} \cup Range(queue)
        BY <2>3, <2>4, RangeConcat DEF StoreOK
    <2>6. QED BY <1>0, <2>1, <2>2, <2>3, <2>5, SettledMove
<1>5. QED BY <1>1, <1>2, <1>3, <1>4 DEF ReaperNext

\* Publishing, the clock, and an error or a death away from the LREM of an outcome
\* keep SettledAside.
LEMMA SettledEnvironment ==
    ASSUME TypeOK, Ownership, SettledAside, NoLremCut,
           \/ \E t \in Tasks : Publish(t) \/ Clock(t)
           \/ \E a \in Actors : CommandRaises(a) \/ Crash(a)
    PROVE  SettledAside'
<1> USE DEF redis, history, WorkerSteps, ReaperSteps, Holding
<1> StoreOK /\ ControlOK
    BY DEF TypeOK
<1>0. None \notin Settled /\ Settled \cap Range(queue) = {}
    BY NoneIsNoTask DEF SettledAside, StoreOK, Settled
<1>1. ASSUME NEW t \in Tasks, Publish(t) \/ Clock(t) PROVE SettledAside'
    <2>1. UNCHANGED <<processing, pc, hand, finished, buried>>
        BY <1>1 DEF Publish, Clock, DelayElapses, DeadlinePasses
    <2>2. published \subseteq published' /\ Settled \cap Range(queue') = {}
        <3>1. CASE Publish(t)
            BY <1>0, <3>1, RangeAppend DEF Publish, StoreOK, SettledAside
        <3>2. CASE Clock(t)
            BY <1>0, <3>2 DEF Clock, DelayElapses, DeadlinePasses
        <3>3. QED BY <1>1, <3>1, <3>2
    <2>3. QED BY <2>1, <2>2 DEF SettledAside, Settled
<1>2. ASSUME NEW a \in Actors, Moves(a), hand'[a] \in {hand[a], None}, pc[a] # "ack",
             pc'[a] \notin {"forget", "entomb"}, hand'[a] = hand[a] => pc[a] # "forget",
             UNCHANGED <<queue, processing, finished, buried, published>>
      PROVE  SettledAside'
    <2>1. hand'[a] \notin Settled
        BY <1>0, <1>2 DEF SettledAside
    <2>2. QED BY <1>0, <1>2, <2>1, SettledMove
<1>3. ASSUME NEW a \in Actors, CommandRaises(a) PROVE SettledAside'
    <2>1. /\ UNCHANGED <<queue, processing, finished, buried, published>>
          /\ pc[a] \notin {"ack", "bury"} /\ pc[a] \in DOMAIN ErrorExit
        BY <1>3 DEF CommandRaises, NoLremCut
    <2>2. CASE a \in Workers
        <3>1. a \notin Reapers /\ Home(a) = "idle"
            BY <2>2, ActorsAreDistinct DEF Home
        <3>2. CASE ErrorExit[pc[a]] = "idle"
            <4>1. Moves(a) /\ pc'[a] = "idle" /\ hand'[a] = None
                BY <1>3, <3>1, <3>2 DEF CommandRaises, Drop, Goto, Moves, ControlOK
            <4>2. hand'[a] = hand[a] => pc[a] # "forget"
                BY <4>1 DEF ControlOK
            <4>3. QED BY <1>2, <2>1, <4>1, <4>2
        <3>3. CASE ErrorExit[pc[a]] # "idle"
            <4>1. ErrorExit[pc[a]] = "work" /\ pc[a] = "stamp"
                BY <2>1, <2>2, <3>3 DEF ErrorExit, ControlOK, Ownership, WorkersHold
            <4>2. Goto(a, "work") /\ UNCHANGED <<hand, seen>>
                BY <1>3, <3>1, <4>1 DEF CommandRaises
            <4>3. Moves(a) /\ pc'[a] = "work" /\ hand'[a] = hand[a]
                BY <3>1, <4>1, <4>2 DEF Goto, Moves, ControlOK
            <4>4. QED BY <1>2, <2>1, <4>1, <4>3
        <3>4. QED BY <3>2, <3>3
    <2>3. CASE a \in Reapers
        <3>1. a \notin Workers /\ Home(a) = "rest" /\ pc[a] \in ReaperSteps
            BY <2>3, ActorsAreDistinct DEF Home, ControlOK
        <3>2. ErrorExit[pc[a]] = "rest"
            BY <2>1, <3>1 DEF ErrorExit
        <3>3. Drop(a) /\ UNCHANGED seen /\ Onward(a)
            BY <1>3, <2>3, <3>1, <3>2 DEF CommandRaises
        <3>4. Moves(a) /\ pc'[a] \in {"rest", "sweep"} /\ hand'[a] = None
            BY <3>1, <3>3 DEF Onward, Goto, Drop, Moves, ControlOK
        <3>5. QED BY <1>2, <2>1, <3>1, <3>4
    <2>4. QED BY <2>2, <2>3, InHand
<1>4. ASSUME NEW a \in Actors, Crash(a) PROVE SettledAside'
    <2>1. /\ a \in Workers => Home(a) \in WorkerSteps
          /\ a \in Reapers => Home(a) \in ReaperSteps
          /\ Home(a) \in {"idle", "rest"}
        BY ActorsAreDistinct DEF Home
    <2>2. Moves(a) /\ pc'[a] \in {"idle", "rest"} /\ hand'[a] = None
        BY <1>4, <2>1 DEF Crash, Goto, Drop, Moves, ControlOK
    <2>3. UNCHANGED <<queue, processing, finished, buried, published>> /\ pc[a] # "ack"
        BY <1>4 DEF Crash, NoLremCut
    <2>4. pc'[a] \notin {"forget", "entomb"} /\ (hand'[a] = hand[a] => pc[a] # "forget")
        BY <2>2 DEF ControlOK
    <2>5. QED BY <1>2, <2>2, <2>3, <2>4
<1>5. QED BY <1>1, <1>3, <1>4

\* Every step of a run on time keeps SettledAside.
LEMMA SettledStep == TypeOK /\ OwnedOnTime /\ SettledOnTime /\ [Next]_vars => SettledOnTime'
<1> SUFFICES ASSUME TypeOK, OwnedOnTime, SettledOnTime, [Next]_vars, OnTime', NoLremCut
             PROVE  SettledAside'
    BY DEF SettledOnTime, NoLremCut
<1>1. OnTime /\ Ownership /\ SettledAside
    BY OnTimeBefore DEF OwnedOnTime, SettledOnTime, TypeOK
<1>2. CASE UNCHANGED vars
    BY <1>1, <1>2 DEF vars, redis, history, SettledAside, Settled
<1>3. CASE Next
    BY <1>1, <1>3, SettledWorker, SettledReaper, SettledEnvironment DEF Next
<1>4. QED BY <1>2, <1>3

\* OutcomesFinal holds in every reachable state: with one reaper, workers on time
\* and no LREM of an ack or of a burial cut short, whatever else dies or raises, a
\* task that ended never runs again and does not end twice.
THEOREM OutcomesAreFinal == Spec => []OutcomesFinal
<1>1. Init => SettledOnTime
    BY DEF Init, SettledOnTime, SettledAside, Settled, Actors, Home
<1>2. SettledOnTime => OutcomesFinal
    BY DEF SettledOnTime, NoLremCut, SettledAside, Settled, OutcomesFinal
<1>3. QED BY TypeCorrect, OwnershipHolds, <1>1, SettledStep, <1>2, PTL DEF Spec

=============================================================================
