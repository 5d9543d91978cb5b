------------------------- MODULE MemoryQueue_proofs -------------------------
(***************************************************************************)
(* Proofs about MemoryQueue, for any tasks, workers and retry policy: that a *)
(* dead letter used up its attempts, that a published task is in exactly one *)
(* place, and that the queue and its workers implement JobQueue.             *)
(***************************************************************************)
EXTENDS MemoryQueue, SequenceTheorems, WellFoundedInduction, TLAPS

Types ==
    /\ tasks \in Seq(QueueTask) /\ dead \in Seq(Tasks)
    /\ stage \in [Workers -> {"workflow", "tool", "retry", "follow"}]
    /\ hand \in [Workers -> QueueTask \cup {None}]
    /\ published \subseteq Tasks /\ finished \subseteq published
    /\ runs \in [Tasks -> Nat] /\ passes \in [Tasks -> 0..MaxAttempts]

Holds(w, t) == hand[w] # None /\ hand[w].id = t
IsListed(t) == \E i \in DOMAIN tasks : tasks[i].id = t
IsDead(t) == \E i \in DOMAIN dead : dead[i] = t

\* A task is in one place at most: listed once, in one hand, finished or dead.
OnePlace ==
    /\ \A t \in Tasks : IsListed(t) =>
        t \in published \ finished /\ ~IsDead(t) /\ \A w \in Workers : ~Holds(w, t)
    /\ \A i, j \in DOMAIN tasks : tasks[i].id = tasks[j].id => i = j
    /\ \A t \in Tasks, w \in Workers : Holds(w, t) =>
        /\ t \in published \ finished /\ ~IsDead(t)
        /\ \A v \in Workers : Holds(v, t) => v = w
    /\ \A t \in Tasks : IsDead(t) => t \in published \ finished

\* The attempts a queue task counts: starts and hand-backs, and one start less
\* than it may still have.
WaitingCount(task) ==
    /\ runs[task.id] <= task.attempts
    /\ runs[task.id] < MaxAttempts
    /\ task.attempts <= runs[task.id] + passes[task.id]

RunningCount(task) ==
    /\ runs[task.id] \in 1..MaxAttempts
    /\ runs[task.id] <= task.attempts + 1
    /\ task.attempts + 1 <= runs[task.id] + passes[task.id]

Counts ==
    /\ \A i \in DOMAIN tasks : WaitingCount(tasks[i])
    /\ \A w \in Workers : hand[w] # None =>
        IF stage[w] = "retry" THEN WaitingCount(hand[w]) ELSE RunningCount(hand[w])
    /\ \A t \in Tasks \ published : runs[t] = 0

Inv == Types /\ OnePlace /\ Counts /\ DeadForCause

----------------------------------------------------------------------------
(* Delays *)

\* A set of naturals that is not empty has a least element.
LEMMA LeastNat ==
    ASSUME NEW T \in SUBSET Nat, T # {}
    PROVE  \E x \in T : \A y \in T : x <= y
<1> DEFINE R == {ss \in Nat \X Nat : ss[1] < ss[2]}
<1>1. IsWellFoundedOn(R, Nat)
    BY NatLessThanWellFounded DEF OpToRel
<1>2. PICK x \in T : \A y \in T : <<y, x>> \notin R
    <2> HIDE DEF R
    <2> QED BY <1>1, WFMin
<1>3. \A y \in T : ~(y < x)
    BY <1>2
<1>4. QED BY <1>3

\* Induction, for a set of naturals.
LEMMA NatSet ==
    ASSUME NEW T \in SUBSET Nat, 0 \in T, \A n \in Nat : n \in T => n + 1 \in T
    PROVE  T = Nat
<1>1. SUFFICES ASSUME Nat \ T # {} PROVE FALSE
    OBVIOUS
<1>2. PICK m \in Nat \ T : \A y \in Nat \ T : m <= y
    BY <1>1, LeastNat
<1>3. m - 1 \in Nat /\ m - 1 \notin Nat \ T
    BY <1>2
<1>4. QED BY <1>2, <1>3

\* The recurrence of Power up to n.
Doubles(h, n) ==
    /\ h \in [0..n -> Nat] /\ h[0] = 1
    /\ \A i \in 1..n : h[i] = 2 * h[i - 1]

\* It has a solution, and no two.
LEMMA DoublesOnce ==
    ASSUME NEW n \in Nat
    PROVE  /\ \E h : Doubles(h, n)
           /\ \A h, k : Doubles(h, n) /\ Doubles(k, n) => h = k
<1>1. \A m \in Nat : \E h : Doubles(h, m)
    <2> DEFINE T == {m \in Nat : \E h : Doubles(h, m)}
    <2>1. 0 \in T
        <3>1. Doubles([i \in 0..0 |-> 1], 0)
            BY DEF Doubles
        <3>2. QED BY <3>1
    <2>2. ASSUME NEW m \in T PROVE m + 1 \in T
        <3>1. PICK h : Doubles(h, m)
            OBVIOUS
        <3> DEFINE k == [i \in 0..m + 1 |-> IF i = m + 1 THEN 2 * h[m] ELSE h[i]]
        <3>2. m \in Nat /\ h \in [0..m -> Nat] /\ h[0] = 1 /\ \A i \in 1..m : h[i] = 2 * h[i - 1]
            BY <3>1 DEF Doubles
        <3>3. /\ \A i \in 0..m + 1 : k[i] \in Nat
              /\ k[0] = 1
            BY <3>2
        <3>4. k \in [0..m + 1 -> Nat]
            BY <3>3
        <3>5. ASSUME NEW i \in 1..m + 1 PROVE k[i] = 2 * k[i - 1]
            <4>1. CASE i = m + 1
                BY <3>2, <4>1
            <4>2. CASE i # m + 1
                BY <3>2, <4>2
            <4>3. QED BY <4>1, <4>2
        <3>6. Doubles(k, m + 1)
            BY <3>3, <3>4, <3>5 DEF Doubles
        <3>7. QED BY <3>2, <3>6
    <2> HIDE DEF T
    <2>3. T \in SUBSET Nat
        BY DEF T
    <2>4. T = Nat
        BY <2>1, <2>2, <2>3, NatSet
    <2>5. QED BY <2>4 DEF T
<1>2. ASSUME NEW h, NEW k, Doubles(h, n), Doubles(k, n) PROVE h = k
    <2> DEFINE T == {i \in Nat : i <= n => h[i] = k[i]}
    <2>1. 0 \in T
        BY <1>2 DEF Doubles
    <2>2. ASSUME NEW i \in T PROVE i + 1 \in T
        <3>1. CASE i + 1 <= n
            <4>1. i \in Nat /\ i <= n /\ h[i] = k[i] /\ i + 1 \in 1..n /\ (i + 1) - 1 = i
                BY <3>1
            <4>2. h[i + 1] = 2 * h[i] /\ k[i + 1] = 2 * k[i]
                BY <1>2, <4>1 DEF Doubles
            <4>3. QED BY <4>1, <4>2
        <3>2. CASE ~(i + 1 <= n)
            BY <3>2
        <3>3. QED BY <3>1, <3>2
    <2> HIDE DEF T
    <2>3. T \in SUBSET Nat
        BY DEF T
    <2>4. T = Nat
        BY <2>1, <2>2, <2>3, NatSet
    <2>5. \A i \in 0..n : h[i] = k[i]
        BY <2>4 DEF T
    <2>6. QED BY <1>2, <2>5 DEF Doubles
<1>3. QED BY <1>1, <1>2

\* Power is defined, and its values are naturals.
LEMMA PowerFacts == Power \in [Nat -> Nat]
<1> DEFINE h(n) == CHOOSE x : Doubles(x, n)
           f == [n \in Nat |-> h(n)[n]]
           Rec(g) == g = [n \in Nat |-> IF n = 0 THEN 1 ELSE 2 * g[n - 1]]
<1>1. \A n \in Nat : Doubles(h(n), n)
    BY DoublesOnce
<1> HIDE DEF h
<1>2. ASSUME NEW n \in Nat, n # 0 PROVE h(n)[n] = 2 * h(n - 1)[n - 1]
    <2>1. n - 1 \in Nat /\ n \in 1..n /\ n - 1 \in 0..(n - 1)
        BY <1>2
    <2> DEFINE k == [i \in 0..(n - 1) |-> h(n)[i]]
    <2>2. /\ h(n) \in [0..n -> Nat] /\ h(n)[0] = 1
          /\ \A i \in 1..n : h(n)[i] = 2 * h(n)[i - 1]
        BY <1>1 DEF Doubles
    <2>3. k \in [0..(n - 1) -> Nat] /\ k[0] = 1
        BY <2>1, <2>2
    <2>4. ASSUME NEW i \in 1..(n - 1) PROVE k[i] = 2 * k[i - 1]
        <3>1. i \in 1..n /\ i \in 0..(n - 1) /\ i - 1 \in 0..(n - 1)
            BY <2>1
        <3>2. QED BY <2>2, <3>1
    <2>5. Doubles(k, n - 1)
        BY <2>3, <2>4 DEF Doubles
    <2>6. k = h(n - 1)
        BY <1>1, <2>1, <2>5, DoublesOnce
    <2>7. h(n)[n - 1] = h(n - 1)[n - 1]
        BY <2>1, <2>6
    <2>8. QED BY <2>1, <2>2, <2>7
<1>3. \A n \in Nat : h(n)[n] \in Nat /\ (n = 0 => h(n)[n] = 1)
    BY <1>1 DEF Doubles
<1>4. f \in [Nat -> Nat]
    BY <1>3
<1>5. Rec(f)
    <2>1. ASSUME NEW n \in Nat PROVE f[n] = IF n = 0 THEN 1 ELSE 2 * f[n - 1]
        <3>1. CASE n = 0
            BY <1>3, <3>1
        <3>2. CASE n # 0
            <4>1. n - 1 \in Nat
                BY <3>2
            <4>2. f[n] = h(n)[n] /\ f[n - 1] = h(n - 1)[n - 1]
                BY <4>1
            <4>3. QED BY <1>2, <3>2, <4>2
        <3>3. QED BY <3>1, <3>2
    <2>2. f = [n \in Nat |-> f[n]]
        OBVIOUS
    <2> HIDE DEF f
    <2>3. QED BY <2>1, <2>2
<1> HIDE DEF f
<1>6. Power = CHOOSE g : Rec(g)
    BY DEF Power
<1> HIDE DEF Rec
<1>7. Rec(Power)
    BY <1>5, <1>6
<1>8. QED
    <2>1. Power = [n \in Nat |-> IF n = 0 THEN 1 ELSE 2 * Power[n - 1]]
        BY <1>7 DEF Rec
    <2>2. Power[0] = 1 /\ \A n \in Nat : Power[n + 1] = 2 * Power[n]
        BY <2>1
    <2> DEFINE T == {n \in Nat : Power[n] \in Nat}
    <2>3. 0 \in T /\ \A n \in Nat : n \in T => n + 1 \in T
        BY <2>2
    <2>4. T \in SUBSET Nat
        OBVIOUS
    <2> HIDE DEF T
    <2>5. T = Nat
        BY <2>3, <2>4, NatSet
    <2>6. \A n \in Nat : Power[n] \in Nat
        BY <2>5 DEF T
    <2>7. Power = [n \in Nat |-> Power[n]]
        BY <2>1
    <2>8. QED BY <2>6, <2>7

\* A delay is at most MaxDelay.
LEMMA DelayFits == ASSUME NEW n \in Nat PROVE NextDelay(n) \in 0..MaxDelay
<1> DEFINE p == Power[IF n > 1 THEN n - 1 ELSE 0]
<1>1. BaseDelay \in Nat /\ MaxDelay \in Nat
    BY PolicyIsNatural
<1>2. p \in Nat
    <2>1. (IF n > 1 THEN n - 1 ELSE 0) \in Nat
        OBVIOUS
    <2>2. QED BY <2>1, PowerFacts
<1>3. NextDelay(n) = IF BaseDelay * p < MaxDelay THEN BaseDelay * p ELSE MaxDelay
    BY DEF NextDelay
<1> HIDE DEF p
<1>4. BaseDelay * p \in Nat
    BY <1>1, <1>2
<1>5. QED BY <1>1, <1>3, <1>4

----------------------------------------------------------------------------
(* The list *)

\* RemoveAt closes the gap.
LEMMA RemoveAtFacts ==
    ASSUME NEW S, NEW s \in Seq(S), NEW i \in DOMAIN s
    PROVE  /\ RemoveAt(s, i) \in Seq(S)
           /\ Len(RemoveAt(s, i)) = Len(s) - 1
           /\ \A j \in 1..Len(s) - 1 : RemoveAt(s, i)[j] = s[IF j < i THEN j ELSE j + 1]
<1> DEFINE a == SubSeq(s, 1, i - 1)
           b == SubSeq(s, i + 1, Len(s))
<1>1. Len(s) \in Nat /\ i \in 1..Len(s) /\ \A k \in 1..Len(s) : s[k] \in S
    OBVIOUS
<1>2. a \in Seq(S) /\ Len(a) = i - 1 /\ \A j \in 1..i - 1 : a[j] = s[j]
    BY <1>1
<1>3. b \in Seq(S) /\ Len(b) = Len(s) - i /\ \A j \in 1..Len(s) - i : b[j] = s[i + j]
    BY <1>1
<1>4. RemoveAt(s, i) = a \o b
    BY DEF RemoveAt
<1> HIDE DEF a, b
<1>5. /\ a \o b \in Seq(S) /\ Len(a \o b) = Len(a) + Len(b)
      /\ \A j \in 1..Len(a) + Len(b) :
            (a \o b)[j] = IF j <= Len(a) THEN a[j] ELSE b[j - Len(a)]
    BY <1>2, <1>3, ConcatProperties
<1>6. ASSUME NEW j \in 1..Len(s) - 1 PROVE (a \o b)[j] = s[IF j < i THEN j ELSE j + 1]
    <2>1. j \in 1..Len(a) + Len(b)
        BY <1>1, <1>2, <1>3
    <2>2. CASE j < i
        BY <1>1, <1>2, <1>5, <2>1, <2>2
    <2>3. CASE ~(j < i)
        <3>1. j - Len(a) \in 1..Len(s) - i /\ i + (j - Len(a)) = j + 1 /\ ~(j <= Len(a))
            BY <1>1, <1>2, <2>3
        <3>2. QED BY <1>3, <1>5, <2>1, <2>3, <3>1
    <2>4. QED BY <2>2, <2>3
<1>7. Len(a \o b) = Len(s) - 1
    BY <1>1, <1>2, <1>3, <1>5
<1>8. QED BY <1>4, <1>5, <1>6, <1>7

\* A claim takes one task out of the list and leaves the others.
LEMMA ClaimFacts ==
    ASSUME Types, NEW w \in Workers, NEW kind, ClaimReady(w, kind)
    PROVE  \E i \in DOMAIN tasks :
                /\ hand' = [hand EXCEPT ![w] = tasks[i]]
                /\ tasks' \in Seq(QueueTask)
                /\ \A j \in DOMAIN tasks' : \E k \in DOMAIN tasks \ {i} : tasks'[j] = tasks[k]
                /\ (\A j, k \in DOMAIN tasks : tasks[j].id = tasks[k].id => j = k) =>
                        \A j, k \in DOMAIN tasks' : tasks'[j].id = tasks'[k].id => j = k
<1>1. PICK i \in DOMAIN tasks :
        hand' = [hand EXCEPT ![w] = tasks[i]] /\ tasks' = RemoveAt(tasks, i)
    BY DEF ClaimReady, Ready
<1>2. tasks \in Seq(QueueTask) /\ DOMAIN tasks = 1..Len(tasks) /\ Len(tasks) \in Nat
    BY DEF Types
<1>3. /\ tasks' \in Seq(QueueTask) /\ DOMAIN tasks' = 1..Len(tasks) - 1
      /\ \A j \in 1..Len(tasks) - 1 : tasks'[j] = tasks[IF j < i THEN j ELSE j + 1]
    <2> DEFINE r == RemoveAt(tasks, i)
    <2>1. /\ r \in Seq(QueueTask) /\ Len(r) = Len(tasks) - 1
          /\ \A j \in 1..Len(tasks) - 1 : r[j] = tasks[IF j < i THEN j ELSE j + 1]
        BY <1>2, RemoveAtFacts
    <2>2. tasks' = r
        BY <1>1
    <2> HIDE DEF r
    <2>3. DOMAIN r = 1..Len(tasks) - 1
        BY <2>1
    <2>4. QED BY <2>1, <2>2, <2>3
<1>4. \A j \in 1..Len(tasks) - 1 : (IF j < i THEN j ELSE j + 1) \in DOMAIN tasks \ {i}
    BY <1>1, <1>2
<1>5. \A j, k \in 1..Len(tasks) - 1 :
        (IF j < i THEN j ELSE j + 1) = (IF k < i THEN k ELSE k + 1) => j = k
    BY <1>1, <1>2
<1>6. ASSUME \A j, k \in DOMAIN tasks : tasks[j].id = tasks[k].id => j = k
      PROVE  \A j, k \in DOMAIN tasks' : tasks'[j].id = tasks'[k].id => j = k
    BY <1>3, <1>4, <1>5, <1>6
<1>7. \A j \in DOMAIN tasks' : \E k \in DOMAIN tasks \ {i} : tasks'[j] = tasks[k]
    BY <1>3, <1>4
<1>8. QED BY <1>1, <1>3, <1>6, <1>7

\* An append lists one task more.
LEMMA AppendFacts ==
    ASSUME Types, NEW task \in QueueTask, tasks' = Append(tasks, task)
    PROVE  /\ tasks' \in Seq(QueueTask)
           /\ \A j \in DOMAIN tasks' : tasks'[j] = task \/ (j \in DOMAIN tasks /\ tasks'[j] = tasks[j])
           /\ \E j \in DOMAIN tasks' : tasks'[j] = task
           /\ \A j \in DOMAIN tasks : j \in DOMAIN tasks' /\ tasks'[j] = tasks[j]
           /\ \A j, k \in DOMAIN tasks' : j \notin DOMAIN tasks /\ k \notin DOMAIN tasks => j = k
<1>1. tasks \in Seq(QueueTask) /\ DOMAIN tasks = 1..Len(tasks) /\ Len(tasks) \in Nat
    BY DEF Types
<1>2. /\ tasks' \in Seq(QueueTask) /\ DOMAIN tasks' = 1..Len(tasks) + 1
      /\ tasks'[Len(tasks) + 1] = task /\ \A j \in 1..Len(tasks) : tasks'[j] = tasks[j]
    BY <1>1
<1>3. QED BY <1>1, <1>2

\* What is listed is a queue task.
LEMMA ListedIsEntry ==
    ASSUME Types
    PROVE  \A j \in DOMAIN tasks : tasks[j] \in QueueTask /\ tasks[j].id \in Tasks
<1>1. \A j \in DOMAIN tasks : tasks[j] \in QueueTask
    BY DEF Types
<1>2. \A task \in QueueTask : task.id \in Tasks
    BY DEF QueueTask
<1>3. QED BY <1>1, <1>2

\* A queue task is not None.
LEMMA NotNone == \A task \in QueueTask : task # None
<1>1. QueueTask \subseteq [id : Tasks, attempts : Nat, wait : Int]
    BY DEF QueueTask
<1>2. QED BY <1>1, NoneIsNoTask

----------------------------------------------------------------------------
(* What the actions have in common *)

\* A claim moves a task from the list to a hand.
LEMMA ClaimStep ==
    ASSUME Types, OnePlace, NEW w \in Workers, NEW kind, hand[w] = None,
           ClaimReady(w, kind), UNCHANGED <<dead, stage, published, finished>>
    PROVE  /\ tasks' \in Seq(QueueTask) /\ hand' \in [Workers -> QueueTask \cup {None}]
           /\ OnePlace'
           /\ \A j \in DOMAIN tasks' : \E k \in DOMAIN tasks :
                    tasks'[j] = tasks[k] /\ tasks[k].id # hand'[w].id
           /\ \E i \in DOMAIN tasks : hand'[w] = tasks[i]
           /\ \A v \in Workers \ {w} : hand'[v] = hand[v]
<1>1. PICK i \in DOMAIN tasks :
        /\ hand' = [hand EXCEPT ![w] = tasks[i]]
        /\ tasks' \in Seq(QueueTask)
        /\ \A j \in DOMAIN tasks' : \E k \in DOMAIN tasks \ {i} : tasks'[j] = tasks[k]
        /\ (\A j, k \in DOMAIN tasks : tasks[j].id = tasks[k].id => j = k) =>
                \A j, k \in DOMAIN tasks' : tasks'[j].id = tasks'[k].id => j = k
    BY ClaimFacts
<1>2. \A j \in DOMAIN tasks : tasks[j] \in QueueTask /\ tasks[j].id \in Tasks
    BY ListedIsEntry
<1>3. /\ hand' \in [Workers -> QueueTask \cup {None}] /\ hand'[w] = tasks[i]
      /\ \A v \in Workers \ {w} : hand'[v] = hand[v]
    BY <1>1, <1>2 DEF Types
<1>4. \A j \in DOMAIN tasks' : \E k \in DOMAIN tasks :
        tasks'[j] = tasks[k] /\ tasks[k].id # tasks[i].id
    BY <1>1 DEF OnePlace
<1>5. \A t \in Tasks : IsListed(t)' => IsListed(t) /\ t # tasks[i].id
    BY <1>4 DEF IsListed
<1>6. \A t \in Tasks, v \in Workers :
        Holds(v, t)' <=> IF v = w THEN t = tasks[i].id ELSE Holds(v, t)
    BY <1>2, <1>3, NotNone DEF Holds
<1>7. \A t \in Tasks : IsDead(t)' = IsDead(t)
    BY DEF IsDead
<1>8. IsListed(tasks[i].id) /\ tasks[i].id \in Tasks
    BY <1>2 DEF IsListed
<1>9. \A t \in Tasks : IsListed(t)' =>
        t \in published' \ finished' /\ ~IsDead(t)' /\ \A v \in Workers : ~Holds(v, t)'
    BY <1>5, <1>6, <1>7 DEF OnePlace
<1>10. \A t \in Tasks, v \in Workers : Holds(v, t)' =>
        /\ t \in published' \ finished' /\ ~IsDead(t)'
        /\ \A u \in Workers : Holds(u, t)' => u = v
    BY <1>6, <1>7, <1>8 DEF OnePlace
<1>11. \A t \in Tasks : IsDead(t)' => t \in published' \ finished'
    BY <1>7 DEF OnePlace
<1>12. \A j, k \in DOMAIN tasks' : tasks'[j].id = tasks'[k].id => j = k
    BY <1>1 DEF OnePlace
<1>13. OnePlace'
    BY <1>9, <1>10, <1>11, <1>12 DEF OnePlace
<1>14. QED BY <1>1, <1>3, <1>4, <1>13

\* A job handed back moves from a hand to the list.
LEMMA HandBackStep ==
    ASSUME Types, OnePlace, NEW w \in Workers, hand[w] # None, Drop(w),
           NEW task \in QueueTask, task.id = hand[w].id, tasks' = Append(tasks, task),
           UNCHANGED <<dead, published, finished>>
    PROVE  hand' \in [Workers -> QueueTask \cup {None}] /\ OnePlace'
<1> DEFINE x == hand[w].id
<1>1. /\ hand' \in [Workers -> QueueTask \cup {None}] /\ hand'[w] = None
      /\ \A v \in Workers \ {w} : hand'[v] = hand[v]
    BY DEF Types, Drop
<1>2. /\ \A j \in DOMAIN tasks' : tasks'[j] = task \/ (j \in DOMAIN tasks /\ tasks'[j] = tasks[j])
      /\ \A j \in DOMAIN tasks : j \in DOMAIN tasks' /\ tasks'[j] = tasks[j]
      /\ \A j, k \in DOMAIN tasks' : j \notin DOMAIN tasks /\ k \notin DOMAIN tasks => j = k
    BY AppendFacts
<1>3. x \in Tasks /\ Holds(w, x)
    BY DEF Types, QueueTask, Holds
<1>4. \A t \in Tasks : IsListed(t)' => IsListed(t) \/ t = x
    BY <1>2 DEF IsListed
<1>5. \A t \in Tasks, v \in Workers : Holds(v, t)' => Holds(v, t) /\ v # w
    BY <1>1 DEF Holds
<1>6. \A t \in Tasks : IsDead(t)' = IsDead(t)
    BY DEF IsDead
<1>7. \A v \in Workers : Holds(v, x) => v = w
    BY <1>3 DEF OnePlace
<1>8. \A t \in Tasks : IsListed(t)' =>
        t \in published' \ finished' /\ ~IsDead(t)' /\ \A v \in Workers : ~Holds(v, t)'
    <2> TAKE t \in Tasks
    <2>1. CASE t = x BY <1>3, <1>5, <1>6, <1>7, <2>1 DEF OnePlace
    <2>2. CASE t # x BY <1>4, <1>5, <1>6, <2>2 DEF OnePlace
    <2>3. QED BY <2>1, <2>2
<1>9. \A t \in Tasks, v \in Workers : Holds(v, t)' =>
        /\ t \in published' \ finished' /\ ~IsDead(t)'
        /\ \A u \in Workers : Holds(u, t)' => u = v
    BY <1>5, <1>6 DEF OnePlace
<1>10. \A t \in Tasks : IsDead(t)' => t \in published' \ finished'
    BY <1>6 DEF OnePlace
<1>11. \A j \in DOMAIN tasks : tasks[j].id # x
    BY <1>3 DEF OnePlace, IsListed
<1>12. \A j, k \in DOMAIN tasks' : tasks'[j].id = tasks'[k].id => j = k
    BY <1>2, <1>11 DEF OnePlace
<1>13. QED BY <1>1, <1>8, <1>9, <1>10, <1>12 DEF OnePlace

\* A job that ends leaves the hand that held it, for the finished or the dead.
LEMMA EndStep ==
    ASSUME Types, OnePlace, NEW w \in Workers, hand[w] # None, Drop(w),
           UNCHANGED <<tasks, published>>,
           \/ finished' = finished \cup {hand[w].id} /\ UNCHANGED dead
           \/ dead' = Append(dead, hand[w].id) /\ UNCHANGED finished
    PROVE  /\ hand' \in [Workers -> QueueTask \cup {None}] /\ OnePlace'
           /\ dead' \in Seq(Tasks) /\ finished' \subseteq published'
           /\ \A i \in DOMAIN dead' : dead'[i] = hand[w].id \/ IsDead(dead'[i])
<1> DEFINE x == hand[w].id
<1>1. /\ hand' \in [Workers -> QueueTask \cup {None}] /\ hand'[w] = None
      /\ \A v \in Workers \ {w} : hand'[v] = hand[v]
    BY DEF Types, Drop
<1>2. x \in Tasks /\ Holds(w, x)
    BY DEF Types, QueueTask, Holds
<1>3. x \in published \ finished /\ ~IsDead(x) /\ ~IsListed(x)
    BY <1>2 DEF OnePlace
<1>4. \A t \in Tasks, v \in Workers : Holds(v, t)' => Holds(v, t) /\ t # x
    BY <1>1, <1>2 DEF Holds, OnePlace
<1>5. \A t \in Tasks : IsListed(t)' = IsListed(t)
    BY DEF IsListed
<1>6. dead' \in Seq(Tasks) /\ \A i \in DOMAIN dead' : dead'[i] = x \/ IsDead(dead'[i])
    <2>1. CASE UNCHANGED dead
        BY <2>1 DEF Types, IsDead
    <2>2. CASE dead' = Append(dead, x)
        BY <1>2, <2>2 DEF Types, IsDead
    <2>3. QED BY <2>1, <2>2
<1>7. \A t \in Tasks : IsDead(t)' => IsDead(t) \/ (t = x /\ UNCHANGED finished)
    <2>1. CASE UNCHANGED dead
        BY <2>1 DEF IsDead
    <2>2. CASE dead' = Append(dead, x) /\ UNCHANGED finished
        BY <1>6, <2>2 DEF IsDead
    <2>3. QED BY <2>1, <2>2
<1>8. finished' \subseteq finished \cup {x}
    OBVIOUS
<1>9. \A t \in Tasks : IsListed(t)' =>
        t \in published' \ finished' /\ ~IsDead(t)' /\ \A v \in Workers : ~Holds(v, t)'
    BY <1>3, <1>4, <1>5, <1>7, <1>8 DEF OnePlace
<1>10. \A t \in Tasks, v \in Workers : Holds(v, t)' =>
        /\ t \in published' \ finished' /\ ~IsDead(t)'
        /\ \A u \in Workers : Holds(u, t)' => u = v
    BY <1>4, <1>7, <1>8 DEF OnePlace
<1>11. \A t \in Tasks : IsDead(t)' => t \in published' \ finished'
    BY <1>3, <1>7, <1>8 DEF OnePlace
<1>12. \A j, k \in DOMAIN tasks' : tasks'[j].id = tasks'[k].id => j = k
    BY DEF OnePlace
<1>13. finished' \subseteq published'
    BY <1>3, <1>8 DEF Types
<1>14. QED BY <1>1, <1>6, <1>9, <1>10, <1>11, <1>12, <1>13 DEF OnePlace

----------------------------------------------------------------------------
(* Each step keeps the invariant *)

\* Queues, hands and counts start empty.
LEMMA InitInv == Init => Inv
<1> SUFFICES ASSUME Init PROVE Inv
    OBVIOUS
<1>1. MaxAttempts \in Nat \ {0} /\ DOMAIN tasks = {} /\ DOMAIN dead = {}
    BY PolicyIsNatural DEF Init
<1>2. Types
    BY <1>1 DEF Init, Types
<1>3. OnePlace
    BY <1>1 DEF Init, OnePlace, IsListed, IsDead, Holds
<1>4. Counts /\ DeadForCause
    BY <1>1 DEF Init, Counts, DeadForCause
<1>5. QED BY <1>2, <1>3, <1>4 DEF Inv

\* A published job is listed with no attempt counted.
LEMMA PublishInv == ASSUME Inv, NEW t \in Tasks, Publish(t) PROVE Inv'
<1> DEFINE task == [id |-> t, attempts |-> 0, wait |-> 0]
<1> USE DEF Inv
<1>1. MaxAttempts \in Nat \ {0} /\ task \in QueueTask /\ task.id = t
    BY PolicyIsNatural DEF QueueTask
<1>2. tasks' = Append(tasks, task) /\ t \notin published /\ published' = published \cup {t}
      /\ UNCHANGED <<dead, stage, hand, finished, runs, passes>>
    BY DEF Publish
<1> HIDE DEF task
<1>3. /\ tasks' \in Seq(QueueTask)
      /\ \A j \in DOMAIN tasks' : tasks'[j] = task \/ (j \in DOMAIN tasks /\ tasks'[j] = tasks[j])
      /\ \A j \in DOMAIN tasks : tasks'[j] = tasks[j]
      /\ \A j, k \in DOMAIN tasks' : j \notin DOMAIN tasks /\ k \notin DOMAIN tasks => j = k
    BY <1>1, <1>2, AppendFacts
<1>4. Types'
    BY <1>2, <1>3 DEF Types
<1>5. /\ \A u \in Tasks : IsListed(u)' => IsListed(u) \/ u = t
      /\ \A u \in Tasks : IsDead(u)' = IsDead(u)
      /\ \A u \in Tasks, w \in Workers : Holds(w, u)' = Holds(w, u)
    BY <1>1, <1>2, <1>3 DEF IsListed, IsDead, Holds
<1>6. ~IsListed(t) /\ ~IsDead(t) /\ t \notin finished /\ \A w \in Workers : ~Holds(w, t)
    BY <1>2 DEF OnePlace, Types
<1>7. OnePlace'
    <2>1. \A u \in Tasks : IsListed(u)' =>
            u \in published' \ finished' /\ ~IsDead(u)' /\ \A w \in Workers : ~Holds(w, u)'
        BY <1>2, <1>5, <1>6 DEF OnePlace
    <2>2. \A j, k \in DOMAIN tasks' : tasks'[j].id = tasks'[k].id => j = k
        <3>1. \A j \in DOMAIN tasks : tasks[j].id # t
            BY <1>6 DEF IsListed
        <3>2. \A j, k \in DOMAIN tasks : tasks[j].id = tasks[k].id => j = k
            BY DEF OnePlace
        <3>3. task.id = t
            BY <1>1
        <3>4. \A j \in DOMAIN tasks : tasks'[j].id = tasks[j].id
            BY <1>3
        <3>5. \A j \in DOMAIN tasks' \ DOMAIN tasks : tasks'[j].id = t
            BY <1>3, <3>3
        <3>6. QED BY <1>3, <3>1, <3>2, <3>4, <3>5
    <2>3. QED BY <1>2, <1>5, <2>1, <2>2 DEF OnePlace
<1>8. runs[t] \in Nat /\ passes[t] \in Nat
    BY <1>1 DEF Types
<1>9. WaitingCount(task)
    <2>1. task.attempts = 0
        BY DEF task
    <2>2. runs[t] = 0
        BY <1>2 DEF Counts
    <2>3. QED BY <1>1, <1>8, <2>1, <2>2 DEF WaitingCount
<1>10. Counts'
    BY <1>2, <1>3, <1>9 DEF Counts, WaitingCount, RunningCount
<1>11. DeadForCause'
    BY <1>2 DEF DeadForCause
<1>12. QED BY <1>4, <1>7, <1>10, <1>11

\* Time passes for the listed tasks alone.
LEMMA TickInv == ASSUME Inv, Tick PROVE Inv'
<1> USE DEF Inv
<1>1. /\ tasks' = [i \in DOMAIN tasks |-> [tasks[i] EXCEPT !.wait = IF @ > 0 THEN @ - 1 ELSE 0]]
      /\ UNCHANGED <<dead, stage, hand, published, finished, runs, passes>>
    BY DEF Tick
<1>2. tasks \in Seq(QueueTask) /\ DOMAIN tasks = 1..Len(tasks) /\ Len(tasks) \in Nat
    BY DEF Types
<1>3. \A i \in 1..Len(tasks) : /\ tasks'[i] \in QueueTask /\ tasks'[i].id = tasks[i].id
                                /\ tasks'[i].attempts = tasks[i].attempts
    <2>1. \A task \in QueueTask : LET later == [task EXCEPT !.wait = IF @ > 0 THEN @ - 1 ELSE 0]
                             IN  /\ later \in QueueTask /\ later.id = task.id
                                 /\ later.attempts = task.attempts
        BY PolicyIsNatural DEF QueueTask
    <2>2. \A i \in 1..Len(tasks) : tasks[i] \in QueueTask
        BY <1>2
    <2>3. QED BY <1>1, <1>2, <2>1, <2>2
<1>4. tasks' \in Seq(QueueTask) /\ DOMAIN tasks' = DOMAIN tasks
    BY <1>1, <1>2, <1>3
<1>5. Types'
    BY <1>1, <1>4 DEF Types
<1>6. /\ \A u \in Tasks : IsListed(u)' = IsListed(u)
      /\ \A u \in Tasks : IsDead(u)' = IsDead(u)
      /\ \A u \in Tasks, w \in Workers : Holds(w, u)' = Holds(w, u)
    BY <1>1, <1>2, <1>3, <1>4 DEF IsListed, IsDead, Holds
<1>7. OnePlace'
    BY <1>1, <1>2, <1>3, <1>4, <1>6 DEF OnePlace
<1>8. Counts'
    BY <1>1, <1>2, <1>3, <1>4 DEF Counts, WaitingCount, RunningCount
<1>9. DeadForCause'
    BY <1>1 DEF DeadForCause
<1>10. QED BY <1>5, <1>7, <1>8, <1>9

\* A claim that finds nothing only turns to the next stage.
LEMMA FindNoneInv == ASSUME Inv, NEW w \in Workers, FindNone(w) PROVE Inv'
<1> USE DEF Inv
<1>1. /\ hand[w] = None /\ stage' = [stage EXCEPT ![w] = AfterNone[stage[w]]]
      /\ UNCHANGED <<tasks, dead, hand, published, finished, runs, passes>>
    BY DEF FindNone, Goto
<1>2. AfterNone[stage[w]] \in {"workflow", "tool", "retry", "follow"}
    BY DEF AfterNone, Types
<1>3. Types'
    BY <1>1, <1>2 DEF Types
<1>4. OnePlace'
    BY <1>1 DEF OnePlace, IsListed, IsDead, Holds
<1>5. \A v \in Workers : hand[v] # None => stage'[v] = stage[v]
    BY <1>1 DEF Types
<1>6. Counts'
    BY <1>1, <1>5 DEF Counts, WaitingCount, RunningCount
<1>7. DeadForCause'
    BY <1>1 DEF DeadForCause
<1>8. QED BY <1>3, <1>4, <1>6, <1>7

\* The retry loop's claim counts nothing.
LEMMA GrabInv == ASSUME Inv, NEW w \in Workers, Grab(w) PROVE Inv'
<1> USE DEF Inv
<1>1. /\ hand[w] = None /\ stage[w] = "retry" /\ ClaimReady(w, "workflow")
      /\ UNCHANGED <<dead, stage, published, finished, runs, passes>>
    BY DEF Grab
<1>2. /\ tasks' \in Seq(QueueTask) /\ hand' \in [Workers -> QueueTask \cup {None}]
      /\ OnePlace'
      /\ \A j \in DOMAIN tasks' : \E k \in DOMAIN tasks :
                    tasks'[j] = tasks[k] /\ tasks[k].id # hand'[w].id
      /\ \E i \in DOMAIN tasks : hand'[w] = tasks[i]
      /\ \A v \in Workers \ {w} : hand'[v] = hand[v]
    BY <1>1, ClaimStep
<1>3. Types'
    BY <1>1, <1>2 DEF Types
<1>4. Counts'
    BY <1>1, <1>2 DEF Counts, WaitingCount, RunningCount
<1>5. DeadForCause'
    BY <1>1 DEF DeadForCause
<1>6. QED BY <1>2, <1>3, <1>4, <1>5

\* A start counts one more, and the job may have had its last but one.
LEMMA StartInv == ASSUME Inv, NEW w \in Workers, Start(w) PROVE Inv'
<1> USE DEF Inv
<1> DEFINE x == hand'[w].id
<1>1. /\ hand[w] = None /\ stage[w] # "retry" /\ ClaimReady(w, ClaimsFrom[stage[w]])
      /\ runs' = [runs EXCEPT ![x] = @ + 1]
      /\ UNCHANGED <<dead, stage, published, finished, passes>>
    BY DEF Start
<1>2. /\ tasks' \in Seq(QueueTask) /\ hand' \in [Workers -> QueueTask \cup {None}]
      /\ OnePlace'
      /\ \A j \in DOMAIN tasks' : \E k \in DOMAIN tasks :
                    tasks'[j] = tasks[k] /\ tasks[k].id # x
      /\ \E i \in DOMAIN tasks : hand'[w] = tasks[i]
      /\ \A v \in Workers \ {w} : hand'[v] = hand[v]
    BY <1>1, ClaimStep
<1>3. x \in Tasks /\ IsListed(x) /\ hand'[w] \in QueueTask /\ WaitingCount(hand'[w])
    BY <1>2, ListedIsEntry DEF IsListed, Counts
<1>4. /\ runs' \in [Tasks -> Nat] /\ runs'[x] = runs[x] + 1
      /\ \A t \in Tasks \ {x} : runs'[t] = runs[t]
    BY <1>1, <1>3 DEF Types
<1>5. Types'
    BY <1>1, <1>2, <1>4 DEF Types
<1>6. \A j \in DOMAIN tasks' : WaitingCount(tasks[j])'
    <2> TAKE j \in DOMAIN tasks'
    <2>1. PICK k \in DOMAIN tasks : tasks'[j] = tasks[k] /\ tasks[k].id # x
        BY <1>2
    <2>2. runs'[tasks[k].id] = runs[tasks[k].id]
        BY <1>4, <2>1, ListedIsEntry
    <2>3. WaitingCount(tasks[k])
        BY DEF Counts
    <2>4. QED BY <1>1, <2>1, <2>2, <2>3 DEF WaitingCount
<1>7. \A v \in Workers \ {w} : hand'[v] # None =>
        IF stage'[v] = "retry" THEN WaitingCount(hand[v])' ELSE RunningCount(hand[v])'
    <2> SUFFICES ASSUME NEW v \in Workers \ {w}, hand[v] # None
                 PROVE  IF stage[v] = "retry" THEN WaitingCount(hand[v])' ELSE RunningCount(hand[v])'
        BY <1>1, <1>2
    <2>1. hand[v].id \in Tasks \ {x}
        BY <1>3 DEF Types, QueueTask, OnePlace, Holds
    <2>2. runs'[hand[v].id] = runs[hand[v].id] /\ hand'[v] = hand[v]
        BY <1>2, <1>4, <2>1
    <2>3. QED BY <1>1, <2>2 DEF Counts, WaitingCount, RunningCount
<1>8. RunningCount(hand[w])'
    <2>1. /\ runs[x] \in Nat /\ passes[x] \in Nat /\ MaxAttempts \in Nat
          /\ hand'[w].attempts \in Nat
        BY <1>3, PolicyIsNatural DEF Types, QueueTask
    <2>2. QED BY <1>1, <1>3, <1>4, <2>1 DEF WaitingCount, RunningCount
<1>9. x \in published
    BY <1>3 DEF OnePlace
<1>10. Counts'
    BY <1>1, <1>4, <1>6, <1>7, <1>8, <1>9 DEF Counts
<1>11. DeadForCause'
    <2>1. ~IsDead(x)
        BY <1>3 DEF OnePlace
    <2>2. \A i \in DOMAIN dead : dead[i] \in Tasks \ {x}
        BY <2>1 DEF Types, IsDead
    <2>3. QED BY <1>1, <1>4, <2>2 DEF DeadForCause
<1>12. QED BY <1>2, <1>5, <1>10, <1>11

\* A retry lists the job again while its attempts allow a start.
LEMMA RetryInv == ASSUME Inv, NEW w \in Workers, Retry(w) PROVE Inv'
<1> USE DEF Inv
<1> DEFINE x == hand[w].id
           n == hand[w].attempts + 1
           task == Requeued(hand[w], NextDelay(n))
<1>1. /\ hand[w] # None /\ stage[w] # "retry" /\ CanRetry(n)
      /\ tasks' = Append(tasks, task) /\ Drop(w) /\ Goto(w, AfterJob[stage[w]])
      /\ UNCHANGED <<dead, published, finished, runs, passes>>
    BY DEF Retry, Running
<1>2. /\ hand[w] \in QueueTask /\ x \in Tasks /\ hand[w].attempts \in 0..MaxAttempts
      /\ MaxAttempts \in Nat /\ n \in Nat
    BY <1>1, PolicyIsNatural DEF Types, QueueTask
<1>3. n < MaxAttempts
    BY <1>1 DEF CanRetry
<1>4. task \in QueueTask /\ task.id = x /\ task.attempts = n
    <2>1. NextDelay(n) \in 0..MaxDelay
        BY <1>2, DelayFits
    <2>2. Count(hand[w].attempts) = n
        BY <1>2, <1>3 DEF Count
    <2>3. QED BY <1>2, <1>3, <2>1, <2>2 DEF Requeued, QueueTask
<1> HIDE DEF task, n
<1>5. hand' \in [Workers -> QueueTask \cup {None}] /\ OnePlace'
    BY <1>1, <1>4, HandBackStep
<1>6. /\ tasks' \in Seq(QueueTask)
      /\ \A j \in DOMAIN tasks' : tasks'[j] = task \/ (j \in DOMAIN tasks /\ tasks'[j] = tasks[j])
    BY <1>1, <1>4, AppendFacts
<1>7. /\ stage' \in [Workers -> {"workflow", "tool", "retry", "follow"}]
      /\ hand'[w] = None
      /\ \A v \in Workers \ {w} : hand'[v] = hand[v] /\ stage'[v] = stage[v]
    BY <1>1 DEF Drop, Goto, AfterJob, Types
<1>8. Types'
    BY <1>1, <1>5, <1>6, <1>7 DEF Types
<1>9. WaitingCount(task)
    <2>1. RunningCount(hand[w])
        BY <1>1 DEF Counts
    <2>2. runs[x] \in Nat /\ passes[x] \in Nat
        BY <1>2 DEF Types
    <2>3. n = hand[w].attempts + 1
        BY DEF n
    <2>4. QED BY <1>2, <1>3, <1>4, <2>1, <2>2, <2>3 DEF WaitingCount, RunningCount
<1>10. Counts'
    BY <1>1, <1>6, <1>7, <1>9 DEF Counts, WaitingCount, RunningCount
<1>11. DeadForCause'
    BY <1>1 DEF DeadForCause
<1>12. QED BY <1>5, <1>8, <1>10, <1>11

\* A hand-back of the retry loop counts as an attempt and as a pass.
LEMMA PassBackInv == ASSUME Inv, NEW w \in Workers, PassBack(w) PROVE Inv'
<1> USE DEF Inv
<1> DEFINE x == hand[w].id
           task == Requeued(hand[w], 0)
<1>1. /\ hand[w] # None /\ stage[w] = "retry"
      /\ tasks' = Append(tasks, task) /\ Drop(w) /\ Goto(w, "follow")
      /\ passes' = [passes EXCEPT ![x] = Count(@)]
      /\ UNCHANGED <<dead, published, finished, runs>>
    BY DEF PassBack
<1>2. /\ hand[w] \in QueueTask /\ x \in Tasks /\ hand[w].attempts \in 0..MaxAttempts
      /\ MaxAttempts \in Nat /\ runs[x] \in Nat /\ passes[x] \in 0..MaxAttempts
    BY <1>1, PolicyIsNatural DEF Types, QueueTask
<1>3. /\ task \in QueueTask /\ task.id = x /\ task.attempts = Count(hand[w].attempts)
      /\ Count(hand[w].attempts) \in 0..MaxAttempts /\ Count(passes[x]) \in 0..MaxAttempts
    BY <1>2, PolicyIsNatural DEF Requeued, QueueTask, Count
<1>4. /\ passes' \in [Tasks -> 0..MaxAttempts] /\ passes'[x] = Count(passes[x])
      /\ \A t \in Tasks : passes[t] \in Nat /\ passes'[t] \in Nat /\ passes[t] <= passes'[t]
    BY <1>1, <1>2, <1>3 DEF Types, Count
<1> HIDE DEF task
<1>5. hand' \in [Workers -> QueueTask \cup {None}] /\ OnePlace'
    BY <1>1, <1>3, HandBackStep
<1>6. /\ tasks' \in Seq(QueueTask)
      /\ \A j \in DOMAIN tasks' : tasks'[j] = task \/ (j \in DOMAIN tasks /\ tasks'[j] = tasks[j])
    BY <1>1, <1>3, AppendFacts
<1>7. /\ stage' \in [Workers -> {"workflow", "tool", "retry", "follow"}]
      /\ hand'[w] = None
      /\ \A v \in Workers \ {w} : hand'[v] = hand[v] /\ stage'[v] = stage[v]
    BY <1>1 DEF Drop, Goto, Types
<1>8. Types'
    BY <1>1, <1>4, <1>5, <1>6, <1>7 DEF Types
<1>9. WaitingCount(hand[w])
    BY <1>1 DEF Counts
<1>10. \A j \in DOMAIN tasks' : WaitingCount(tasks[j])'
    <2> TAKE j \in DOMAIN tasks'
    <2>1. CASE tasks'[j] = task
        <3>1. /\ runs[x] <= hand[w].attempts /\ runs[x] < MaxAttempts
              /\ hand[w].attempts <= runs[x] + passes[x]
            BY <1>9 DEF WaitingCount
        <3>2. /\ runs[x] <= Count(hand[w].attempts)
              /\ Count(hand[w].attempts) <= runs[x] + Count(passes[x])
            BY <1>2, <3>1 DEF Count
        <3>3. /\ tasks'[j].id = x /\ tasks'[j].attempts = Count(hand[w].attempts)
              /\ runs' = runs /\ passes'[x] = Count(passes[x])
            BY <1>1, <1>3, <1>4, <2>1
        <3>4. QED BY <3>1, <3>2, <3>3 DEF WaitingCount
    <2>2. CASE j \in DOMAIN tasks /\ tasks'[j] = tasks[j]
        <3>1. /\ tasks[j].id \in Tasks /\ tasks[j].attempts \in 0..MaxAttempts
              /\ runs[tasks[j].id] \in Nat
            BY <2>2, ListedIsEntry DEF QueueTask, Types
        <3>2. WaitingCount(tasks[j])
            BY <2>2 DEF Counts
        <3>3. QED BY <1>1, <1>2, <1>4, <2>2, <3>1, <3>2 DEF WaitingCount
    <2>3. QED BY <1>6, <2>1, <2>2
<1>11. \A v \in Workers : hand'[v] # None =>
        IF stage'[v] = "retry" THEN WaitingCount(hand[v])' ELSE RunningCount(hand[v])'
    <2> SUFFICES ASSUME NEW v \in Workers \ {w}, hand[v] # None
                 PROVE  IF stage[v] = "retry" THEN WaitingCount(hand[v])' ELSE RunningCount(hand[v])'
        BY <1>7
    <2>1. /\ hand[v].id \in Tasks /\ hand[v].attempts \in 0..MaxAttempts
          /\ runs[hand[v].id] \in Nat /\ hand'[v] = hand[v]
        BY <1>7 DEF Types, QueueTask
    <2>2. IF stage[v] = "retry" THEN WaitingCount(hand[v]) ELSE RunningCount(hand[v])
        BY DEF Counts
    <2>3. passes[hand[v].id] \in Nat /\ passes'[hand[v].id] \in Nat
            /\ passes[hand[v].id] <= passes'[hand[v].id] /\ runs' = runs
        BY <1>1, <1>4, <2>1
    <2>4. CASE stage[v] = "retry"
        BY <2>1, <2>2, <2>3, <2>4 DEF WaitingCount
    <2>5. CASE stage[v] # "retry"
        BY <2>1, <2>2, <2>3, <2>5 DEF RunningCount
    <2>6. QED BY <2>4, <2>5
<1>12. Counts'
    BY <1>1, <1>10, <1>11 DEF Counts
<1>13. DeadForCause'
    <2>1. \A i \in DOMAIN dead : dead[i] \in Tasks
        BY DEF Types
    <2>2. \A t \in Tasks : runs[t] \in Nat /\ passes[t] \in Nat
        BY <1>4 DEF Types
    <2>3. QED BY <1>1, <1>2, <1>4, <2>1, <2>2 DEF DeadForCause
<1>14. QED BY <1>5, <1>8, <1>12, <1>13

\* A job that succeeds, or that fails for the last time, is counted no more;
\* the dead one used up its attempts.
LEMMA EndInv == ASSUME Inv, NEW w \in Workers, Succeed(w) \/ Bury(w) PROVE Inv'
<1> USE DEF Inv
<1> DEFINE x == hand[w].id
<1>1. /\ hand[w] # None /\ stage[w] # "retry" /\ Drop(w) /\ Goto(w, AfterJob[stage[w]])
      /\ UNCHANGED <<tasks, published, runs, passes>>
      /\ \/ finished' = finished \cup {x} /\ UNCHANGED dead
         \/ /\ dead' = Append(dead, x) /\ UNCHANGED finished
            /\ ~CanRetry(hand[w].attempts + 1)
    BY DEF Succeed, Bury, Running
<1>2. /\ hand' \in [Workers -> QueueTask \cup {None}] /\ OnePlace'
      /\ dead' \in Seq(Tasks) /\ finished' \subseteq published'
      /\ \A i \in DOMAIN dead' : dead'[i] = x \/ IsDead(dead'[i])
    BY <1>1, EndStep
<1>3. /\ stage' \in [Workers -> {"workflow", "tool", "retry", "follow"}]
      /\ hand'[w] = None
      /\ \A v \in Workers \ {w} : hand'[v] = hand[v] /\ stage'[v] = stage[v]
    BY <1>1 DEF Drop, Goto, AfterJob, Types
<1>4. Types'
    BY <1>1, <1>2, <1>3 DEF Types
<1>5. Counts'
    BY <1>1, <1>3 DEF Counts, WaitingCount, RunningCount
<1>6. DeadForCause'
    <2>1. CASE UNCHANGED dead
        BY <1>1, <2>1 DEF DeadForCause
    <2>2. CASE ~CanRetry(hand[w].attempts + 1)
        <3>1. /\ hand[w].attempts \in Nat /\ MaxAttempts \in Nat
              /\ runs[x] \in Nat /\ passes[x] \in Nat
            BY <1>1, PolicyIsNatural DEF Types, QueueTask
        <3>2. RunningCount(hand[w])
            BY <1>1 DEF Counts
        <3>3. runs[x] \in 1..MaxAttempts /\ runs[x] + passes[x] >= MaxAttempts
            BY <2>2, <3>1, <3>2 DEF RunningCount, CanRetry
        <3>4. QED BY <1>1, <1>2, <3>3 DEF DeadForCause, IsDead
    <2>3. QED BY <1>1, <2>1, <2>2
<1>7. QED BY <1>2, <1>4, <1>5, <1>6

\* The invariant is inductive.
LEMMA StepInv == Inv /\ [Next]_vars => Inv'
<1> SUFFICES ASSUME Inv, [Next]_vars PROVE Inv'
    OBVIOUS
<1>1. CASE UNCHANGED vars
    BY <1>1 DEF vars, Inv, Types, OnePlace, IsListed, IsDead, Holds, Counts,
                WaitingCount, RunningCount, DeadForCause
<1>2. CASE \E t \in Tasks : Publish(t)
    BY <1>2, PublishInv
<1>3. CASE Tick
    BY <1>3, TickInv
<1>4. ASSUME NEW w \in Workers, RunOnce(w) PROVE Inv'
    BY <1>4, FindNoneInv, StartInv, GrabInv, PassBackInv, RetryInv, EndInv DEF RunOnce
<1>5. QED BY <1>1, <1>2, <1>3, <1>4 DEF Next

\* The attempts of a dead letter are used up, and each was a start or a
\* hand-back of the retry loop (_process_single and the loop of run_once).
THEOREM DeadHaveCause == Spec => []DeadForCause
<1>1. Inv => DeadForCause
    BY DEF Inv
<1>2. QED BY InitInv, StepInv, <1>1, PTL DEF Spec

----------------------------------------------------------------------------
(* Where a task is *)

\* A published task is somewhere, the dead letters do not repeat, and a worker
\* holds a task of the kind its stage claims from.
Placed ==
    /\ \A t \in published :
            t \in finished \/ IsListed(t) \/ IsDead(t) \/ \E w \in Workers : Holds(w, t)
    /\ \A i, j \in DOMAIN dead : dead[i] = dead[j] => i = j
    /\ \A w \in Workers : hand[w] # None => Kind[hand[w].id] = ClaimsFrom[stage[w]]

\* A claim moves a task into the hand and the others stay where they were.
LEMMA ClaimPlaces ==
    ASSUME Types, Placed, NEW w \in Workers, hand[w] = None,
           ClaimReady(w, ClaimsFrom[stage[w]]), UNCHANGED <<dead, stage, published, finished>>
    PROVE  Placed'
<1>1. PICK i \in DOMAIN tasks :
        /\ Kind[tasks[i].id] = ClaimsFrom[stage[w]]
        /\ hand' = [hand EXCEPT ![w] = tasks[i]] /\ tasks' = RemoveAt(tasks, i)
    BY DEF ClaimReady, Ready
<1>0. PICK x : x = tasks[i].id
    OBVIOUS
<1>2. hand'[w] = tasks[i] /\ \A v \in Workers \ {w} : hand'[v] = hand[v]
    BY <1>1 DEF Types
<1>3. hand'[w] # None
    BY <1>2, ListedIsEntry, NotNone
<1>4. \A t : IsListed(t) => IsListed(t)' \/ t = x
    <2>1. tasks \in Seq(QueueTask) /\ DOMAIN tasks = 1..Len(tasks) /\ Len(tasks) \in Nat
        BY DEF Types
    <2>2. /\ tasks' \in Seq(QueueTask) /\ Len(tasks') = Len(tasks) - 1
          /\ \A j \in 1..Len(tasks) - 1 : tasks'[j] = tasks[IF j < i THEN j ELSE j + 1]
        BY <1>1, <2>1, RemoveAtFacts
    <2>3. DOMAIN tasks' = 1..Len(tasks) - 1
        BY <2>2
    <2>4. ASSUME NEW k \in DOMAIN tasks \ {i} PROVE \E j \in DOMAIN tasks' : tasks'[j] = tasks[k]
        <3>1. CASE k < i
            <4>1. k \in DOMAIN tasks' /\ tasks'[k] = tasks[k]
                BY <2>1, <2>2, <2>3, <3>1
            <4>2. QED BY <4>1
        <3>2. CASE ~(k < i)
            <4>1. k - 1 \in DOMAIN tasks' /\ tasks'[k - 1] = tasks[k]
                BY <2>1, <2>2, <2>3, <3>2
            <4>2. QED BY <4>1
        <3>3. QED BY <3>1, <3>2
    <2>5. QED BY <2>4, <1>0 DEF IsListed
<1>5. \A t, v : v \in Workers /\ Holds(v, t) => Holds(v, t)'
    BY <1>2 DEF Holds
<1>6. \A t \in published' :
        t \in finished' \/ IsListed(t)' \/ IsDead(t)' \/ \E v \in Workers : Holds(v, t)'
    <2>1. Holds(w, x)'
        BY <1>0, <1>2, <1>3 DEF Holds
    <2>2. \A t : IsDead(t)' = IsDead(t)
        BY DEF IsDead
    <2>3. QED BY <1>4, <1>5, <2>1, <2>2 DEF Placed
<1>7. \A v \in Workers : hand'[v] # None => Kind[hand'[v].id] = ClaimsFrom[stage'[v]]
    BY <1>1, <1>2 DEF Placed
<1>8. QED BY <1>6, <1>7 DEF Placed

\* What a worker drops goes to the list, to the finished or to the dead.
LEMMA DropPlaces ==
    ASSUME Types, OnePlace, Placed, NEW w \in Workers, hand[w] # None, Drop(w), NEW s, Goto(w, s),
           NEW x, x = hand[w].id, published' = published, finished \subseteq finished',
           \A t : IsListed(t) => IsListed(t)',
           x \in finished' \/ IsListed(x)' \/ dead' = Append(dead, x),
           UNCHANGED dead \/ dead' = Append(dead, x)
    PROVE  Placed'
<1>1. /\ hand'[w] = None
      /\ \A v \in Workers \ {w} : hand'[v] = hand[v] /\ stage'[v] = stage[v]
    BY DEF Drop, Goto, Types
<1>2. x \in Tasks /\ ~IsDead(x)
    BY DEF Types, QueueTask, OnePlace, Holds
<1>3. /\ \A t : IsDead(t) => IsDead(t)'
      /\ dead' = Append(dead, x) => IsDead(x)'
      /\ \A i, j \in DOMAIN dead' : dead'[i] = dead'[j] => i = j
    <2>1. CASE UNCHANGED dead
        <3>1. dead' # Append(dead, x)
            BY <1>2, <2>1 DEF Types
        <3>2. QED BY <2>1, <3>1 DEF IsDead, Placed
    <2>2. CASE dead' = Append(dead, x)
        <3>1. /\ DOMAIN dead' = DOMAIN dead \cup {Len(dead) + 1}
              /\ dead'[Len(dead) + 1] = x /\ \A i \in DOMAIN dead : dead'[i] = dead[i]
            BY <1>2, <2>2 DEF Types
        <3>2. QED BY <1>2, <3>1 DEF IsDead, Placed
    <2>3. QED BY <2>1, <2>2
<1>4. \A t, v : v \in Workers /\ Holds(v, t) => t = x \/ Holds(v, t)'
    BY <1>1 DEF Holds
<1>5. \A t \in published' :
        t \in finished' \/ IsListed(t)' \/ IsDead(t)' \/ \E v \in Workers : Holds(v, t)'
    BY <1>3, <1>4 DEF Placed
<1>6. QED BY <1>1, <1>3, <1>5 DEF Placed

\* A task handed back is listed again, with the others.
LEMMA RequeuedLists ==
    ASSUME Types, NEW w \in Workers, hand[w] # None, NEW d \in 0..MaxDelay,
           NEW x, x = hand[w].id, tasks' = Append(tasks, Requeued(hand[w], d))
    PROVE  IsListed(x)' /\ \A u : IsListed(u) => IsListed(u)'
<1> DEFINE task == Requeued(hand[w], d)
<1>1. task \in QueueTask /\ task.id = x
    BY PolicyIsNatural DEF Types, QueueTask, Requeued, Count
<1> HIDE DEF task
<1>2. /\ \E j \in DOMAIN tasks' : tasks'[j] = task
      /\ \A j \in DOMAIN tasks : j \in DOMAIN tasks' /\ tasks'[j] = tasks[j]
    BY <1>1, AppendFacts DEF task
<1>3. QED BY <1>1, <1>2 DEF IsListed

\* Every step keeps the tasks in their places.
LEMMA PlacedStep == ASSUME Inv, Placed, [Next]_vars PROVE Placed'
<1> USE DEF Inv
<1>1. CASE UNCHANGED vars
    BY <1>1 DEF vars, Placed, IsListed, IsDead, Holds
<1>2. ASSUME NEW t \in Tasks, Publish(t) PROVE Placed'
    <2> DEFINE task == [id |-> t, attempts |-> 0, wait |-> 0]
    <2>1. task \in QueueTask /\ task.id = t
        BY PolicyIsNatural DEF QueueTask
    <2>2. tasks' = Append(tasks, task) /\ published' = published \cup {t}
          /\ UNCHANGED <<dead, stage, hand, finished>>
        BY <1>2 DEF Publish
    <2> HIDE DEF task
    <2>3. IsListed(t)' /\ \A u : IsListed(u) => IsListed(u)'
        BY <2>1, <2>2, AppendFacts DEF IsListed
    <2>4. QED BY <2>2, <2>3 DEF Placed, IsDead, Holds
<1>3. CASE Tick
    <2>1. /\ tasks' = [i \in DOMAIN tasks |-> [tasks[i] EXCEPT !.wait = IF @ > 0 THEN @ - 1 ELSE 0]]
          /\ UNCHANGED <<dead, stage, hand, published, finished>>
        BY <1>3 DEF Tick
    <2>2. \A i \in DOMAIN tasks : tasks'[i].id = tasks[i].id
        BY <2>1, ListedIsEntry DEF QueueTask
    <2>3. \A u : IsListed(u) => IsListed(u)'
        BY <2>1, <2>2 DEF IsListed
    <2>4. QED BY <2>1, <2>3 DEF Placed, IsDead, Holds
<1>4. ASSUME NEW w \in Workers, RunOnce(w) PROVE Placed'
    <2>0. PICK x : x = hand[w].id
        OBVIOUS
    <2>1. CASE FindNone(w)
        BY <2>1 DEF FindNone, Goto, Types, Placed, IsListed, IsDead, Holds
    <2>2. CASE Start(w)
        BY <2>2, ClaimPlaces DEF Start
    <2>3. CASE Grab(w)
        <3>1. ClaimsFrom[stage[w]] = "workflow"
            BY <2>3 DEF Grab, ClaimsFrom
        <3>2. QED BY <2>3, <3>1, ClaimPlaces DEF Grab
    <2>4. CASE PassBack(w)
        <3>1. /\ tasks' = Append(tasks, Requeued(hand[w], 0)) /\ hand[w] # None
              /\ Drop(w) /\ Goto(w, "follow") /\ UNCHANGED <<dead, published, finished>>
            BY <2>4 DEF PassBack
        <3>2. 0 \in 0..MaxDelay
            BY PolicyIsNatural
        <3>3. IsListed(x)' /\ \A u : IsListed(u) => IsListed(u)'
            BY <2>0, <3>1, <3>2, RequeuedLists
        <3>4. QED BY <2>0, <3>1, <3>3, DropPlaces
    <2>5. CASE Succeed(w)
        <3>1. /\ hand[w] # None /\ Drop(w) /\ Goto(w, AfterJob[stage[w]])
              /\ finished' = finished \cup {hand[w].id} /\ UNCHANGED <<dead, tasks, published>>
            BY <2>5 DEF Succeed, Running
        <3>2. \A u : IsListed(u) => IsListed(u)'
            BY <3>1 DEF IsListed
        <3>3. QED BY <2>0, <3>1, <3>2, DropPlaces
    <2>6. CASE Retry(w)
        <3>1. /\ tasks' = Append(tasks, Requeued(hand[w], NextDelay(hand[w].attempts + 1)))
              /\ hand[w] # None /\ Drop(w) /\ Goto(w, AfterJob[stage[w]])
              /\ UNCHANGED <<dead, published, finished>>
            BY <2>6 DEF Retry, Running
        <3>2. NextDelay(hand[w].attempts + 1) \in 0..MaxDelay
            <4>1. hand[w].attempts + 1 \in Nat
                BY <3>1, PolicyIsNatural DEF Types, QueueTask
            <4>2. QED BY <4>1, DelayFits
        <3>3. IsListed(x)' /\ \A u : IsListed(u) => IsListed(u)'
            BY <2>0, <3>1, <3>2, RequeuedLists
        <3>4. QED BY <2>0, <3>1, <3>3, DropPlaces
    <2>7. CASE Bury(w)
        <3>1. /\ hand[w] # None /\ Drop(w) /\ Goto(w, AfterJob[stage[w]])
              /\ dead' = Append(dead, hand[w].id) /\ UNCHANGED <<finished, tasks, published>>
            BY <2>7 DEF Bury, Running
        <3>2. \A u : IsListed(u) => IsListed(u)'
            BY <3>1 DEF IsListed
        <3>3. QED BY <2>0, <3>1, <3>2, DropPlaces
    <2>8. QED BY <1>4, <2>1, <2>2, <2>3, <2>4, <2>5, <2>6, <2>7 DEF RunOnce
<1>5. QED BY <1>1, <1>2, <1>3, <1>4 DEF Next

\* One place is the only one.
LEMMA PlacesAreOne ==
    ASSUME Types, OnePlace, Placed, NEW t \in published
    PROVE  \E p \in Places(t) : Places(t) = {p}
<1>1. t \in Tasks
    BY DEF Types
<1>2. CASE t \in finished
    <2>1. ~IsListed(t) /\ ~IsDead(t) /\ \A w \in Workers : ~Holds(w, t)
        BY <1>1, <1>2 DEF OnePlace
    <2>2. Places(t) = {<<"finished", 0>>}
        BY <1>2, <2>1 DEF Places, IsListed, IsDead, Holds
    <2>3. QED BY <2>2
<1>3. ASSUME NEW i \in DOMAIN tasks, tasks[i].id = t PROVE \E p \in Places(t) : Places(t) = {p}
    <2>1. IsListed(t)
        BY <1>3 DEF IsListed
    <2>2. t \notin finished /\ ~IsDead(t) /\ \A w \in Workers : ~Holds(w, t)
        BY <1>1, <2>1 DEF OnePlace
    <2>3. \A j \in DOMAIN tasks : tasks[j].id = t => j = i
        BY <1>3 DEF OnePlace
    <2>4. Places(t) = {<<"listed", i>>}
        BY <1>3, <2>2, <2>3 DEF Places, IsDead, Holds
    <2>5. QED BY <2>4
<1>4. ASSUME NEW i \in DOMAIN dead, dead[i] = t PROVE \E p \in Places(t) : Places(t) = {p}
    <2>1. IsDead(t)
        BY <1>4 DEF IsDead
    <2>2. t \notin finished /\ ~IsListed(t) /\ \A w \in Workers : ~Holds(w, t)
        BY <1>1, <2>1 DEF OnePlace
    <2>3. \A j \in DOMAIN dead : dead[j] = t => j = i
        BY <1>4 DEF Placed
    <2>4. Places(t) = {<<"dead", i>>}
        BY <1>4, <2>2, <2>3 DEF Places, IsListed, Holds
    <2>5. QED BY <2>4
<1>5. ASSUME NEW w \in Workers, Holds(w, t) PROVE \E p \in Places(t) : Places(t) = {p}
    <2>1. /\ t \notin finished /\ ~IsListed(t) /\ ~IsDead(t)
          /\ \A v \in Workers : Holds(v, t) => v = w
        BY <1>1, <1>5 DEF OnePlace
    <2>2. Places(t) = {<<"held", w>>}
        BY <1>5, <2>1 DEF Places, IsListed, IsDead, Holds
    <2>3. QED BY <2>2
<1>6. QED BY <1>2, <1>3, <1>4, <1>5 DEF Placed, IsListed, IsDead

\* The list, the hands and the records keep their types, a worker holds a task
\* of the kind its stage claims from, and a published task is in exactly one
\* place: none is lost and none is copied (InMemoryQueueBackend, run_once).
THEOREM QueueTyped == Spec => []TypeOK
<1>1. Init => Placed
    BY DEF Init, Placed
<1>2. Inv /\ Placed /\ [Next]_vars => Placed'
    BY PlacedStep
<1>3. Inv /\ Placed => TypeOK
    BY PlacesAreOne DEF Inv, Types, Placed, TypeOK
<1>4. QED BY InitInv, StepInv, <1>1, <1>2, <1>3, PTL DEF Spec

----------------------------------------------------------------------------
(* The refinement *)

jobs == [t \in Tasks |-> JobOf(t)]

\* A step that leaves every outcome and every run alone is a stutter.
LEMMA Stutters ==
    ASSUME \A t \in Tasks : Runs(t)' = Runs(t), UNCHANGED <<published, finished, dead, runs>>
    PROVE  UNCHANGED Jobs!vars
<1>1. \A t \in Tasks : JobOf(t)' = JobOf(t)
    BY DEF JobOf
<1>2. QED BY <1>1 DEF Jobs!vars

\* A step that changes where one task is moves its job.
LEMMA Moves ==
    ASSUME NEW x \in Tasks, \A t \in Tasks \ {x} : JobOf(t)' = JobOf(t)
    PROVE  Jobs!Move(x, JobOf(x), JobOf(x)')
<1>1. jobs' = [jobs EXCEPT ![x] = JobOf(x)']
    BY DEF jobs
<1>2. QED BY <1>1 DEF Jobs!Move, jobs

\* What the places of a task say of its job.
LEMMA JobIs ==
    ASSUME NEW t
    PROVE  /\ t \notin published => JobOf(t) = "absent"
           /\ t \in published \cap finished => JobOf(t) = "finished"
           /\ t \in published \ finished /\ IsDead(t) => JobOf(t) = "dead"
           /\ t \in published \ finished /\ ~IsDead(t) /\ Runs(t) => JobOf(t) = "running"
           /\ t \in published \ finished /\ ~IsDead(t) /\ ~Runs(t) => JobOf(t) = "waiting"
<1>1. t \notin published => JobOf(t) = "absent"
    BY DEF JobOf, Runs, Running
<1>2. t \in published \cap finished => JobOf(t) = "finished"
    BY DEF JobOf, Runs, Running
<1>3. t \in published \ finished /\ IsDead(t) => JobOf(t) = "dead"
    BY DEF JobOf, IsDead, Runs, Running
<1>4. t \in published \ finished /\ ~IsDead(t) /\ Runs(t) => JobOf(t) = "running"
    BY DEF JobOf, IsDead, Runs, Running
<1>5. t \in published \ finished /\ ~IsDead(t) /\ ~Runs(t) => JobOf(t) = "waiting"
    BY DEF JobOf, IsDead, Runs, Running
<1>6. QED BY <1>1, <1>2, <1>3, <1>4, <1>5

\* The same in the next state.
LEMMA JobBecomes ==
    ASSUME NEW t
    PROVE  /\ t \in published' \cap finished' => JobOf(t)' = "finished"
           /\ t \in published' \ finished' /\ IsDead(t)' => JobOf(t)' = "dead"
           /\ t \in published' \ finished' /\ ~IsDead(t)' /\ Runs(t)' => JobOf(t)' = "running"
           /\ t \in published' \ finished' /\ ~IsDead(t)' /\ ~Runs(t)' => JobOf(t)' = "waiting"
<1>1. t \in published' \cap finished' => JobOf(t)' = "finished"
    BY DEF JobOf, Runs, Running
<1>2. t \in published' \ finished' /\ IsDead(t)' => JobOf(t)' = "dead"
    BY DEF JobOf, IsDead, Runs, Running
<1>3. t \in published' \ finished' /\ ~IsDead(t)' /\ Runs(t)' => JobOf(t)' = "running"
    BY DEF JobOf, IsDead, Runs, Running
<1>4. t \in published' \ finished' /\ ~IsDead(t)' /\ ~Runs(t)' => JobOf(t)' = "waiting"
    BY DEF JobOf, IsDead, Runs, Running
<1>5. QED BY <1>1, <1>2, <1>3, <1>4

\* A task whose outcome and run stay has the same job.
LEMMA JobStays ==
    ASSUME NEW t, Runs(t)' = Runs(t), (t \in published)' = (t \in published),
           (t \in finished)' = (t \in finished), IsDead(t)' = IsDead(t)
    PROVE  JobOf(t)' = JobOf(t)
BY DEF JobOf, IsDead, Runs, Running

\* What a worker runs is a running job, and no other worker runs it.
LEMMA HeldIsRunning ==
    ASSUME Types, OnePlace, NEW w \in Workers, Running(w)
    PROVE  /\ hand[w].id \in Tasks /\ JobOf(hand[w].id) = "running"
           /\ hand[w].id \in published \ finished /\ ~IsDead(hand[w].id)
           /\ \A v \in Workers : Running(v) /\ hand[v].id = hand[w].id => v = w
<1>1. hand[w].id \in Tasks /\ Holds(w, hand[w].id)
    BY DEF Types, QueueTask, Holds, Running
<1>2. Runs(hand[w].id)
    BY DEF Runs
<1>3. /\ hand[w].id \in published \ finished /\ ~IsDead(hand[w].id)
      /\ \A v \in Workers : Holds(v, hand[w].id) => v = w
    BY <1>1 DEF OnePlace
<1>4. JobOf(hand[w].id) = "running"
    BY <1>2, <1>3, JobIs
<1>5. \A v \in Workers : Running(v) /\ hand[v].id = hand[w].id => v = w
    BY <1>3 DEF Holds, Running
<1>6. QED BY <1>1, <1>3, <1>4, <1>5

\* A job leaves its worker's hand: nobody runs it and the other runs go on.
LEMMA LeaveHand ==
    ASSUME Types, OnePlace, NEW w \in Workers, Running(w), Drop(w),
           NEW s, Goto(w, s), NEW x \in Tasks, x = hand[w].id
    PROVE  ~Runs(x)' /\ \A t \in Tasks \ {x} : Runs(t)' = Runs(t)
<1>1. /\ hand'[w] = None
      /\ \A v \in Workers \ {w} : hand'[v] = hand[v] /\ stage'[v] = stage[v]
    BY DEF Drop, Goto, Types
<1>2. \A v \in Workers : Running(v)' <=> Running(v) /\ v # w
    BY <1>1 DEF Running
<1>3. \A v \in Workers \ {w} : Running(v) => hand[v].id # x
    BY HeldIsRunning
<1>4. ~Runs(x)'
    BY <1>1, <1>2, <1>3 DEF Runs
<1>5. ASSUME NEW t \in Tasks \ {x} PROVE Runs(t)' = Runs(t)
    BY <1>1, <1>2 DEF Runs
<1>6. QED BY <1>4, <1>5

\* A publication submits the job.
LEMMA PublishMaps == ASSUME Inv, NEW t \in Tasks, Publish(t) PROVE Jobs!Submit(t)
<1>1. JobOf(t) = "absent"
    BY JobIs DEF Publish
<1>2. t \notin finished /\ ~IsDead(t) /\ \A w \in Workers : ~Holds(w, t)
    BY DEF Inv, Types, OnePlace, Publish
<1>3. \A u \in Tasks : Runs(u)' = Runs(u)
    BY DEF Runs, Running, Publish
<1>4. ~Runs(t) /\ ~IsDead(t)'
    BY <1>2 DEF Publish, IsDead, Holds, Runs, Running
<1>5. JobOf(t)' = "waiting"
    BY <1>2, <1>3, <1>4, JobBecomes DEF Publish
<1>6. ASSUME NEW u \in Tasks \ {t} PROVE JobOf(u)' = JobOf(u)
    <2>1. IsDead(u)' = IsDead(u)
        BY DEF Publish, IsDead
    <2>2. QED BY <1>3, <2>1, JobStays DEF Publish
<1>7. Jobs!Move(t, "absent", "waiting")
    BY <1>1, <1>5, <1>6, Moves
<1>8. QED BY <1>7 DEF Jobs!Submit, Publish

\* A start starts a waiting job that was started less than MaxAttempts times.
LEMMA StartMaps ==
    ASSUME Inv, NEW w \in Workers, Start(w) PROVE \E x \in Tasks : Jobs!Start(x)
<1> USE DEF Inv
<1>1. /\ hand[w] = None /\ stage[w] # "retry" /\ ClaimReady(w, ClaimsFrom[stage[w]])
      /\ runs' = [runs EXCEPT ![hand'[w].id] = @ + 1]
      /\ UNCHANGED <<dead, stage, published, finished, passes>>
    BY DEF Start
<1>2. /\ \E i \in DOMAIN tasks : hand'[w] = tasks[i]
      /\ \A v \in Workers \ {w} : hand'[v] = hand[v]
    BY <1>1, ClaimStep
<1>3. PICK x \in Tasks :
        x = hand'[w].id /\ IsListed(x) /\ hand'[w] # None /\ runs[x] < MaxAttempts
    BY <1>2, ListedIsEntry, NotNone DEF IsListed, Counts, WaitingCount
<1>4. x \in published \ finished /\ ~IsDead(x) /\ \A v \in Workers : ~Holds(v, x)
    BY <1>3 DEF OnePlace
<1>5. JobOf(x) = "waiting"
    <2>1. ~Runs(x)
        BY <1>4 DEF Holds, Runs, Running
    <2>2. QED BY <1>4, <2>1, JobIs
<1>6. Runs(x)'
    BY <1>1, <1>3 DEF Runs, Running
<1>7. JobOf(x)' = "running"
    <2>1. ~IsDead(x)'
        BY <1>1, <1>4 DEF IsDead
    <2>2. QED BY <1>1, <1>4, <1>6, <2>1, JobBecomes
<1>8. ASSUME NEW t \in Tasks \ {x} PROVE JobOf(t)' = JobOf(t)
    <2>1. Runs(t)' = Runs(t)
        BY <1>1, <1>2, <1>3 DEF Runs, Running
    <2>2. IsDead(t)' = IsDead(t)
        BY <1>1 DEF IsDead
    <2>3. QED BY <1>1, <2>1, <2>2, JobStays
<1>9. Jobs!Move(x, "waiting", "running")
    BY <1>5, <1>7, <1>8, Moves
<1>10. QED BY <1>1, <1>3, <1>9 DEF Jobs!Start

\* A retry gives a job back that still has a start left.
LEMMA RetryMaps ==
    ASSUME Inv, NEW w \in Workers, Retry(w) PROVE \E x \in Tasks : Jobs!GiveBack(x)
<1> USE DEF Inv
<1>1. /\ Running(w) /\ CanRetry(hand[w].attempts + 1)
      /\ Drop(w) /\ Goto(w, AfterJob[stage[w]])
      /\ UNCHANGED <<dead, published, finished, runs, passes>>
    BY DEF Retry
<1>2. PICK x \in Tasks : /\ x = hand[w].id /\ JobOf(x) = "running"
                        /\ x \in published \ finished /\ ~IsDead(x)
    BY <1>1, HeldIsRunning
<1>3. ~Runs(x)' /\ \A t \in Tasks \ {x} : Runs(t)' = Runs(t)
    BY <1>1, <1>2, LeaveHand
<1>4. \A t \in Tasks : IsDead(t)' = IsDead(t)
    BY <1>1 DEF IsDead
<1>5. Jobs!Move(x, "running", "waiting")
    <2>1. JobOf(x)' = "waiting"
        BY <1>1, <1>2, <1>3, <1>4, JobBecomes
    <2>2. \A t \in Tasks \ {x} : JobOf(t)' = JobOf(t)
        BY <1>1, <1>3, <1>4, JobStays
    <2>3. QED BY <1>2, <2>1, <2>2, Moves
<1>6. runs[x] < MaxAttempts
    <2>1. /\ runs[x] \in Nat /\ hand[w].attempts \in Nat /\ MaxAttempts \in Nat
        BY <1>1, <1>2, PolicyIsNatural DEF Types, QueueTask, Running
    <2>2. runs[x] <= hand[w].attempts + 1
        BY <1>1, <1>2 DEF Counts, RunningCount, Running
    <2>3. QED BY <1>1, <2>1, <2>2 DEF CanRetry
<1>7. QED BY <1>1, <1>5, <1>6 DEF Jobs!GiveBack

\* A run that returns finishes the job.
LEMMA SucceedMaps ==
    ASSUME Inv, NEW w \in Workers, Succeed(w) PROVE \E x \in Tasks : Jobs!Finish(x)
<1> USE DEF Inv
<1>1. /\ Running(w) /\ Drop(w) /\ Goto(w, AfterJob[stage[w]])
      /\ finished' = finished \cup {hand[w].id} /\ UNCHANGED <<dead, published, runs>>
    BY DEF Succeed
<1>2. PICK x \in Tasks : x = hand[w].id /\ JobOf(x) = "running" /\ x \in published
    BY <1>1, HeldIsRunning
<1>3. \A t \in Tasks \ {x} : Runs(t)' = Runs(t)
    BY <1>1, <1>2, LeaveHand
<1>4. \A t \in Tasks : IsDead(t)' = IsDead(t)
    BY <1>1 DEF IsDead
<1>5. Jobs!Move(x, "running", "finished")
    <2>1. JobOf(x)' = "finished"
        BY <1>1, <1>2, JobBecomes
    <2>2. \A t \in Tasks \ {x} : JobOf(t)' = JobOf(t)
        BY <1>1, <1>2, <1>3, <1>4, JobStays
    <2>3. QED BY <1>2, <2>1, <2>2, Moves
<1>6. QED BY <1>1, <1>5 DEF Jobs!Finish

\* A run that raises for the last time buries the job.
LEMMA BuryMaps ==
    ASSUME Inv, NEW w \in Workers, Bury(w) PROVE \E x \in Tasks : Jobs!Bury(x)
<1> USE DEF Inv
<1>1. /\ Running(w) /\ Drop(w) /\ Goto(w, AfterJob[stage[w]])
      /\ dead' = Append(dead, hand[w].id) /\ UNCHANGED <<published, finished, runs>>
    BY DEF Bury
<1>2. PICK x \in Tasks : x = hand[w].id /\ JobOf(x) = "running" /\ x \in published \ finished
    BY <1>1, HeldIsRunning
<1>3. \A t \in Tasks \ {x} : Runs(t)' = Runs(t)
    BY <1>1, <1>2, LeaveHand
<1>4. \A t \in Tasks : IsDead(t)' <=> IsDead(t) \/ t = x
    <2>1. /\ DOMAIN dead' = DOMAIN dead \cup {Len(dead) + 1}
          /\ dead'[Len(dead) + 1] = x /\ \A i \in DOMAIN dead : dead'[i] = dead[i]
        BY <1>1, <1>2 DEF Types
    <2>2. QED BY <2>1 DEF IsDead
<1>5. Jobs!Move(x, "running", "dead")
    <2>1. JobOf(x)' = "dead"
        BY <1>1, <1>2, <1>4, JobBecomes
    <2>2. ASSUME NEW t \in Tasks \ {x} PROVE JobOf(t)' = JobOf(t)
        <3>1. IsDead(t)' = IsDead(t)
            BY <1>4 DEF IsDead
        <3>2. QED BY <1>1, <1>3, <3>1, JobStays
    <2>3. QED BY <1>2, <2>1, <2>2, Moves
<1>6. QED BY <1>1, <1>5 DEF Jobs!Bury

\* Every step is a step of JobQueue or a stutter.
LEMMA StepMaps == Inv /\ [Next]_vars => [Jobs!Next]_(Jobs!vars)
<1> SUFFICES ASSUME Inv, [Next]_vars PROVE [Jobs!Next]_(Jobs!vars)
    OBVIOUS
<1>1. CASE UNCHANGED vars
    <2>1. \A t \in Tasks : Runs(t)' = Runs(t)
        BY <1>1 DEF vars, Runs, Running
    <2>2. QED BY <1>1, <2>1, Stutters DEF vars
<1>2. CASE Tick
    <2>1. \A t \in Tasks : Runs(t)' = Runs(t)
        BY <1>2 DEF Tick, Runs, Running
    <2>2. QED BY <1>2, <2>1, Stutters DEF Tick
<1>3. ASSUME NEW t \in Tasks, Publish(t) PROVE [Jobs!Next]_(Jobs!vars)
    BY <1>3, PublishMaps DEF Jobs!Next
<1>4. ASSUME NEW w \in Workers, RunOnce(w) PROVE [Jobs!Next]_(Jobs!vars)
    <2>1. CASE FindNone(w)
        <3>1. \A v \in Workers : Running(v)' = Running(v)
            BY <2>1 DEF Inv, Types, FindNone, Goto, Running
        <3>2. \A t \in Tasks : Runs(t)' = Runs(t)
            BY <2>1, <3>1 DEF FindNone, Runs
        <3>3. QED BY <2>1, <3>2, Stutters DEF FindNone
    <2>2. CASE Start(w)
        BY <2>2, StartMaps DEF Jobs!Next
    <2>3. CASE Grab(w)
        <3>1. \A v \in Workers \ {w} : hand'[v] = hand[v]
            BY <2>3, ClaimStep DEF Inv, Grab
        <3>2. \A v \in Workers : Running(v)' = Running(v) /\ (Running(v) => v # w)
            BY <2>3, <3>1 DEF Grab, Running
        <3>3. \A t \in Tasks : Runs(t)' = Runs(t)
            BY <3>1, <3>2 DEF Runs
        <3>4. QED BY <2>3, <3>3, Stutters DEF Grab
    <2>4. CASE PassBack(w)
        <3>1. /\ stage[w] = "retry" /\ hand'[w] = None
              /\ \A v \in Workers \ {w} : hand'[v] = hand[v] /\ stage'[v] = stage[v]
            BY <2>4 DEF Inv, Types, PassBack, Drop, Goto
        <3>2. \A v \in Workers : Running(v)' = Running(v) /\ (Running(v) => v # w)
            BY <3>1 DEF Running
        <3>3. \A t \in Tasks : Runs(t)' = Runs(t)
            BY <3>1, <3>2 DEF Runs
        <3>4. QED BY <2>4, <3>3, Stutters DEF PassBack
    <2>5. CASE Succeed(w)
        BY <2>5, SucceedMaps DEF Jobs!Next
    <2>6. CASE Retry(w)
        BY <2>6, RetryMaps DEF Jobs!Next
    <2>7. CASE Bury(w)
        BY <2>7, BuryMaps DEF Jobs!Next
    <2>8. QED BY <1>4, <2>1, <2>2, <2>3, <2>4, <2>5, <2>6, <2>7 DEF RunOnce
<1>5. QED BY <1>1, <1>2, <1>3, <1>4 DEF Next

\* The in-memory queue and its worker loops implement JobQueue, for any tasks,
\* workers, names and policy: one worker runs a job at a time, at most
\* MaxAttempts times, and the job ends once.
THEOREM Implements == Spec => ImplementsJobQueue
<1>1. Init => Jobs!Init
    BY JobIs DEF Init, Jobs!Init
<1>2. QED BY InitInv, StepInv, StepMaps, <1>1, PTL DEF Spec, ImplementsJobQueue, Jobs!Spec
=============================================================================
