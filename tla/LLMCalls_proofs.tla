-------------------------- MODULE LLMCalls_proofs ---------------------------
(***************************************************************************)
(* Proofs about LLMCalls, for any calls, routers and execution ids: whom a   *)
(* call has asked, what is recorded of each provider at each of its stages, *)
(* and what the cache and the table know of its execution.                  *)
(***************************************************************************)
EXTENDS LLMCalls, FiniteSetTheorems, SequenceTheorems, TLAPS

Stages == {"new", "trying", "asked", "check", "create", "lookup", "append",
           "number", "commit", "returned", "raised", "gone"}

----------------------------------------------------------------------------
(* The chains *)

\* The providers, by name.
LEMMA Names4 == Provider = {"grok", "openai", "anthropic", "gemini"}
BY DEF Provider, Priority

\* The order of priority, by name.
LEMMA Places ==
    /\ Place("grok") = 1 /\ Place("openai") = 2 /\ Place("anthropic") = 3
    /\ Place("gemini") = 4 /\ Place("other") = 5
<1>1. \A i \in 1..4 : \A j \in 1..4 : Priority[i] = Priority[j] => i = j
    BY DEF Priority
<1>2. \A j \in 1..4 : Place(Priority[j]) = j
    BY <1>1, Zenon DEF Place, Provider
<1>3. /\ Priority[1] = "grok" /\ Priority[2] = "openai" /\ Priority[3] = "anthropic"
      /\ Priority[4] = "gemini"
    BY DEF Priority
<1>4. "other" \notin Provider
    BY Names4
<1>5. QED BY <1>2, <1>3, <1>4 DEF Place

\* The places of an order of four behind one.
LEMMA After ==
    ASSUME NEW S, NEW s \in Seq(S), Len(s) = 4, NEW k \in 1..5,
           NEW after, after = IF k = 5 THEN 0 ELSE 4 - k
    PROVE  /\ SubSeq(s, k + 1, 4) \in Seq(S) /\ Len(SubSeq(s, k + 1, 4)) = after
           /\ \A i \in 1..after : SubSeq(s, k + 1, 4)[i] = s[k + i]
<1> DEFINE m == k + 1
           a == SubSeq(s, m, 4)
<1>1. m \in Int /\ 4 \in Int
    OBVIOUS
<1>2. ASSUME NEW i \in m..4 PROVE s[i] \in S
    <2>1. i \in 1..Len(s)
        OBVIOUS
    <2>2. QED BY <2>1, ElementOfSeq
<1> HIDE DEF m
<1>3. /\ a \in Seq(S) /\ Len(a) = (IF m <= 4 THEN 4 - m + 1 ELSE 0)
      /\ \A i \in 1..(4 - m + 1) : a[i] = s[m + i - 1]
    BY <1>1, <1>2, SubSeqProperties
<1> HIDE DEF a
<1>4. a \in Seq(S) /\ Len(a) = after /\ \A i \in 1..after : a[i] = s[k + i]
    BY <1>3 DEF m
<1>5. QED BY <1>4 DEF a, m

\* The places before it.
LEMMA Before ==
    ASSUME NEW S, NEW s \in Seq(S), Len(s) = 4, NEW k \in 1..5
    PROVE  /\ SubSeq(s, 1, k - 1) \in Seq(S) /\ Len(SubSeq(s, 1, k - 1)) = k - 1
           /\ \A i \in 1..(k - 1) : SubSeq(s, 1, k - 1)[i] = s[i]
<1>1. ASSUME NEW i \in 1..(k - 1) PROVE s[i] \in S
    BY <1>1
<1> DEFINE n == k - 1
<1>2. n \in Int
    OBVIOUS
<1>3. \A i \in 1..n : s[i] \in S
    BY <1>1
<1> DEFINE b == SubSeq(s, 1, n)
<1> HIDE DEF n
<1>4. /\ b \in Seq(S) /\ Len(b) = (IF 1 <= n THEN n - 1 + 1 ELSE 0)
      /\ \A i \in 1..(n - 1 + 1) : b[i] = s[1 + i - 1]
    BY <1>2, <1>3, SubSeqProperties
<1> HIDE DEF b
<1>5. b \in Seq(S) /\ Len(b) = k - 1 /\ \A i \in 1..(k - 1) : b[i] = s[i]
    BY <1>4 DEF n
<1>6. QED BY <1>5 DEF b, n

\* Four members of a set are a sequence over it.
LEMMA Four ==
    ASSUME NEW S, NEW a \in S, NEW b \in S, NEW c \in S, NEW d \in S
    PROVE  <<a, b, c, d>> \in Seq(S) /\ Len(<<a, b, c, d>>) = 4
OBVIOUS

\* The order of priority is a sequence of providers.
LEMMA PriorityIs ==
    ASSUME NEW p, NEW S, S = Provider \cup {p}
    PROVE  Priority \in Seq(S) /\ Len(Priority) = 4
<1>2. PICK a : a = "grok" OBVIOUS
<1>3. PICK b : b = "openai" OBVIOUS
<1>4. PICK c : c = "anthropic" OBVIOUS
<1>5. PICK d : d = "gemini" OBVIOUS
<1>6. Priority = <<a, b, c, d>>
    BY <1>2, <1>3, <1>4, <1>5 DEF Priority
<1>7. a \in S /\ b \in S /\ c \in S /\ d \in S
    BY <1>2, <1>3, <1>4, <1>5, Names4
<1>8. QED BY <1>6, <1>7, Four

\* A chain is such a rotation of the order of priority.
LEMMA ChainIs ==
    ASSUME NEW p, NEW k \in 1..5, Place(p) = k
    PROVE  LET after == IF k = 5 THEN 0 ELSE 4 - k
           IN  /\ Len(Chain(p)) = after + k /\ Chain(p)[1] = p
               /\ \A i \in 2..(after + 1) : Chain(p)[i] = Priority[k + i - 1]
               /\ \A i \in (after + 2)..(after + k) : Chain(p)[i] = Priority[i - 1 - after]
<1>0. PICK after : after = IF k = 5 THEN 0 ELSE 4 - k
    OBVIOUS
<1>1. Chain(p) = <<p>> \o SubSeq(Priority, k + 1, 4) \o SubSeq(Priority, 1, k - 1)
    BY DEF Chain, Fallbacks
<1>2. PICK S : S = Provider \cup {p}
    OBVIOUS
<1>3. Priority \in Seq(S) /\ Len(Priority) = 4 /\ p \in S
    BY <1>2, PriorityIs
<1>4. PICK s : s = Priority
    OBVIOUS
<1>5. s \in Seq(S) /\ Len(s) = 4
    BY <1>3, <1>4
<1>6. PICK r : r = <<p>> \o SubSeq(s, k + 1, 4) \o SubSeq(s, 1, k - 1)
    OBVIOUS
<1> DEFINE a == SubSeq(s, k + 1, 4)
           b == SubSeq(s, 1, k - 1)
           f == <<p>> \o a
<1>7. /\ a \in Seq(S) /\ Len(a) = after
      /\ \A i \in 1..after : a[i] = s[k + i]
    BY <1>0, <1>5, After
<1>8. /\ b \in Seq(S) /\ Len(b) = k - 1
      /\ \A i \in 1..(k - 1) : b[i] = s[i]
    BY <1>5, Before
<1>9. r = f \o b
    BY <1>6
<1> HIDE DEF a, b
<1>10. /\ f \in Seq(S) /\ Len(f) = 1 + after /\ f[1] = p
       /\ \A i \in 2..(after + 1) : f[i] = a[i - 1]
    BY <1>0, <1>3, <1>7
<1> HIDE DEF f
<1>11. /\ Len(r) = after + k
       /\ \A i \in 1..(after + 1) : r[i] = f[i]
       /\ \A i \in (after + 2)..(after + k) : r[i] = b[i - 1 - after]
    BY <1>0, <1>8, <1>9, <1>10
<1>12. \A i \in 2..(after + 1) : r[i] = s[k + i - 1]
    BY <1>0, <1>7, <1>10, <1>11
<1>13. \A i \in (after + 2)..(after + k) : r[i] = s[i - 1 - after]
    BY <1>0, <1>8, <1>11
<1>14. r = Chain(p)
    BY <1>1, <1>4, <1>6
<1>15. QED BY <1>0, <1>4, <1>10, <1>11, <1>12, <1>13, <1>14

\* Every chain, name by name.
LEMMA Chains ==
    /\ Len(Chain("grok")) = 4 /\ Chain("grok")[1] = "grok" /\ Chain("grok")[2] = "openai"
    /\ Chain("grok")[3] = "anthropic" /\ Chain("grok")[4] = "gemini"
    /\ Len(Chain("openai")) = 4 /\ Chain("openai")[1] = "openai"
    /\ Chain("openai")[2] = "anthropic" /\ Chain("openai")[3] = "gemini"
    /\ Chain("openai")[4] = "grok"
    /\ Len(Chain("anthropic")) = 4 /\ Chain("anthropic")[1] = "anthropic"
    /\ Chain("anthropic")[2] = "gemini" /\ Chain("anthropic")[3] = "grok"
    /\ Chain("anthropic")[4] = "openai"
    /\ Len(Chain("gemini")) = 4 /\ Chain("gemini")[1] = "gemini"
    /\ Chain("gemini")[2] = "grok" /\ Chain("gemini")[3] = "openai"
    /\ Chain("gemini")[4] = "anthropic"
    /\ Len(Chain("other")) = 5 /\ Chain("other")[1] = "other" /\ Chain("other")[2] = "grok"
    /\ Chain("other")[3] = "openai" /\ Chain("other")[4] = "anthropic"
    /\ Chain("other")[5] = "gemini"
<1>1. /\ Priority[1] = "grok" /\ Priority[2] = "openai" /\ Priority[3] = "anthropic"
      /\ Priority[4] = "gemini"
    BY DEF Priority
<1>2. ASSUME NEW p, Place(p) = 5
      PROVE  /\ Len(Chain(p)) = 5 /\ Chain(p)[1] = p
             /\ \A i \in 2..5 : Chain(p)[i] = Priority[i - 1]
    BY <1>2, ChainIs
<1>3. ASSUME NEW p, NEW k \in 1..4, Place(p) = k
      PROVE  /\ Len(Chain(p)) = 4 /\ Chain(p)[1] = p
             /\ \A i \in 2..(5 - k) : Chain(p)[i] = Priority[k + i - 1]
             /\ \A i \in (6 - k)..4 : Chain(p)[i] = Priority[i - 1 - (4 - k)]
    BY <1>3, ChainIs
<1>4. QED BY <1>1, <1>2, <1>3, Places

\* A chain names every provider, and nobody twice.
LEMMA ChainFacts ==
    ASSUME NEW p \in Provider \cup {"other"}
    PROVE  /\ Len(Chain(p)) \in 4..5
           /\ \A i, j \in 1..Len(Chain(p)) : Chain(p)[i] = Chain(p)[j] => i = j
           /\ \A q \in Provider : \E i \in 1..Len(Chain(p)) : Chain(p)[i] = q
<1>1. CASE p = "grok" BY <1>1, Chains, Names4
<1>2. CASE p = "openai" BY <1>2, Chains, Names4
<1>3. CASE p = "anthropic" BY <1>3, Chains, Names4
<1>4. CASE p = "gemini" BY <1>4, Chains, Names4
<1>5. CASE p = "other" BY <1>5, Chains, Names4
<1>6. QED BY <1>1, <1>2, <1>3, <1>4, <1>5, Names4

----------------------------------------------------------------------------
(* The routes of the calls *)

\* The places of its chain that a call has been to.
Reached(c) == IF at[c] \in {"new", "trying", "raised"} THEN turn[c] - 1 ELSE turn[c]

Answered == {"check", "create", "lookup", "append", "number", "commit", "returned"}

RouteTypes ==
    /\ setup \in Setups
    /\ at \in [Calls -> {"new", "trying", "asked", "raised", "gone"} \cup Answered]
    /\ turn \in [Calls -> Nat]
    /\ tried \in [Calls -> Seq(Provider)]

\* What a call asked: providers of its chain up to where it has come, each once
\* and with no usable one left out, so that the first is the chain's first.
Route(c) ==
    /\ 1 <= turn[c] /\ turn[c] <= Len(Names(c)) + 1
    /\ at[c] = "new" => turn[c] = 1 /\ tried[c] = <<>>
    /\ at[c] \in {"asked"} \cup Answered => turn[c] <= Len(Names(c))
    /\ \A i \in 1..Len(tried[c]) : \E j \in 1..Reached(c) : tried[c][i] = Names(c)[j]
    /\ \A i, j \in 1..Len(tried[c]) : tried[c][i] = tried[c][j] => i = j
    /\ Len(tried[c]) <= Reached(c)
    /\ at[c] # "gone" =>
        \A j \in 1..Reached(c) : Usable(Names(c)[j]) => In(Names(c)[j], tried[c])
    /\ at[c] = "raised" => \A i \in turn[c]..Len(Names(c)) : ~Usable(Names(c)[i])
    /\ tried[c] # <<>> =>
        \E j \in 1..Len(Names(c)) :
            /\ tried[c][1] = Names(c)[j] /\ Usable(Names(c)[j])
            /\ \A m \in 1..(j - 1) : ~Usable(Names(c)[m])

Routes == RouteTypes /\ \A c \in Calls : Route(c)

\* The names of a call are a chain.
LEMMA NamesAre ==
    ASSUME NEW c \in Calls
    PROVE  /\ Len(Names(c)) \in 4..5
           /\ \A i, j \in 1..Len(Names(c)) : Names(c)[i] = Names(c)[j] => i = j
           /\ \A q \in Provider : \E i \in 1..Len(Names(c)) : Names(c)[i] = q
BY PreferredAssumption, ChainFacts DEF Names

\* At first no call has come anywhere.
LEMMA InitRoutes == Init => Routes
<1>1. SUFFICES ASSUME Init PROVE Routes
    OBVIOUS
<1>2. RouteTypes
    BY <1>1 DEF Init, RouteTypes
<1>3. ASSUME NEW c \in Calls PROVE Route(c)
    <2>1. at[c] = "new" /\ turn[c] = 1 /\ tried[c] = <<>> /\ Len(tried[c]) = 0
        BY <1>1 DEF Init
    <2>2. Reached(c) = 0
        BY <2>1 DEF Reached
    <2>3. Len(Names(c)) \in 4..5
        BY NamesAre
    <2>4. QED BY <2>1, <2>2, <2>3 DEF Route, Answered
<1>4. QED BY <1>2, <1>3 DEF Routes

\* The steps of one call: where the others have come is left alone.
LEMMA OneRoute ==
    ASSUME Routes, NEW c \in Calls, RouteTypes', setup' = setup, Route(c)',
           \A d \in Calls \ {c} : at'[d] = at[d] /\ turn'[d] = turn[d] /\ tried'[d] = tried[d]
    PROVE  Routes'
<1>1. ASSUME NEW d \in Calls \ {c} PROVE Route(d)'
    <2>1. at'[d] = at[d] /\ turn'[d] = turn[d] /\ tried'[d] = tried[d]
        OBVIOUS
    <2>2. Route(d)
        BY DEF Routes
    <2>3. Reached(d)' = Reached(d) /\ Names(d)' = Names(d)
        BY <2>1 DEF Reached, Names
    <2>4. QED BY <2>1, <2>2, <2>3 DEF Route, Usable, Knows, In
<1>2. QED BY <1>1 DEF Routes

\* A call moves on and has been to the same places.
LEMMA SamePlace ==
    ASSUME Routes, NEW c \in Calls, NEW s \in {"trying", "raised"} \cup Answered, Goto(c, s),
           UNCHANGED <<setup, turn, tried>>,
           \/ at[c] = "new" /\ s = "trying"
           \/ /\ at[c] = "trying" /\ s = "raised"
              /\ \A i \in turn[c]..Len(Names(c)) : ~Usable(Names(c)[i])
           \/ at[c] \in {"asked"} \cup Answered /\ s \in Answered
    PROVE  Routes'
<1>1. /\ at'[c] = s /\ \A d \in Calls \ {c} : at'[d] = at[d]
      /\ RouteTypes'
    BY DEF Goto, Routes, RouteTypes
<1>2. Reached(c)' = Reached(c) /\ Names(c)' = Names(c)
    BY <1>1 DEF Reached, Names, Answered
<1>3. Route(c)
    BY DEF Routes
<1>4. Route(c)'
    BY <1>1, <1>2, <1>3 DEF Route, Usable, Knows, In, Answered
<1>5. QED BY <1>1, <1>4, OneRoute

\* The next provider is asked.
LEMMA AskRoutes == ASSUME Routes, NEW c \in Calls, Ask(c) PROVE Routes'
<1>1. PICK i \in turn[c]..Len(Names(c)) :
        /\ Usable(Names(c)[i]) /\ \A j \in turn[c]..(i - 1) : ~Usable(Names(c)[j])
        /\ turn' = [turn EXCEPT ![c] = i]
        /\ tried' = [tried EXCEPT ![c] = Append(@, Names(c)[i])]
    BY DEF Ask
<1>2. /\ at[c] = "trying" /\ at' = [at EXCEPT ![c] = "asked"] /\ setup' = setup
      /\ Route(c) /\ Reached(c) = turn[c] - 1 /\ tried[c] \in Seq(Provider) /\ turn[c] \in Nat
    BY DEF Ask, Goto, Routes, RouteTypes, Reached
<1> DEFINE p == Names(c)[i]
           old == tried[c]
           new == Append(old, p)
<1>3. p \in Provider
    BY <1>1, <1>2, SetupsAreRouters DEF Usable, Knows, Routes, RouteTypes
<1>4. Len(Names(c)) \in 4..5 /\ \A m, n \in 1..Len(Names(c)) : Names(c)[m] = Names(c)[n] => m = n
    BY NamesAre
<1>5. i \in 1..Len(Names(c))
    BY <1>1, <1>2, <1>4 DEF Route
<1> HIDE DEF p
<1>6. /\ new \in Seq(Provider) /\ Len(new) = Len(old) + 1
      /\ \A m \in 1..Len(old) : new[m] = old[m]
      /\ new[Len(old) + 1] = p
      /\ old \in Seq(Provider) /\ Len(old) \in Nat
    BY <1>2, <1>3, AppendProperties
<1> HIDE DEF new
<1>7. /\ at'[c] = "asked" /\ turn'[c] = i /\ tried'[c] = new
      /\ \A d \in Calls \ {c} : at'[d] = at[d] /\ turn'[d] = turn[d] /\ tried'[d] = tried[d]
    BY <1>1, <1>2 DEF Routes, RouteTypes, new, p
<1>8. RouteTypes'
    BY <1>1, <1>2, <1>5, <1>6 DEF Routes, RouteTypes, new, p
<1>9. Reached(c)' = i /\ Names(c)' = Names(c)
    BY <1>7 DEF Reached, Names
<1>10. ASSUME NEW j \in 1..Reached(c), Usable(Names(c)[j]) PROVE In(Names(c)[j], old)
    BY <1>2, <1>10 DEF Route
<1>11. \A m \in 1..Len(new) : \E j \in 1..i : new[m] = Names(c)[j]
    <2>1. \A m \in 1..Len(old) : \E j \in 1..Reached(c) : old[m] = Names(c)[j]
        BY <1>2 DEF Route
    <2>2. \A m \in 1..Len(old) : \E j \in 1..i : new[m] = Names(c)[j]
        BY <1>1, <1>2, <1>5, <1>6, <2>1
    <2>3. new[Len(old) + 1] = Names(c)[i]
        BY <1>6 DEF p
    <2>4. QED BY <1>5, <1>6, <2>2, <2>3
<1>12. \A m, n \in 1..Len(new) : new[m] = new[n] => m = n
    <2>1. \A m, n \in 1..Len(old) : old[m] = old[n] => m = n
        BY <1>2 DEF Route
    <2>2. ASSUME NEW m \in 1..Len(old) PROVE old[m] # p
        <3>1. PICK j \in 1..Reached(c) : old[m] = Names(c)[j]
            BY <1>2 DEF Route
        <3>2. j # i /\ j \in 1..Len(Names(c))
            BY <1>1, <1>2, <1>5
        <3>3. QED BY <1>4, <1>5, <3>1, <3>2 DEF p
    <2>3. QED BY <1>6, <2>1, <2>2
<1>13. Len(new) <= i
    <2>1. Len(old) <= Reached(c)
        BY <1>2 DEF Route
    <2>2. QED BY <1>1, <1>2, <1>5, <1>6, <2>1
<1>14. ASSUME NEW j \in 1..i, Usable(Names(c)[j]) PROVE In(Names(c)[j], new)
    <2>1. CASE j = i
        BY <1>6, <2>1 DEF In, p
    <2>2. CASE j < turn[c]
        <3>1. In(Names(c)[j], old)
            BY <1>2, <1>10, <1>14, <2>2
        <3>2. PICK m \in 1..Len(old) : old[m] = Names(c)[j]
            <4>1. DOMAIN old = 1..Len(old)
                BY <1>6
            <4>2. QED BY <3>1, <4>1 DEF In
        <3>3. m \in 1..Len(new) /\ new[m] = Names(c)[j]
            BY <1>6, <3>2
        <3>4. QED BY <1>6, <3>3 DEF In
    <2>3. QED BY <1>1, <1>2, <1>5, <1>14, <2>1, <2>2
<1>15. \E j \in 1..Len(Names(c)) :
            /\ new[1] = Names(c)[j] /\ Usable(Names(c)[j])
            /\ \A m \in 1..(j - 1) : ~Usable(Names(c)[m])
    <2>1. CASE old = <<>>
        <3>1. new[1] = Names(c)[i]
            BY <1>6, <2>1 DEF p
        <3>2. \A m \in 1..(i - 1) : ~Usable(Names(c)[m])
            <4>1. ASSUME NEW m \in 1..(i - 1), m < turn[c] PROVE ~Usable(Names(c)[m])
                BY <1>2, <1>10, <2>1, <4>1 DEF In
            <4>2. QED BY <1>1, <1>2, <1>5, <4>1
        <3>3. QED BY <1>1, <1>5, <3>1, <3>2
    <2>2. CASE old # <<>>
        <3>1. new[1] = old[1]
            BY <1>6, <2>2
        <3>2. QED BY <1>2, <2>2, <3>1 DEF Route
    <2>3. QED BY <2>1, <2>2
<1>16. Usable(Names(c)[i])' = Usable(Names(c)[i]) /\ \A q : Usable(q)' = Usable(q)
    BY <1>2 DEF Usable, Knows, Names
<1>17. Route(c)'
    BY <1>5, <1>7, <1>9, <1>11, <1>12, <1>13, <1>14, <1>15, <1>2, <1>4
       DEF Route, Usable, Knows, In, Answered
<1>18. QED BY <1>2, <1>7, <1>8, <1>17, OneRoute

\* A provider fails, and it is the next one's turn.
LEMMA FailsRoutes == ASSUME Routes, NEW c \in Calls, Fails(c) PROVE Routes'
<1>1. /\ at[c] = "asked" /\ at' = [at EXCEPT ![c] = "trying"] /\ UNCHANGED <<setup, tried>>
      /\ turn' = [turn EXCEPT ![c] = @ + 1]
    BY DEF Fails, Goto
<1>2. /\ at'[c] = "trying" /\ turn'[c] = turn[c] + 1 /\ turn[c] \in Nat
      /\ \A d \in Calls \ {c} : at'[d] = at[d] /\ turn'[d] = turn[d]
    BY <1>1 DEF Routes, RouteTypes
<1>3. RouteTypes'
    BY <1>1 DEF Routes, RouteTypes
<1>4. Reached(c) = turn[c] /\ Reached(c)' = Reached(c) /\ Names(c)' = Names(c)
    BY <1>1, <1>2 DEF Reached, Names
<1>5. Route(c) /\ Len(Names(c)) \in 4..5
    BY NamesAre DEF Routes
<1>6. Route(c)'
    BY <1>1, <1>2, <1>4, <1>5 DEF Route, Usable, Knows, In, Answered
<1>7. QED BY <1>1, <1>2, <1>3, <1>6, OneRoute

\* Every step keeps the routes.
LEMMA StepRoutes == Routes /\ [Next]_vars => Routes'
<1>0. SUFFICES ASSUME Routes, [Next]_vars PROVE Routes'
    OBVIOUS
<1>1. CASE UNCHANGED vars
    <2>1. /\ UNCHANGED <<setup, at, turn, tried>>
        BY <1>1 DEF vars
    <2>2. RouteTypes'
        BY <1>0, <2>1 DEF Routes, RouteTypes
    <2>3. ASSUME NEW c \in Calls PROVE Route(c)'
        <3>1. Route(c) /\ Reached(c)' = Reached(c) /\ Names(c)' = Names(c)
            BY <1>0, <2>1 DEF Routes, Reached, Names
        <3>2. QED BY <2>1, <3>1 DEF Route, Usable, Knows, In
    <2>4. QED BY <2>2, <2>3 DEF Routes
<1>2. ASSUME NEW c \in Calls, Start(c) PROVE Routes'
    BY <1>0, <1>2, SamePlace DEF Start
<1>3. ASSUME NEW c \in Calls, Ask(c) PROVE Routes'
    BY <1>0, <1>3, AskRoutes
<1>4. ASSUME NEW c \in Calls, Fails(c) PROVE Routes'
    BY <1>0, <1>4, FailsRoutes
<1>5. ASSUME NEW c \in Calls, Raise(c) PROVE Routes'
    BY <1>0, <1>5, SamePlace DEF Raise
<1>6. ASSUME NEW c \in Calls, Answers(c) \/ Check(c) \/ Create(c) \/ Lookup(c) PROVE Routes'
    BY <1>0, <1>6, SamePlace DEF Answers, Check, Create, Lookup, Answered
<1>7. ASSUME NEW c \in Calls, AppendCall(c) \/ NumberRow(c) \/ Commit(c) \/ CommitFails(c)
      PROVE  Routes'
    BY <1>0, <1>7, SamePlace DEF AppendCall, NumberRow, Commit, CommitFails, Answered
<1>8. CASE Crash
    <2>1. /\ UNCHANGED <<setup, turn, tried>>
          /\ at' = [c \in Calls |-> IF at[c] = "new" THEN "new" ELSE "gone"]
        BY <1>8 DEF Crash
    <2>2. RouteTypes'
        BY <1>0, <2>1 DEF Routes, RouteTypes
    <2>3. ASSUME NEW c \in Calls PROVE Route(c)'
        <3>1. /\ Route(c) /\ turn[c] \in Nat /\ Names(c)' = Names(c) /\ Len(Names(c)) \in 4..5
              /\ at'[c] = IF at[c] = "new" THEN "new" ELSE "gone"
            BY <1>0, <2>1, NamesAre DEF Routes, RouteTypes, Names
        <3>2. CASE at[c] = "new"
            <4>1. at'[c] = at[c] /\ Reached(c)' = Reached(c)
                BY <2>1, <3>1, <3>2 DEF Reached
            <4>2. QED BY <2>1, <3>1, <4>1 DEF Route, Usable, Knows, In
        <3>3. CASE at[c] # "new"
            <4>1. /\ at'[c] = "gone" /\ Reached(c)' = turn[c]
                  /\ Reached(c) \in Nat /\ Reached(c) <= turn[c]
                BY <2>1, <3>1, <3>3 DEF Reached, Route
            <4>2. Len(tried[c]) \in Nat
                BY <1>0 DEF Routes, RouteTypes
            <4>3. \A i \in 1..Len(tried[c]) : \E j \in 1..turn[c] : tried[c][i] = Names(c)[j]
                BY <3>1, <4>1 DEF Route
            <4>4. Len(tried[c]) <= turn[c]
                BY <3>1, <4>1, <4>2 DEF Route
            <4>5. QED BY <2>1, <3>1, <4>1, <4>3, <4>4 DEF Route, Usable, Knows, In, Answered
        <3>4. QED BY <3>2, <3>3
    <2>4. QED BY <2>2, <2>3 DEF Routes
<1>9. QED BY <1>0, <1>1, <1>2, <1>3, <1>4, <1>5, <1>6, <1>7, <1>8 DEF Next, Proceed

\* A call raises only when every provider the router can use was asked, each
\* once: complete goes on through the fallbacks, whatever was preferred.
THEOREM EveryProviderIsAsked == Spec => []RaisesOnlyAfterAll
<1>1. Routes => RaisesOnlyAfterAll
    <2>1. SUFFICES ASSUME Routes, NEW c \in Calls
                   PROVE  /\ at[c] = "raised" => \A p \in Provider : Usable(p) => In(p, tried[c])
                          /\ \A i, j \in DOMAIN tried[c] : tried[c][i] = tried[c][j] => i = j
        BY DEF RaisesOnlyAfterAll
    <2>2. Route(c) /\ tried[c] \in Seq(Provider) /\ turn[c] \in Nat
        BY <2>1 DEF Routes, RouteTypes
    <2>3. DOMAIN tried[c] = 1..Len(tried[c])
        BY <2>2
    <2>4. ASSUME at[c] = "raised", NEW p \in Provider, Usable(p) PROVE In(p, tried[c])
        <3>1. PICK i \in 1..Len(Names(c)) : Names(c)[i] = p
            BY NamesAre
        <3>2. i \notin turn[c]..Len(Names(c))
            BY <2>2, <2>4, <3>1 DEF Route
        <3>3. Reached(c) = turn[c] - 1 /\ Len(Names(c)) \in Nat
            BY <2>4, NamesAre DEF Reached
        <3>4. i \in 1..Reached(c)
            BY <2>2, <3>1, <3>2, <3>3
        <3>5. QED BY <2>2, <2>4, <3>1, <3>4 DEF Route
    <2>5. QED BY <2>2, <2>3, <2>4 DEF Route
<1>2. QED BY <1>1, InitRoutes, StepRoutes, PTL DEF Spec

\* The first of a set of providers is the one before all others.
LEMMA FirstIs ==
    ASSUME NEW S \in SUBSET Provider, NEW i \in 1..4, Priority[i] \in S,
           \A m \in 1..(i - 1) : Priority[m] \notin S
    PROVE  First(S) = Priority[i]
<1>1. \A m \in 1..4 : Place(Priority[m]) = m
    BY Places DEF Priority
<1>2. \A q \in S : \E m \in 1..4 : q = Priority[m]
    BY DEF Provider
<1>3. \A q \in S : Place(Priority[i]) <= Place(q)
    BY <1>1, <1>2
<1>4. \A q \in S : (\A r \in S : Place(q) <= Place(r)) => q = Priority[i]
    BY <1>1, <1>2
<1>5. QED BY <1>3, <1>4 DEF First

\* The provider that select_route reports is the one complete asks first.
THEOREM RouteIsAskedFirst == Spec => []RouteIsFirstTried
<1>1. Routes => RouteIsFirstTried
    <2>1. SUFFICES ASSUME Routes, NEW c \in Calls, Preferred[c] = "grok", ~setup.testMode,
                          setup.explicit => setup.known \subseteq setup.configured
                   PROVE  /\ tried[c] # <<>> => tried[c][1] = PickAvailable
                          /\ at[c] = "raised" /\ tried[c] = <<>> => PickAvailable = "none"
        BY DEF RouteIsFirstTried
    <2>2. /\ Route(c) /\ tried[c] \in Seq(Provider) /\ turn[c] \in Nat
          /\ setup.known \subseteq Provider
        BY <2>1, SetupsAreRouters DEF Routes, RouteTypes
    <2> DEFINE S == {p \in Provider : Usable(p)}
    <2>3. S = {p \in Provider : Configured(p)}
        BY <2>1 DEF Usable, Configured, Knows
    <2>4. Len(Names(c)) = 4 /\ \A i \in 1..4 : Names(c)[i] = Priority[i] /\ Priority[i] \in Provider
        BY <2>1, Chains DEF Names, Priority, Provider
    <2>5. "grok" = Priority[1]
        BY DEF Priority
    <2>6. ASSUME tried[c] # <<>> PROVE tried[c][1] = PickAvailable
        <3>1. PICK j \in 1..4 :
                /\ tried[c][1] = Priority[j] /\ Usable(Priority[j])
                /\ \A m \in 1..(j - 1) : ~Usable(Priority[m])
            BY <2>2, <2>4, <2>6 DEF Route
        <3>2. Priority[j] \in S /\ \A m \in 1..(j - 1) : Priority[m] \notin S
            BY <2>4, <3>1
        <3>3. First(S) = Priority[j] /\ S # {}
            BY <3>2, FirstIs
        <3>4. CASE setup.explicit /\ Knows("grok")
            <4>1. j = 1
                BY <2>5, <3>1, <3>4 DEF Usable
            <4>2. QED BY <2>1, <2>5, <3>1, <3>4, <4>1 DEF PickAvailable
        <3>5. CASE ~(setup.explicit /\ Knows("grok"))
            BY <2>1, <2>3, <3>1, <3>3, <3>5 DEF PickAvailable
        <3>6. QED BY <3>4, <3>5
    <2>7. ASSUME at[c] = "raised", tried[c] = <<>> PROVE PickAvailable = "none"
        <3>1. Reached(c) = turn[c] - 1
            BY <2>7 DEF Reached
        <3>2. \A j \in 1..Reached(c) : ~Usable(Names(c)[j])
            BY <2>2, <2>7 DEF Route, In
        <3>3. \A j \in turn[c]..4 : ~Usable(Names(c)[j])
            BY <2>2, <2>4, <2>7 DEF Route
        <3>4. \A j \in 1..4 : ~Usable(Priority[j])
            BY <2>2, <2>4, <3>1, <3>2, <3>3
        <3>5. S = {}
            BY <3>4 DEF Provider
        <3>6. ~(setup.explicit /\ Knows("grok"))
            BY <2>5, <3>4 DEF Usable
        <3>7. QED BY <2>1, <2>3, <3>5, <3>6 DEF PickAvailable
    <2>8. QED BY <2>6, <2>7
<1>2. QED BY <1>1, InitRoutes, StepRoutes, PTL DEF Spec

----------------------------------------------------------------------------
(* The accounts of the attempts *)

Asking == {"asked"} \cup Answered
Record == [tokens : 0..1, costs : 0..2, success : 0..2, failure : 0..1,
           tokenMetric : 0..2, costMetric : 0..1]
AllCosts == IF setup.shared THEN 2 ELSE 1
Failed == [NoRecord EXCEPT !.failure = 1]

\* A record, by its counts.
Counts(tokens, costs, success, failure, tokenMetric, costMetric) ==
    [tokens |-> tokens, costs |-> costs, success |-> success, failure |-> failure,
     tokenMetric |-> tokenMetric, costMetric |-> costMetric]

\* What is recorded of the provider asked last, at a stage of its call.
LastRecord(s) ==
    IF s = "asked" THEN NoRecord
    ELSE IF s \in {"check", "create", "lookup"} THEN Counts(1, 1, 1, 0, 1, 0)
    ELSE IF s = "append" THEN Counts(1, AllCosts, 1, 0, 1, 0)
    ELSE Counts(1, AllCosts, 2, 0, 2, 1)

LastAsked(c) ==
    at[c] \in Asking => /\ tried[c] # <<>> /\ tried[c][Len(tried[c])] = Asked(c)
                        /\ Asked(c) \in Provider

\* What is recorded of provider p for call c.
Account(c, p) ==
    IF at[c] = "gone" \/ ~In(p, tried[c]) THEN NoRecord
    ELSE IF at[c] \in Asking /\ p = Asked(c) THEN LastRecord(at[c])
    ELSE Failed

Attempts(c) == LastAsked(c) /\ \A p \in Provider : ledger[c][p] = Account(c, p)

Books == ledger \in [Calls -> [Provider -> Record]] /\ \A c \in Calls : Attempts(c)

\* The accounts are records.
LEMMA AccountTypes ==
    ASSUME NEW s PROVE NoRecord \in Record /\ Failed \in Record /\ LastRecord(s) \in Record
BY DEF NoRecord, Failed, LastRecord, Counts, AllCosts, Record

\* What the metrics add to counts, count by count.
LEMMA MetricAdds ==
    ASSUME NEW t, NEW n, NEW a, NEW f, NEW x, NEW y, NEW tokens, NEW cost
    PROVE  /\ Metric(Counts(t, n, a, f, x, y), "success", tokens, cost)
                = Counts(t, n, a + 1, f, x + tokens, y + cost)
           /\ Metric(Counts(t, n, a, f, x, y), "failure", tokens, cost)
                = Counts(t, n, a, f + 1, x + tokens, y + cost)
<1> DEFINE l == Counts(t, n, a, f, x, y)
<1>1. ASSUME NEW b, NEW g
      PROVE  [[Counts(t, n, b, g, x, y) EXCEPT !.tokenMetric = @ + tokens]
                EXCEPT !.costMetric = @ + cost] = Counts(t, n, b, g, x + tokens, y + cost)
    <2>1. [Counts(t, n, b, g, x, y) EXCEPT !.tokenMetric = @ + tokens]
            = Counts(t, n, b, g, x + tokens, y)
        BY DEF Counts
    <2>2. [Counts(t, n, b, g, x + tokens, y) EXCEPT !.costMetric = @ + cost]
            = Counts(t, n, b, g, x + tokens, y + cost)
        BY DEF Counts
    <2>3. QED BY <2>1, <2>2
<1>2. /\ [l EXCEPT !.success = @ + 1] = Counts(t, n, a + 1, f, x, y)
      /\ [l EXCEPT !.failure = @ + 1] = Counts(t, n, a, f + 1, x, y)
    BY DEF Counts
<1> HIDE DEF l
<1>3. Metric(l, "success", tokens, cost) =
        [[[l EXCEPT !.success = @ + 1] EXCEPT !.tokenMetric = @ + tokens]
            EXCEPT !.costMetric = @ + cost]
    BY DEF Metric
<1>4. Metric(l, "failure", tokens, cost) =
        [[[l EXCEPT !.failure = @ + 1] EXCEPT !.tokenMetric = @ + tokens]
            EXCEPT !.costMetric = @ + cost]
    BY DEF Metric
<1>5. [[Counts(t, n, a + 1, f, x, y) EXCEPT !.tokenMetric = @ + tokens]
        EXCEPT !.costMetric = @ + cost] = Counts(t, n, a + 1, f, x + tokens, y + cost)
    BY <1>1, Zenon
<1>6. [[Counts(t, n, a, f + 1, x, y) EXCEPT !.tokenMetric = @ + tokens]
        EXCEPT !.costMetric = @ + cost] = Counts(t, n, a, f + 1, x + tokens, y + cost)
    BY <1>1, Zenon
<1>7. Metric(l, "success", tokens, cost) = Counts(t, n, a + 1, f, x + tokens, y + cost)
    BY <1>2, <1>3, <1>5, Zenon
<1>8. Metric(l, "failure", tokens, cost) = Counts(t, n, a, f + 1, x + tokens, y + cost)
    BY <1>2, <1>4, <1>6, Zenon
<1>9. QED BY <1>7, <1>8 DEF l

\* What a failure, an answer, the usage tracker and its metric add, stage by stage.
LEMMA StageRecords ==
    /\ Metric(LastRecord("asked"), "failure", 0, 0) = Failed
    /\ Metric(CostRecord(TokenRecord(LastRecord("asked"))), "success", 1, 0) = LastRecord("check")
    /\ (IF setup.shared THEN CostRecord(LastRecord("lookup")) ELSE LastRecord("lookup"))
            = LastRecord("append")
    /\ Metric(LastRecord("append"), "success", 1, 1) = LastRecord("number")
<1>1. /\ LastRecord("asked") = NoRecord /\ LastRecord("check") = Counts(1, 1, 1, 0, 1, 0)
      /\ LastRecord("lookup") = Counts(1, 1, 1, 0, 1, 0)
      /\ LastRecord("append") = Counts(1, AllCosts, 1, 0, 1, 0)
      /\ LastRecord("number") = Counts(1, AllCosts, 2, 0, 2, 1)
    BY DEF LastRecord
<1>2. 0 + 0 = 0 /\ 0 + 1 = 1 /\ 1 + 0 = 1 /\ 1 + 1 = 2
    OBVIOUS
<1>3. NoRecord = Counts(0, 0, 0, 0, 0, 0) /\ Failed = Counts(0, 0, 0, 1, 0, 0)
    BY DEF NoRecord, Failed, Counts
<1>4. Metric(NoRecord, "failure", 0, 0) = Failed
    <2>1. Metric(Counts(0, 0, 0, 0, 0, 0), "failure", 0, 0) = Counts(0, 0, 0, 0 + 1, 0 + 0, 0 + 0)
        BY MetricAdds
    <2>2. QED BY <1>2, <1>3, <2>1
<1>5. Metric(CostRecord(TokenRecord(NoRecord)), "success", 1, 0) = Counts(1, 1, 1, 0, 1, 0)
    <2>1. CostRecord(TokenRecord(NoRecord)) = Counts(1, 1, 0, 0, 0, 0)
        <3>1. TokenRecord(NoRecord) = Counts(1, 0, 0, 0, 0, 0)
            BY <1>3 DEF TokenRecord, Counts
        <3>2. QED BY <3>1 DEF CostRecord, Counts
    <2>2. Metric(Counts(1, 1, 0, 0, 0, 0), "success", 1, 0) = Counts(1, 1, 0 + 1, 0, 0 + 1, 0 + 0)
        BY MetricAdds
    <2>3. QED BY <1>2, <2>1, <2>2
<1>6. CostRecord(Counts(1, 1, 1, 0, 1, 0)) = Counts(1, 2, 1, 0, 1, 0)
    BY DEF CostRecord, Counts
<1>7. Metric(Counts(1, AllCosts, 1, 0, 1, 0), "success", 1, 1) = Counts(1, AllCosts, 2, 0, 2, 1)
    <2>1. Metric(Counts(1, AllCosts, 1, 0, 1, 0), "success", 1, 1)
            = Counts(1, AllCosts, 1 + 1, 0, 1 + 1, 0 + 1)
        BY MetricAdds
    <2>2. QED BY <1>2, <2>1
<1>8. AllCosts = IF setup.shared THEN 2 ELSE 1
    BY DEF AllCosts
<1>9. QED BY <1>1, <1>4, <1>5, <1>6, <1>7, <1>8

\* At first nothing is recorded of anybody.
LEMMA InitBooks == Init => Books
<1>1. SUFFICES ASSUME Init PROVE Books
    OBVIOUS
<1>2. /\ ledger = [c \in Calls |-> NoRecords]
      /\ \A c \in Calls : at[c] = "new" /\ tried[c] = <<>>
    BY <1>1 DEF Init
<1>3. ledger \in [Calls -> [Provider -> Record]]
    BY <1>2, AccountTypes DEF NoRecords
<1>4. ASSUME NEW c \in Calls PROVE Attempts(c)
    <2>1. \A p \in Provider : ledger[c][p] = NoRecord /\ ~In(p, tried[c])
        BY <1>2 DEF NoRecords, In
    <2>2. QED BY <1>2, <2>1 DEF Attempts, LastAsked, Account, Asking, Answered
<1>5. QED BY <1>3, <1>4 DEF Books

\* The steps of one call: the others' accounts are left alone.
LEMMA OneBook ==
    ASSUME Books, NEW c \in Calls, setup' = setup, Attempts(c)',
           ledger' \in [Calls -> [Provider -> Record]],
           \A d \in Calls \ {c} : /\ at'[d] = at[d] /\ turn'[d] = turn[d] /\ tried'[d] = tried[d]
                                  /\ ledger'[d] = ledger[d]
    PROVE  Books'
<1>1. ASSUME NEW d \in Calls \ {c} PROVE Attempts(d)'
    <2>1. /\ at'[d] = at[d] /\ turn'[d] = turn[d] /\ tried'[d] = tried[d]
          /\ ledger'[d] = ledger[d] /\ Names(d)' = Names(d) /\ Attempts(d)
        BY DEF Books, Names
    <2>2. Asked(d)' = Asked(d) /\ \A s : LastRecord(s)' = LastRecord(s)
        BY <2>1 DEF Asked, LastRecord, AllCosts
    <2>3. QED BY <2>1, <2>2 DEF Attempts, LastAsked, Account, In
<1>2. QED BY <1>1 DEF Books

\* A call moves on without recording anything.
LEMMA NothingRecorded ==
    ASSUME Routes, Books, NEW c \in Calls, NEW s, Goto(c, s),
           UNCHANGED <<setup, turn, ledger, tried>>,
           \/ at[c] \in {"new", "trying"} /\ s \in {"trying", "raised"}
           \/ at[c] \in {"check", "create"} /\ s \in {"create", "lookup"}
           \/ at[c] \in {"number", "commit"} /\ s \in {"commit", "returned"}
    PROVE  Books'
<1>1. at'[c] = s /\ \A d \in Calls \ {c} : at'[d] = at[d]
    BY DEF Goto, Routes, RouteTypes
<1>2. /\ Attempts(c) /\ Names(c)' = Names(c) /\ Asked(c)' = Asked(c)
      /\ \A q : LastRecord(q)' = LastRecord(q)
    BY DEF Books, Names, Asked, LastRecord, AllCosts
<1>3. /\ at[c] # "gone" /\ s # "gone" /\ (at[c] \in Asking <=> s \in Asking)
      /\ s \in Asking => LastRecord(s) = LastRecord(at[c])
    BY DEF Asking, Answered, LastRecord
<1>4. Attempts(c)'
    BY <1>1, <1>2, <1>3 DEF Attempts, LastAsked, Account, In
<1>5. QED BY <1>1, <1>4, OneBook DEF Books

\* A call records something of the provider it asked.
LEMMA SomethingRecorded ==
    ASSUME Routes, Books, NEW c \in Calls, NEW l \in Record, NEW s, Goto(c, s), Tracked(c, l),
           at[c] \in Asking, UNCHANGED <<setup, tried>>, turn' \in [Calls -> Nat],
           \A d \in Calls \ {c} : turn'[d] = turn[d],
           \/ s = "trying" /\ l = Failed
           \/ s \in Answered /\ turn' = turn /\ l = LastRecord(s)
    PROVE  Books'
<1>1. at'[c] = s /\ \A d \in Calls \ {c} : at'[d] = at[d]
    BY DEF Goto, Routes, RouteTypes
<1>2. /\ Attempts(c) /\ LastAsked(c) /\ Asked(c) \in Provider /\ tried[c] # <<>>
      /\ tried[c][Len(tried[c])] = Asked(c)
    BY DEF Books, Attempts, LastAsked
<1>3. In(Asked(c), tried[c])
    <2>1. tried[c] \in Seq(Provider)
        BY DEF Routes, RouteTypes
    <2>2. Len(tried[c]) \in DOMAIN tried[c]
        BY <1>2, <2>1
    <2>3. QED BY <1>2, <2>2 DEF In
<1>4. /\ ledger' \in [Calls -> [Provider -> Record]] /\ ledger'[c][Asked(c)] = l
      /\ \A p \in Provider \ {Asked(c)} : ledger'[c][p] = ledger[c][p]
      /\ \A d \in Calls \ {c} : ledger'[d] = ledger[d]
    BY <1>2 DEF Books, Tracked
<1>5. \A p \in Provider \ {Asked(c)} :
        ledger[c][p] = IF In(p, tried[c]) THEN Failed ELSE NoRecord
    BY <1>2 DEF Attempts, Account, Asking, Answered
<1>6. Names(c)' = Names(c) /\ \A q : LastRecord(q)' = LastRecord(q)
    BY DEF Names, LastRecord, AllCosts
<1>7. \A p : In(p, tried[c])' = In(p, tried[c])
    BY DEF In
<1>8. CASE s = "trying"
    <2>1. s \notin Asking /\ s # "gone" /\ l = Failed
        BY <1>8 DEF Asking, Answered
    <2>2. Attempts(c)'
        BY <1>1, <1>3, <1>4, <1>5, <1>7, <2>1 DEF Attempts, LastAsked, Account, Failed, NoRecord
    <2>3. QED BY <1>1, <1>4, <2>2, OneBook
<1>9. CASE s \in Answered
    <2>1. s \in Asking /\ s # "gone" /\ s # "trying" /\ turn' = turn /\ l = LastRecord(s)
        BY <1>9 DEF Asking, Answered
    <2>2. Asked(c)' = Asked(c)
        BY <1>6, <2>1 DEF Asked
    <2>3. LastAsked(c)'
        BY <1>2, <2>2 DEF LastAsked
    <2>4. ASSUME NEW p \in Provider PROVE (ledger[c][p] = Account(c, p))'
        BY <1>1, <1>3, <1>4, <1>5, <1>6, <1>7, <2>1, <2>2 DEF Account, Failed, NoRecord
    <2>5. Attempts(c)'
        BY <2>3, <2>4 DEF Attempts
    <2>6. QED BY <1>1, <1>4, <2>1, <2>5, OneBook
<1>10. QED BY <1>8, <1>9

\* Another provider is asked, of which nothing is recorded yet.
LEMMA AskBooks == ASSUME Routes, Routes', Books, NEW c \in Calls, Ask(c) PROVE Books'
<1>1. PICK i \in turn[c]..Len(Names(c)) :
        /\ Usable(Names(c)[i]) /\ turn' = [turn EXCEPT ![c] = i]
        /\ tried' = [tried EXCEPT ![c] = Append(@, Names(c)[i])]
    BY DEF Ask
<1>2. /\ at[c] = "trying" /\ at' = [at EXCEPT ![c] = "asked"] /\ setup' = setup
      /\ ledger' = ledger /\ tried[c] \in Seq(Provider) /\ Attempts(c)
    BY DEF Ask, Goto, Routes, RouteTypes, Books
<1> DEFINE p == Names(c)[i]
           old == tried[c]
           new == Append(old, p)
<1>3. p \in Provider
    BY <1>1, SetupsAreRouters DEF Usable, Knows, Routes, RouteTypes
<1>4. /\ at'[c] = "asked" /\ turn'[c] = i /\ tried'[c] = new
      /\ \A d \in Calls \ {c} : at'[d] = at[d] /\ turn'[d] = turn[d] /\ tried'[d] = tried[d]
    BY <1>1, <1>2 DEF Routes, RouteTypes
<1> HIDE DEF p
<1>5. /\ new \in Seq(Provider) /\ Len(new) = Len(old) + 1 /\ new[Len(old) + 1] = p
      /\ \A m \in 1..Len(old) : new[m] = old[m]
      /\ DOMAIN new = 1..(Len(old) + 1) /\ DOMAIN old = 1..Len(old) /\ Len(old) \in Nat
    BY <1>2, <1>3, AppendProperties
<1> HIDE DEF new
<1>6. Asked(c)' = p
    BY <1>4 DEF Asked, Names, p
<1>7. ~In(p, old)
    <2>1. \A m, n \in 1..Len(new) : new[m] = new[n] => m = n
        BY <1>4 DEF Routes, Route
    <2>2. /\ \A m \in 1..Len(old) : m \in 1..Len(new) /\ m # Len(old) + 1
          /\ Len(old) + 1 \in 1..Len(new)
        BY <1>5
    <2>3. QED BY <1>5, <2>1, <2>2 DEF In
<1>8. \A q : In(q, new) <=> q = p \/ In(q, old)
    <2>1. \A m : m \in 1..(Len(old) + 1) <=> m \in 1..Len(old) \/ m = Len(old) + 1
        BY <1>5
    <2>2. QED BY <1>5, <2>1 DEF In
<1>9. LastAsked(c)'
    <2>1. new # <<>> /\ new[Len(new)] = p
        BY <1>5
    <2>2. QED BY <1>3, <1>4, <1>6, <2>1 DEF LastAsked
<1>10. ASSUME NEW q \in Provider PROVE (ledger[c][q] = Account(c, q))'
    <2>1. ledger[c][q] = IF In(q, old) THEN Failed ELSE NoRecord
        BY <1>2 DEF Attempts, Account, Asking, Answered
    <2>2. Account(c, q)' = IF ~In(q, new) THEN NoRecord
                           ELSE IF q = p THEN NoRecord ELSE Failed
        BY <1>4, <1>6 DEF Account, In, Asking, LastRecord, NoRecord, Failed
    <2>3. QED BY <1>2, <1>7, <1>8, <2>1, <2>2
<1>11. Attempts(c)'
    BY <1>9, <1>10 DEF Attempts
<1>12. QED BY <1>2, <1>4, <1>11, OneBook DEF Books

\* Every step keeps the accounts.
LEMMA StepBooks == Routes /\ Routes' /\ Books /\ [Next]_vars => Books'
<1>0. SUFFICES ASSUME Routes, Routes', Books, [Next]_vars PROVE Books'
    OBVIOUS
<1>1. CASE UNCHANGED vars
    <2>1. UNCHANGED <<setup, at, turn, ledger, tried>>
        BY <1>1 DEF vars
    <2>2. ASSUME NEW c \in Calls PROVE Attempts(c)'
        <3>1. Attempts(c) /\ Names(c)' = Names(c)
            BY <1>0 DEF Books, Names
        <3>2. QED BY <2>1, <3>1
                  DEF Attempts, LastAsked, Account, In, Asked, LastRecord, AllCosts
    <2>3. QED BY <1>0, <2>1, <2>2 DEF Books
<1>2. ASSUME NEW c \in Calls, at[c] \in Asking
      PROVE  Spent(c) = LastRecord(at[c]) /\ turn \in [Calls -> Nat]
    <2>1. /\ LastAsked(c) /\ \A p \in Provider : ledger[c][p] = Account(c, p)
          /\ tried[c] \in Seq(Provider) /\ turn \in [Calls -> Nat]
        BY <1>0 DEF Books, Attempts, Routes, RouteTypes
    <2>2. /\ Asked(c) \in Provider /\ Len(tried[c]) \in DOMAIN tried[c]
          /\ tried[c][Len(tried[c])] = Asked(c)
        BY <1>2, <2>1 DEF LastAsked
    <2>3. In(Asked(c), tried[c]) /\ at[c] # "gone"
        BY <1>2, <2>2 DEF In, Asking, Answered
    <2>4. QED BY <1>2, <2>1, <2>2, <2>3 DEF Account, Spent
<1>3. ASSUME NEW c \in Calls, Start(c) \/ Raise(c) PROVE Books'
    BY <1>0, <1>3, NothingRecorded DEF Start, Raise
<1>4. ASSUME NEW c \in Calls, Ask(c) PROVE Books'
    BY <1>0, <1>4, AskBooks
<1>5. ASSUME NEW c \in Calls, Fails(c) PROVE Books'
    <2>1. /\ at[c] = "asked" /\ Goto(c, "trying") /\ UNCHANGED <<setup, tried>>
          /\ Tracked(c, Metric(Spent(c), "failure", 0, 0)) /\ turn' = [turn EXCEPT ![c] = @ + 1]
        BY <1>5 DEF Fails
    <2>2. Tracked(c, Failed) /\ at[c] \in Asking /\ turn \in [Calls -> Nat] /\ Failed \in Record
        BY <1>2, <2>1, StageRecords, AccountTypes DEF Asking
    <2>3. turn' \in [Calls -> Nat] /\ \A d \in Calls \ {c} : turn'[d] = turn[d]
        BY <2>1, <2>2
    <2>4. QED BY <1>0, <2>1, <2>2, <2>3, SomethingRecorded
<1>6. ASSUME NEW c \in Calls, Answers(c) PROVE Books'
    <2>1. /\ at[c] = "asked" /\ Goto(c, "check") /\ UNCHANGED <<setup, turn, tried>>
          /\ Tracked(c, Metric(CostRecord(TokenRecord(Spent(c))), "success", 1, 0))
        BY <1>6 DEF Answers
    <2>2. /\ Tracked(c, LastRecord("check")) /\ at[c] \in Asking /\ turn \in [Calls -> Nat]
          /\ LastRecord("check") \in Record /\ "check" \in Answered
        BY <1>2, <2>1, StageRecords, AccountTypes DEF Asking, Answered
    <2>3. QED BY <1>0, <2>1, <2>2, SomethingRecorded
<1>7. ASSUME NEW c \in Calls, Check(c) \/ Create(c) PROVE Books'
    BY <1>0, <1>7, NothingRecorded DEF Check, Create
<1>8. ASSUME NEW c \in Calls, Lookup(c) PROVE Books'
    <2>1. /\ at[c] = "lookup" /\ Goto(c, "append") /\ UNCHANGED <<setup, turn, tried>>
          /\ Tracked(c, IF setup.shared THEN CostRecord(Spent(c)) ELSE Spent(c))
        BY <1>8 DEF Lookup
    <2>2. /\ Tracked(c, LastRecord("append")) /\ at[c] \in Asking /\ turn \in [Calls -> Nat]
          /\ LastRecord("append") \in Record /\ "append" \in Answered
        BY <1>2, <2>1, StageRecords, AccountTypes DEF Asking, Answered
    <2>3. QED BY <1>0, <2>1, <2>2, SomethingRecorded
<1>9. ASSUME NEW c \in Calls, AppendCall(c) PROVE Books'
    <2>1. /\ at[c] = "append" /\ Goto(c, "number") /\ UNCHANGED <<setup, turn, tried>>
          /\ Tracked(c, Metric(Spent(c), "success", 1, 1))
        BY <1>9 DEF AppendCall
    <2>2. /\ Tracked(c, LastRecord("number")) /\ at[c] \in Asking /\ turn \in [Calls -> Nat]
          /\ LastRecord("number") \in Record /\ "number" \in Answered
        BY <1>2, <2>1, StageRecords, AccountTypes DEF Asking, Answered
    <2>3. QED BY <1>0, <2>1, <2>2, SomethingRecorded
<1>10. ASSUME NEW c \in Calls, NumberRow(c) \/ Commit(c) \/ CommitFails(c) PROVE Books'
    BY <1>0, <1>10, NothingRecorded DEF NumberRow, Commit, CommitFails
<1>11. CASE Crash
    <2>1. /\ ledger' = [c \in Calls |-> NoRecords] /\ UNCHANGED <<setup, turn, tried>>
          /\ at' = [c \in Calls |-> IF at[c] = "new" THEN "new" ELSE "gone"]
        BY <1>11 DEF Crash
    <2>2. ledger' \in [Calls -> [Provider -> Record]]
        BY <2>1, AccountTypes DEF NoRecords
    <2>3. ASSUME NEW c \in Calls PROVE Attempts(c)'
        <3>1. \A p \in Provider : ledger'[c][p] = NoRecord
            BY <2>1 DEF NoRecords
        <3>2. /\ at'[c] = IF at[c] = "new" THEN "new" ELSE "gone"
              /\ at[c] = "new" => tried'[c] = <<>>
            BY <1>0, <2>1 DEF Routes, Route
        <3>3. at[c] = "new" => \A p : ~In(p, tried[c])'
            BY <3>2 DEF In
        <3>4. QED BY <3>1, <3>2, <3>3 DEF Attempts, LastAsked, Account, Asking, Answered
    <2>4. QED BY <2>2, <2>3 DEF Books
<1>12. QED BY <1>0, <1>1, <1>3, <1>4, <1>5, <1>6, <1>7, <1>8, <1>9, <1>10, <1>11
           DEF Next, Proceed

\* Each attempt is recorded for the provider that was asked, a failure as that
\* alone and an answer as the code does, twice in the metrics.
THEOREM Accounting == Spec => []AttemptsAccounted
<1>1. Routes /\ Books => AttemptsAccounted
    <2>1. SUFFICES ASSUME Routes, Books, NEW c \in Calls, at[c] \in {"raised", "returned"},
                          NEW p \in Provider
                   PROVE  ledger[c][p] =
                            IF ~In(p, tried[c]) THEN NoRecord
                            ELSE IF at[c] = "returned" /\ p = tried[c][Len(tried[c])]
                            THEN Counts(1, AllCosts, 2, 0, 2, 1)
                            ELSE Failed
        BY DEF AttemptsAccounted, Counts, AllCosts, Failed
    <2>2. LastAsked(c) /\ ledger[c][p] = Account(c, p)
        BY <2>1 DEF Books, Attempts
    <2>3. CASE at[c] = "raised"
        BY <2>2, <2>3 DEF Account, Asking, Answered
    <2>4. CASE at[c] = "returned"
        <3>1. /\ at[c] \in Asking /\ at[c] # "gone" /\ tried[c][Len(tried[c])] = Asked(c)
              /\ LastRecord(at[c]) = Counts(1, AllCosts, 2, 0, 2, 1)
            BY <2>2, <2>4 DEF LastAsked, Asking, Answered, LastRecord
        <3>2. QED BY <2>2, <2>4, <3>1 DEF Account
    <2>5. QED BY <2>1, <2>3, <2>4
<1>2. QED BY <1>1, InitRoutes, StepRoutes, InitBooks, StepBooks, PTL DEF Spec

----------------------------------------------------------------------------
(* The usage of the execution ids *)

Recording(c) == at[c] \in {"check", "create", "lookup", "append", "number", "commit"}
Known(k) == IF entry[k] = None THEN {} ELSE calls[entry[k]]
Done(k) == {c \in Calls : Key[c] = k /\ at[c] = "returned"}

UsageTypes ==
    /\ at \in [Calls -> Stages]
    /\ entry \in [Keys -> Calls \cup {None}]
    /\ calls \in [Calls -> SUBSET Calls]
    /\ held \in [Calls -> Calls \cup {None}]
    /\ row \in [Calls -> 0..Cardinality(Calls)]
    /\ rows \subseteq Keys \X (0..Cardinality(Calls)) /\ IsFiniteSet(rows)
    /\ crashes \in Nat

\* An entry is its execution id's, and the calls it holds are recorded ones.
Entries ==
    /\ \A k \in Keys : entry[k] # None => Key[entry[k]] = k
    /\ \A c \in Calls : \A d \in calls[c] :
            Key[d] = Key[c] /\ at[d] \in {"number", "commit", "returned"}

\* What a call has found and left behind at each stage.
Handled(c) ==
    /\ at[c] \in {"lookup", "append", "number", "commit"} => entry[Key[c]] # None
    /\ at[c] \in {"append", "number", "commit"} => held[c] \in Calls /\ Key[held[c]] = Key[c]
    /\ at[c] \in {"number", "commit"} => c \in calls[held[c]]
    /\ c \in refused => at[c] \in {"returned", "gone"}
    /\ at[c] = "returned" /\ c \notin refused => RowsOf(Key[c]) # {}

\* The calls of an execution id were recorded one after the other.
Alone(k) ==
    /\ \A c, d \in Calls : Key[c] = k /\ Key[d] = k /\ Recording(c) /\ Recording(d) => c = d
    /\ Known(k) = Recorded(k)
    /\ \A c \in Calls : Key[c] = k =>
            /\ at[c] \in {"append", "number", "commit"} => held[c] = entry[k]
            /\ at[c] = "create" => entry[k] = None

\* Its rows are numbered in the order of the calls, in a process that lived on.
Numbered(k) ==
    /\ Cardinality(RowsOf(k)) = Cardinality(Done(k) \ refused)
    /\ \A id \in RowsOf(k) : id[2] <= Cardinality(Done(k))
    /\ \A c \in Calls : Key[c] = k /\ at[c] = "commit" => row[c] = Cardinality(Done(k)) + 1

Usage ==
    /\ UsageTypes
    /\ Entries
    /\ \A c \in Calls : Handled(c)
    /\ \A k \in Keys : k \notin overlapped => Alone(k) /\ (crashes = 0 => Numbered(k))

\* At first nothing is recorded.
LEMMA InitUsage == Init => Usage
<1>1. SUFFICES ASSUME Init PROVE Usage
    OBVIOUS
<1>2. UsageTypes
    <2>1. Cardinality(Calls) \in Nat
        BY CallsAreFinite, FS_CardinalityType
    <2>2. 0 \in 0..Cardinality(Calls) /\ IsFiniteSet({})
        BY <2>1, FS_EmptySet
    <2>3. QED BY <1>1, <2>2 DEF Init, UsageTypes, Stages
<1>3. \A c \in Calls : at[c] = "new" /\ calls[c] = {}
    BY <1>1 DEF Init
<1>4. \A k \in Keys : entry[k] = None
    BY <1>1 DEF Init
<1>5. rows = {} /\ refused = {}
    BY <1>1 DEF Init
<1>6. Entries /\ \A c \in Calls : Handled(c)
    BY <1>3, <1>4, <1>5 DEF Entries, Handled
<1>7. ASSUME NEW k \in Keys PROVE Alone(k) /\ Numbered(k)
    <2>1. Recorded(k) = {} /\ Known(k) = {} /\ Done(k) = {} /\ RowsOf(k) = {}
        BY <1>3, <1>4, <1>5, <1>7 DEF Recorded, Known, Done, RowsOf
    <2>2. Done(k) \ refused = {}
        BY <2>1
    <2>3. QED BY <1>3, <2>1, <2>2 DEF Alone, Numbered, Recording
<1>8. QED BY <1>2, <1>6, <1>7 DEF Usage

\* The steps of one call: it adds to what there is, and only under its own
\* execution id.
LEMMA OneUsage ==
    ASSUME Usage, NEW c \in Calls, UsageTypes', Entries', Handled(c)',
           \A d \in Calls \ {c} : /\ at'[d] = at[d] /\ held'[d] = held[d] /\ row'[d] = row[d]
                                  /\ d \in refused' <=> d \in refused,
           \A k \in Keys \ {Key[c]} : entry'[k] = entry[k],
           entry[Key[c]] # None => entry'[Key[c]] # None,
           \A e \in Calls : calls[e] \subseteq calls'[e],
           \A e \in Calls : Key[e] # Key[c] => calls'[e] = calls[e],
           rows \subseteq rows', \A id \in rows' : id \in rows \/ id[1] = Key[c],
           overlapped \subseteq overlapped', crashes' = crashes,
           Key[c] \notin overlapped' => Alone(Key[c])' /\ (crashes = 0 => Numbered(Key[c])')
    PROVE  Usage'
<1>1. \A d \in Calls : Key[d] \in Keys
    BY KeyAssumption
<1>2. \A k \in Keys : RowsOf(k) \subseteq RowsOf(k)'
    BY DEF RowsOf
<1>3. ASSUME NEW d \in Calls \ {c} PROVE Handled(d)'
    <2>1. Handled(d)
        BY DEF Usage
    <2>2. entry[Key[d]] # None => entry'[Key[d]] # None
        BY <1>1
    <2>3. RowsOf(Key[d]) # {} => RowsOf(Key[d])' # {}
        BY <1>1, <1>2
    <2>4. QED BY <2>1, <2>2, <2>3 DEF Handled
<1>4. ASSUME NEW k \in Keys \ {Key[c]}, k \notin overlapped'
      PROVE  Alone(k)' /\ (crashes' = 0 => Numbered(k)')
    <2>1. Alone(k) /\ (crashes = 0 => Numbered(k))
        BY <1>4 DEF Usage
    <2>2. \A d \in Calls : Key[d] = k => /\ at'[d] = at[d] /\ held'[d] = held[d]
                                         /\ row'[d] = row[d]
                                         /\ d \in refused' <=> d \in refused
        BY <1>4
    <2>3. Recorded(k)' = Recorded(k) /\ Done(k)' = Done(k)
        BY <2>2 DEF Recorded, Done
    <2>4. (Done(k) \ refused)' = Done(k) \ refused
        BY <2>2 DEF Done
    <2>5. entry'[k] = entry[k] /\ Known(k)' = Known(k)
        BY <1>4 DEF Known, Usage, Entries, UsageTypes
    <2>6. RowsOf(k)' = RowsOf(k)
        BY <1>4 DEF RowsOf
    <2>7. Alone(k)'
        BY <2>1, <2>2, <2>3, <2>5 DEF Alone, Recording
    <2>8. crashes = 0 => Numbered(k)'
        BY <2>1, <2>2, <2>3, <2>4, <2>6 DEF Numbered
    <2>9. QED BY <2>7, <2>8
<1>5. QED BY <1>1, <1>3, <1>4 DEF Usage

\* A call moves on, and the entries and the table are left alone.
LEMMA PassesBy ==
    ASSUME Usage, NEW c \in Calls, NEW s \in Stages, Goto(c, s),
           UNCHANGED <<entry, calls, held, row, rows, refused, crashes>>,
           overlapped \subseteq overlapped',
           \/ at[c] \in {"new", "trying", "asked"} /\ s \in {"trying", "asked", "raised"}
           \/ /\ at[c] = "asked" /\ s = "check"
              /\ Key[c] \notin overlapped' => \A d \in Calls : Key[d] = Key[c] => ~Recording(d)
           \/ at[c] = "check" /\ s = "create" /\ entry[Key[c]] = None
           \/ at[c] = "check" /\ s = "lookup" /\ entry[Key[c]] # None
    PROVE  Usage'
<1>1. /\ at'[c] = s /\ \A d \in Calls \ {c} : at'[d] = at[d]
      /\ UsageTypes'
    BY DEF Goto, Usage, UsageTypes
<1>2. \A d \in Calls : /\ at[d] \in {"number", "commit", "returned"} <=>
                          at'[d] \in {"number", "commit", "returned"}
                       /\ at[d] = "returned" <=> at'[d] = "returned"
    BY <1>1
<1>3. Entries'
    BY <1>2 DEF Usage, Entries, UsageTypes
<1>4. Handled(c)'
    BY <1>1 DEF Usage, Handled, RowsOf
<1>5. ASSUME Key[c] \notin overlapped' PROVE Alone(Key[c])' /\ (crashes = 0 => Numbered(Key[c])')
    <2> DEFINE k == Key[c]
    <2>1. k \in Keys /\ k \notin overlapped
        BY <1>5, KeyAssumption
    <2>2. Alone(k) /\ (crashes = 0 => Numbered(k))
        BY <2>1 DEF Usage
    <2>3. Recorded(k)' = Recorded(k) /\ Done(k)' = Done(k) /\ Known(k)' = Known(k)
        BY <1>2 DEF Recorded, Done, Known
    <2>4. RowsOf(k)' = RowsOf(k) /\ (Done(k) \ refused)' = Done(k) \ refused
        BY <2>3 DEF RowsOf
    <2>5. ASSUME NEW d \in Calls, NEW e \in Calls, Key[d] = k, Key[e] = k,
                 Recording(d)', Recording(e)'
          PROVE  d = e
        BY <1>1, <1>5, <2>2, <2>5 DEF Alone, Recording
    <2>6. ASSUME NEW d \in Calls, Key[d] = k
          PROVE  /\ at'[d] \in {"append", "number", "commit"} => held'[d] = entry'[k]
                 /\ at'[d] = "create" => entry'[k] = None
        BY <1>1, <2>2, <2>6 DEF Alone
    <2>7. Alone(k)'
        BY <2>2, <2>3, <2>5, <2>6 DEF Alone
    <2>8. \A d \in Calls : at'[d] = "commit" => at[d] = "commit"
        BY <1>1
    <2>9. crashes = 0 => Numbered(k)'
        BY <2>2, <2>3, <2>4, <2>8 DEF Numbered
    <2>10. QED BY <2>7, <2>9
<1>6. QED BY <1>1, <1>3, <1>4, <1>5, OneUsage

\* An execution id two calls of which are not recorded at once has the calls
\* and rows of those that returned, and of call c what its stage says.
LEMMA OnlyOne ==
    ASSUME Usage, NEW c \in Calls, Recording(c), Key[c] \notin overlapped
    PROVE  /\ Key[c] \in Keys /\ Alone(Key[c]) /\ (crashes = 0 => Numbered(Key[c]))
           /\ \A d \in Calls \ {c} : Key[d] = Key[c] => ~Recording(d)
           /\ Recorded(Key[c]) = IF at[c] \in {"number", "commit"} THEN Done(Key[c]) \cup {c}
                                 ELSE Done(Key[c])
           /\ c \notin Done(Key[c]) /\ c \notin refused
<1>1. Key[c] \in Keys /\ Alone(Key[c]) /\ (crashes = 0 => Numbered(Key[c]))
    BY KeyAssumption DEF Usage
<1>2. \A d \in Calls \ {c} : Key[d] = Key[c] => ~Recording(d)
    BY <1>1 DEF Alone
<1>3. c \notin Done(Key[c]) /\ c \notin refused
    BY DEF Recording, Done, Usage, Handled
<1>4. Recorded(Key[c]) = IF at[c] \in {"number", "commit"} THEN Done(Key[c]) \cup {c}
                         ELSE Done(Key[c])
    BY <1>2 DEF Recorded, Done, Recording
<1>5. QED BY <1>1, <1>2, <1>3, <1>4

\* A new entry.
LEMMA CreateUsage == ASSUME Usage, NEW c \in Calls, Create(c) PROVE Usage'
<1>1. /\ at[c] = "create" /\ at' = [at EXCEPT ![c] = "lookup"]
      /\ entry' = [entry EXCEPT ![Key[c]] = c]
      /\ UNCHANGED <<calls, held, row, rows, overlapped, refused, crashes>>
    BY DEF Create, Goto
<1>2. /\ at'[c] = "lookup" /\ \A d \in Calls \ {c} : at'[d] = at[d]
      /\ Key[c] \in Keys /\ c # None /\ entry'[Key[c]] = c
      /\ \A k \in Keys \ {Key[c]} : entry'[k] = entry[k]
    BY <1>1, KeyAssumption, CallsAreFinite DEF Usage, UsageTypes
<1>3. UsageTypes'
    BY <1>1 DEF Usage, UsageTypes, Stages
<1>4. Entries'
    <2>1. \A k \in Keys : entry'[k] # None => Key[entry'[k]] = k
        BY <1>2 DEF Usage, Entries
    <2>2. \A e \in Calls : \A d \in calls'[e] :
                Key[d] = Key[e] /\ at'[d] \in {"number", "commit", "returned"}
        BY <1>1, <1>2 DEF Usage, Entries, UsageTypes
    <2>3. QED BY <2>1, <2>2 DEF Entries
<1>5. Handled(c)'
    BY <1>1, <1>2 DEF Usage, Handled
<1>6. ASSUME Key[c] \notin overlapped' PROVE Alone(Key[c])' /\ (crashes = 0 => Numbered(Key[c])')
    <2> DEFINE k == Key[c]
    <2>1. /\ k \in Keys /\ Alone(k) /\ (crashes = 0 => Numbered(k))
          /\ \A d \in Calls \ {c} : Key[d] = k => ~Recording(d)
        BY <1>1, <1>6, OnlyOne DEF Recording
    <2>2. entry[k] = None /\ Recorded(k) = {}
        BY <1>1, <2>1 DEF Alone, Known
    <2>3. calls[c] = {}
        <3>1. calls[c] \subseteq Recorded(k)
            BY DEF Usage, Entries, UsageTypes, Recorded
        <3>2. QED BY <2>2, <3>1
    <2>4. Recorded(k)' = {} /\ Done(k)' = Done(k) /\ RowsOf(k)' = RowsOf(k)
        BY <1>1, <1>2, <2>2 DEF Recorded, Done, RowsOf
    <2>5. Known(k)' = {}
        BY <1>1, <1>2, <2>3 DEF Known
    <2>6. \A d \in Calls \ {c} : Key[d] = k => ~Recording(d)'
        BY <1>2, <2>1 DEF Recording
    <2>7. ASSUME NEW d \in Calls, Key[d] = k
          PROVE  /\ at'[d] \in {"append", "number", "commit"} => held'[d] = entry'[k]
                 /\ at'[d] = "create" => entry'[k] = None
        BY <1>2, <2>6, <2>7 DEF Recording
    <2>8. Alone(k)'
        BY <2>4, <2>5, <2>6, <2>7 DEF Alone
    <2>9. \A d \in Calls : at'[d] = "commit" => at[d] = "commit"
        BY <1>2
    <2>10. (Done(k) \ refused)' = Done(k) \ refused
        BY <1>1, <2>4
    <2>11. crashes = 0 => Numbered(k)'
        BY <1>1, <2>1, <2>4, <2>9, <2>10 DEF Numbered
    <2>12. QED BY <2>8, <2>11
<1>7. QED BY <1>1, <1>2, <1>3, <1>4, <1>5, <1>6, OneUsage

\* The entry in the cache is looked up.
LEMMA LookupUsage == ASSUME Usage, NEW c \in Calls, Lookup(c) PROVE Usage'
<1>1. /\ at[c] = "lookup" /\ at' = [at EXCEPT ![c] = "append"]
      /\ held' = [held EXCEPT ![c] = entry[Key[c]]]
      /\ UNCHANGED <<entry, calls, row, rows, overlapped, refused, crashes>>
    BY DEF Lookup, Goto
<1>2. /\ at'[c] = "append" /\ held'[c] = entry[Key[c]]
      /\ \A d \in Calls \ {c} : at'[d] = at[d] /\ held'[d] = held[d]
      /\ Key[c] \in Keys /\ entry[Key[c]] # None /\ entry[Key[c]] \in Calls
      /\ Key[entry[Key[c]]] = Key[c]
    <2>1. Key[c] \in Keys
        BY KeyAssumption
    <2>2. entry[Key[c]] # None
        BY <1>1 DEF Usage, Handled
    <2>3. entry[Key[c]] \in Calls /\ Key[entry[Key[c]]] = Key[c]
        BY <2>1, <2>2 DEF Usage, UsageTypes, Entries
    <2>4. /\ at'[c] = "append" /\ held'[c] = entry[Key[c]]
          /\ \A d \in Calls \ {c} : at'[d] = at[d] /\ held'[d] = held[d]
        BY <1>1 DEF Usage, UsageTypes
    <2>5. QED BY <2>1, <2>2, <2>3, <2>4
<1>3. UsageTypes'
    BY <1>1, <1>2 DEF Usage, UsageTypes, Stages
<1>4. Entries'
    BY <1>1, <1>2 DEF Usage, Entries, UsageTypes
<1>5. Handled(c)'
    BY <1>1, <1>2 DEF Usage, Handled
<1>6. ASSUME Key[c] \notin overlapped' PROVE Alone(Key[c])' /\ (crashes = 0 => Numbered(Key[c])')
    <2> DEFINE k == Key[c]
    <2>1. /\ k \in Keys /\ Alone(k) /\ (crashes = 0 => Numbered(k))
          /\ \A d \in Calls \ {c} : Key[d] = k => ~Recording(d)
        BY <1>1, <1>6, OnlyOne DEF Recording
    <2>2. /\ Recorded(k)' = Recorded(k) /\ Done(k)' = Done(k) /\ RowsOf(k)' = RowsOf(k)
          /\ Known(k)' = Known(k)
        BY <1>1, <1>2 DEF Recorded, Done, RowsOf, Known
    <2>3. \A d \in Calls \ {c} : Key[d] = k => ~Recording(d)'
        BY <1>2, <2>1 DEF Recording
    <2>4. ASSUME NEW d \in Calls, Key[d] = k
          PROVE  /\ at'[d] \in {"append", "number", "commit"} => held'[d] = entry'[k]
                 /\ at'[d] = "create" => entry'[k] = None
        BY <1>1, <1>2, <2>3, <2>4 DEF Recording
    <2>5. Alone(k)'
        BY <2>1, <2>2, <2>3, <2>4 DEF Alone
    <2>6. \A d \in Calls : at'[d] = "commit" => at[d] = "commit"
        BY <1>2
    <2>7. (Done(k) \ refused)' = Done(k) \ refused
        BY <1>1, <2>2
    <2>8. crashes = 0 => Numbered(k)'
        BY <1>1, <2>1, <2>2, <2>6, <2>7 DEF Numbered
    <2>9. QED BY <2>5, <2>8
<1>7. QED BY <1>1, <1>2, <1>3, <1>4, <1>5, <1>6, OneUsage

\* The call joins the entry it looked up.
LEMMA AppendUsage == ASSUME Usage, NEW c \in Calls, AppendCall(c) PROVE Usage'
<1> DEFINE h == held[c]
<1>1. /\ at[c] = "append" /\ at' = [at EXCEPT ![c] = "number"]
      /\ calls' = [calls EXCEPT ![h] = @ \cup {c}]
      /\ UNCHANGED <<entry, held, row, rows, overlapped, refused, crashes>>
    BY DEF AppendCall, Goto
<1>2. /\ at'[c] = "number" /\ \A d \in Calls \ {c} : at'[d] = at[d]
      /\ h \in Calls /\ Key[h] = Key[c] /\ calls'[h] = calls[h] \cup {c}
      /\ \A e \in Calls \ {h} : calls'[e] = calls[e]
      /\ Key[c] \in Keys /\ entry[Key[c]] # None
    BY <1>1, KeyAssumption DEF Usage, UsageTypes, Handled
<1>3. UsageTypes'
    BY <1>1, <1>2 DEF Usage, UsageTypes, Stages
<1>4. Entries'
    <2>1. \A k \in Keys : entry'[k] # None => Key[entry'[k]] = k
        BY <1>1 DEF Usage, Entries
    <2>2. \A e \in Calls : \A d \in calls[e] :
                Key[d] = Key[e] /\ at'[d] \in {"number", "commit", "returned"}
        BY <1>2 DEF Usage, Entries, UsageTypes
    <2>3. \A e \in Calls : \A d \in calls'[e] : d \in calls[e] \/ (e = h /\ d = c)
        BY <1>2
    <2>4. QED BY <1>2, <2>1, <2>2, <2>3 DEF Entries
<1>5. Handled(c)'
    BY <1>1, <1>2 DEF Usage, Handled
<1>6. ASSUME Key[c] \notin overlapped' PROVE Alone(Key[c])' /\ (crashes = 0 => Numbered(Key[c])')
    <2> DEFINE k == Key[c]
    <2>1. /\ k \in Keys /\ Alone(k) /\ (crashes = 0 => Numbered(k))
          /\ \A d \in Calls \ {c} : Key[d] = k => ~Recording(d)
        BY <1>1, <1>6, OnlyOne DEF Recording
    <2>2. /\ Recorded(k)' = Recorded(k) \cup {c} /\ Done(k)' = Done(k) /\ RowsOf(k)' = RowsOf(k)
        BY <1>1, <1>2 DEF Recorded, Done, RowsOf
    <2>3. h = entry[k] /\ Known(k) = calls[h] /\ Known(k)' = calls[h] \cup {c}
        BY <1>1, <1>2, <2>1 DEF Alone, Known
    <2>4. Known(k)' = Recorded(k)'
        BY <2>1, <2>2, <2>3 DEF Alone
    <2>5. \A d \in Calls \ {c} : Key[d] = k => ~Recording(d)'
        BY <1>2, <2>1 DEF Recording
    <2>6. ASSUME NEW d \in Calls, Key[d] = k
          PROVE  /\ at'[d] \in {"append", "number", "commit"} => held'[d] = entry'[k]
                 /\ at'[d] = "create" => entry'[k] = None
        BY <1>1, <1>2, <2>3, <2>5, <2>6 DEF Recording
    <2>7. Alone(k)'
        BY <2>4, <2>5, <2>6 DEF Alone
    <2>8. \A d \in Calls : at'[d] = "commit" => at[d] = "commit"
        BY <1>2
    <2>9. (Done(k) \ refused)' = Done(k) \ refused
        BY <1>1, <2>2
    <2>10. crashes = 0 => Numbered(k)'
        BY <1>1, <2>1, <2>2, <2>8, <2>9 DEF Numbered
    <2>11. QED BY <2>7, <2>10
<1>7. QED BY <1>1, <1>2, <1>3, <1>4, <1>5, <1>6, OneUsage

\* The row is numbered by the entry in the cache: as many as returned, and one.
LEMMA NumberUsage == ASSUME Usage, NEW c \in Calls, NumberRow(c) PROVE Usage'
<1> DEFINE k == Key[c]
           n == Cardinality(calls[entry[k]])
<1>1. /\ at[c] = "number" /\ at' = [at EXCEPT ![c] = "commit"]
      /\ row' = [row EXCEPT ![c] = n]
      /\ UNCHANGED <<entry, calls, held, rows, overlapped, refused, crashes>>
    BY DEF NumberRow, Goto
<1>2. k \in Keys /\ entry[k] # None /\ entry[k] \in Calls
    <2>1. k \in Keys
        BY KeyAssumption
    <2>2. entry[k] # None
        BY <1>1 DEF Usage, Handled
    <2>3. QED BY <2>1, <2>2 DEF Usage, UsageTypes
<1>3. n \in 0..Cardinality(Calls)
    <2>1. calls[entry[k]] \subseteq Calls
        BY <1>2 DEF Usage, UsageTypes
    <2>2. QED BY <2>1, CallsAreFinite, FS_Subset, FS_CardinalityType
<1> HIDE DEF n
<1>4. /\ at'[c] = "commit" /\ row'[c] = n
      /\ \A d \in Calls \ {c} : at'[d] = at[d] /\ row'[d] = row[d]
    BY <1>1 DEF Usage, UsageTypes
<1>5. UsageTypes'
    BY <1>1, <1>3 DEF Usage, UsageTypes, Stages
<1>6. Entries'
    BY <1>1, <1>4 DEF Usage, Entries, UsageTypes
<1>7. Handled(c)'
    BY <1>1, <1>4 DEF Usage, Handled
<1>8. ASSUME k \notin overlapped' PROVE Alone(k)' /\ (crashes = 0 => Numbered(k)')
    <2>1. /\ Alone(k) /\ (crashes = 0 => Numbered(k))
          /\ \A d \in Calls \ {c} : Key[d] = k => ~Recording(d)
          /\ Recorded(k) = Done(k) \cup {c} /\ c \notin Done(k)
        BY <1>1, <1>8, OnlyOne DEF Recording
    <2>2. /\ Recorded(k)' = Recorded(k) /\ Done(k)' = Done(k) /\ RowsOf(k)' = RowsOf(k)
          /\ Known(k)' = Known(k)
        BY <1>1, <1>4 DEF Recorded, Done, RowsOf, Known
    <2>3. n = Cardinality(Done(k)) + 1
        <3>1. calls[entry[k]] = Done(k) \cup {c}
            BY <1>2, <2>1 DEF Alone, Known
        <3>2. Done(k) \subseteq Calls
            BY DEF Done
        <3>3. IsFiniteSet(Done(k))
            BY <3>2, CallsAreFinite, FS_Subset
        <3>4. QED BY <2>1, <3>1, <3>3, FS_AddElement DEF n
    <2>4. \A d \in Calls \ {c} : Key[d] = k => ~Recording(d)'
        BY <1>4, <2>1 DEF Recording
    <2>5. ASSUME NEW d \in Calls, Key[d] = k
          PROVE  /\ at'[d] \in {"append", "number", "commit"} => held'[d] = entry'[k]
                 /\ at'[d] = "create" => entry'[k] = None
        BY <1>1, <1>4, <2>1, <2>4, <2>5 DEF Recording, Alone
    <2>6. Alone(k)'
        BY <2>1, <2>2, <2>4, <2>5 DEF Alone
    <2>7. \A d \in Calls : Key[d] = k /\ at'[d] = "commit" => d = c
        BY <2>4 DEF Recording
    <2>8. (Done(k) \ refused)' = Done(k) \ refused
        BY <1>1, <2>2
    <2>9. crashes = 0 => Numbered(k)'
        BY <1>1, <1>4, <2>1, <2>2, <2>3, <2>7, <2>8 DEF Numbered
    <2>10. QED BY <2>6, <2>9
<1>9. QED BY <1>1, <1>4, <1>5, <1>6, <1>7, <1>8, OneUsage

\* A commit, or its refusal: the row, if one is added, has a number of its own.
LEMMA CommitUsage ==
    ASSUME Usage, NEW c \in Calls, Commit(c) \/ CommitFails(c)
    PROVE  Usage'
<1> DEFINE k == Key[c]
<1>1. /\ at[c] = "commit" /\ at' = [at EXCEPT ![c] = "returned"]
      /\ UNCHANGED <<entry, calls, held, row, overlapped, crashes>>
      /\ \/ rows' = rows \cup {<<k, row[c]>>} /\ refused' = refused
         \/ rows' = rows /\ refused' = refused \cup {c}
    BY DEF Commit, CommitFails, Goto, RowId, usage
<1>2. k \in Keys /\ row[c] \in 0..Cardinality(Calls) /\ Cardinality(Calls) \in Nat
    BY KeyAssumption, CallsAreFinite, FS_CardinalityType DEF Usage, UsageTypes
<1>3. /\ at'[c] = "returned" /\ \A d \in Calls \ {c} : at'[d] = at[d]
      /\ \A d \in Calls \ {c} : d \in refused' <=> d \in refused
      /\ c \notin refused
    BY <1>1 DEF Usage, UsageTypes, Handled
<1>4. UsageTypes'
    <2>1. IsFiniteSet(rows')
        <3>1. IsFiniteSet(rows)
            BY DEF Usage, UsageTypes
        <3>2. PICK id : id = <<k, row[c]>>
            OBVIOUS
        <3>3. IsFiniteSet(rows \cup {id})
            BY <3>1, FS_AddElement
        <3>4. QED BY <1>1, <3>1, <3>2, <3>3
    <2>2. rows' \subseteq Keys \X (0..Cardinality(Calls))
        BY <1>1, <1>2 DEF Usage, UsageTypes
    <2>3. QED BY <1>1, <2>1, <2>2 DEF Usage, UsageTypes, Stages
<1>5. Entries'
    BY <1>1, <1>3 DEF Usage, Entries, UsageTypes
<1>6. Handled(c)'
    <2>1. c \notin refused' => <<k, row[c]>> \in rows'
        BY <1>1
    <2>2. c \notin refused' => RowsOf(k)' # {}
        BY <2>1 DEF RowsOf
    <2>3. QED BY <1>3, <2>2 DEF Handled
<1>7. /\ rows \subseteq rows' /\ \A id \in rows' : id \in rows \/ id[1] = k
    BY <1>1
<1>8. ASSUME k \notin overlapped' PROVE Alone(k)' /\ (crashes = 0 => Numbered(k)')
    <2>1. /\ Alone(k) /\ (crashes = 0 => Numbered(k))
          /\ \A d \in Calls \ {c} : Key[d] = k => ~Recording(d)
          /\ Recorded(k) = Done(k) \cup {c} /\ c \notin Done(k)
        BY <1>1, <1>8, OnlyOne DEF Recording
    <2>2. /\ Recorded(k)' = Recorded(k) /\ Done(k)' = Done(k) \cup {c} /\ Known(k)' = Known(k)
        BY <1>1, <1>3 DEF Recorded, Done, Known
    <2>3. \A d \in Calls : Key[d] = k => ~Recording(d)'
        BY <1>3, <2>1 DEF Recording
    <2>4. Alone(k)'
        BY <2>1, <2>2, <2>3 DEF Alone, Recording
    <2>5. IsFiniteSet(Done(k)) /\ IsFiniteSet(RowsOf(k)) /\ IsFiniteSet(Done(k) \ refused)
        <3>1. /\ Done(k) \subseteq Calls /\ Done(k) \ refused \subseteq Calls
              /\ RowsOf(k) \subseteq rows
            BY DEF Done, RowsOf
        <3>2. QED BY <3>1, CallsAreFinite, FS_Subset DEF Usage, UsageTypes
    <2>6. ASSUME crashes = 0 PROVE Numbered(k)'
        <3>1. Numbered(k) /\ row[c] = Cardinality(Done(k)) + 1
            BY <1>1, <2>1, <2>6 DEF Numbered
        <3>2. /\ Cardinality(Done(k))' = Cardinality(Done(k)) + 1
              /\ Cardinality(Done(k)) \in Nat
            BY <2>1, <2>2, <2>5, FS_AddElement, FS_CardinalityType
        <3>3. \A id \in RowsOf(k) : id[2] <= Cardinality(Done(k)) /\ id[2] \in Nat
            BY <3>1 DEF Numbered, RowsOf, Usage, UsageTypes
        <3>4. CASE rows' = rows \cup {<<k, row[c]>>} /\ refused' = refused
            <4>1. RowsOf(k)' = RowsOf(k) \cup {<<k, row[c]>>}
                BY <3>4 DEF RowsOf
            <4>2. <<k, row[c]>> \notin RowsOf(k)
                BY <3>1, <3>2, <3>3
            <4>3. (Done(k) \ refused)' = (Done(k) \ refused) \cup {c} /\ c \notin Done(k) \ refused
                BY <1>3, <2>1, <2>2, <3>4
            <4>4. Cardinality(RowsOf(k))' = Cardinality(RowsOf(k)) + 1
                BY <2>5, <4>1, <4>2, FS_AddElement
            <4>5. Cardinality(Done(k) \ refused)' = Cardinality(Done(k) \ refused) + 1
                BY <2>5, <4>3, FS_AddElement
            <4>6. Cardinality(RowsOf(k))' = Cardinality(Done(k) \ refused)'
                BY <3>1, <4>4, <4>5 DEF Numbered
            <4>7. \A id \in RowsOf(k)' : id[2] <= Cardinality(Done(k))'
                BY <3>1, <3>2, <3>3, <4>1
            <4>8. \A d \in Calls : Key[d] = k => at'[d] # "commit"
                BY <2>3 DEF Recording
            <4>9. QED BY <4>6, <4>7, <4>8 DEF Numbered
        <3>5. CASE rows' = rows /\ refused' = refused \cup {c}
            <4>1. RowsOf(k)' = RowsOf(k)
                BY <3>5 DEF RowsOf
            <4>2. (Done(k) \ refused)' = Done(k) \ refused
                BY <2>1, <2>2, <3>5
            <4>3. \A id \in RowsOf(k)' : id[2] <= Cardinality(Done(k))'
                BY <3>2, <3>3, <4>1
            <4>4. \A d \in Calls : Key[d] = k => at'[d] # "commit"
                BY <2>3 DEF Recording
            <4>5. QED BY <3>1, <4>1, <4>2, <4>3, <4>4 DEF Numbered
        <3>6. QED BY <1>1, <3>4, <3>5
    <2>7. QED BY <2>4, <2>6
<1>9. QED BY <1>1, <1>3, <1>4, <1>5, <1>6, <1>7, <1>8, OneUsage

\* The process dies: the table is left, and no call is being recorded.
LEMMA CrashUsage == ASSUME Usage, Crash PROVE Usage'
<1>1. /\ crashes' = crashes + 1 /\ UNCHANGED <<held, row, rows, overlapped, refused>>
      /\ at' = [c \in Calls |-> IF at[c] = "new" THEN "new" ELSE "gone"]
      /\ entry' = [k \in Keys |-> None] /\ calls' = [c \in Calls |-> {}]
    BY DEF Crash
<1>2. \A c \in Calls : at'[c] \in {"new", "gone"} /\ (at'[c] = "new" <=> at[c] = "new")
    BY <1>1
<1>3. UsageTypes'
    BY <1>1 DEF Usage, UsageTypes, Stages
<1>4. Entries'
    BY <1>1 DEF Entries
<1>5. ASSUME NEW c \in Calls PROVE Handled(c)'
    <2>1. c \in refused => at[c] \in {"returned", "gone"}
        BY DEF Usage, Handled
    <2>2. QED BY <1>1, <1>2, <2>1 DEF Handled
<1>6. ASSUME NEW k \in Keys PROVE Alone(k)'
    <2>1. Recorded(k)' = {} /\ Known(k)' = {}
        BY <1>1, <1>2 DEF Recorded, Known
    <2>2. QED BY <1>2, <2>1 DEF Alone, Recording
<1>7. crashes' # 0
    BY <1>1 DEF Usage, UsageTypes
<1>8. QED BY <1>3, <1>4, <1>5, <1>6, <1>7 DEF Usage

\* Every step keeps the usage.
LEMMA StepUsage == Usage /\ [Next]_vars => Usage'
<1>0. SUFFICES ASSUME Usage, [Next]_vars PROVE Usage'
    OBVIOUS
<1>1. CASE UNCHANGED vars
    <2>1. UNCHANGED <<at, entry, calls, held, row, rows, overlapped, refused, crashes>>
        BY <1>1 DEF vars, usage
    <2>2. UsageTypes' /\ Entries' /\ \A c \in Calls : Handled(c)'
        BY <1>0, <2>1 DEF Usage, UsageTypes, Entries, Handled, RowsOf
    <2>3. ASSUME NEW k \in Keys, k \notin overlapped'
          PROVE  Alone(k)' /\ (crashes' = 0 => Numbered(k)')
        <3>1. Alone(k) /\ (crashes = 0 => Numbered(k))
            BY <1>0, <2>1, <2>3 DEF Usage
        <3>2. /\ Recorded(k)' = Recorded(k) /\ Done(k)' = Done(k) /\ Known(k)' = Known(k)
              /\ RowsOf(k)' = RowsOf(k) /\ (Done(k) \ refused)' = Done(k) \ refused
            BY <2>1 DEF Recorded, Done, Known, RowsOf
        <3>3. Alone(k)'
            BY <2>1, <3>1, <3>2 DEF Alone, Recording
        <3>4. crashes = 0 => Numbered(k)'
            BY <2>1, <3>1, <3>2 DEF Numbered
        <3>5. QED BY <2>1, <3>3, <3>4
    <2>4. QED BY <2>2, <2>3 DEF Usage
<1>2. ASSUME NEW c \in Calls, Start(c) \/ Ask(c) \/ Fails(c) \/ Raise(c) PROVE Usage'
    <2>1. UNCHANGED <<entry, calls, held, row, rows, refused, crashes, overlapped>>
        BY <1>2 DEF Start, Ask, Fails, Raise, usage
    <2>2. PICK s \in Stages : /\ Goto(c, s) /\ at[c] \in {"new", "trying", "asked"}
                              /\ s \in {"trying", "asked", "raised"}
        BY <1>2 DEF Start, Ask, Fails, Raise, Stages
    <2>3. QED BY <1>0, <2>1, <2>2, PassesBy
<1>3. ASSUME NEW c \in Calls, Answers(c) PROVE Usage'
    <2>1. /\ UNCHANGED <<entry, calls, held, row, rows, refused, crashes>>
          /\ at[c] = "asked" /\ Goto(c, "check") /\ overlapped \subseteq overlapped'
          /\ Key[c] \notin overlapped' => \A d \in Calls : Key[d] = Key[c] => ~Recording(d)
        BY <1>3 DEF Answers, usage, Recording
    <2>2. PICK s \in Stages : s = "check"
        BY DEF Stages
    <2>3. QED BY <1>0, <2>1, <2>2, PassesBy
<1>4. ASSUME NEW c \in Calls, Check(c) PROVE Usage'
    <2>1. /\ UNCHANGED <<entry, calls, held, row, rows, refused, crashes, overlapped>>
          /\ at[c] = "check"
        BY <1>4 DEF Check, usage
    <2>2. PICK s \in Stages : /\ Goto(c, s)
                              /\ \/ s = "create" /\ entry[Key[c]] = None
                                 \/ s = "lookup" /\ entry[Key[c]] # None
        BY <1>4 DEF Check, Stages
    <2>3. QED BY <1>0, <2>1, <2>2, PassesBy
<1>5. ASSUME NEW c \in Calls, Create(c) PROVE Usage'
    BY <1>0, <1>5, CreateUsage
<1>6. ASSUME NEW c \in Calls, Lookup(c) PROVE Usage'
    BY <1>0, <1>6, LookupUsage
<1>7. ASSUME NEW c \in Calls, AppendCall(c) PROVE Usage'
    BY <1>0, <1>7, AppendUsage
<1>8. ASSUME NEW c \in Calls, NumberRow(c) PROVE Usage'
    BY <1>0, <1>8, NumberUsage
<1>9. ASSUME NEW c \in Calls, Commit(c) \/ CommitFails(c) PROVE Usage'
    BY <1>0, <1>9, CommitUsage
<1>10. CASE Crash
    BY <1>0, <1>10, CrashUsage
<1>11. QED BY <1>0, <1>1, <1>2, <1>3, <1>4, <1>5, <1>6, <1>7, <1>8, <1>9, <1>10 DEF Next, Proceed

\* The usage of an execution id is complete as long as no two of its calls are
\* recorded at once, and its rows, too, as long as the process lives: the length
\* that names a row is then the number of the call.
THEOREM UsageIsComplete == Spec => []UsageComplete
<1>1. Usage => UsageComplete
    <2>1. SUFFICES ASSUME Usage, NEW k \in Keys
                   PROVE  /\ Known(k) \subseteq Recorded(k)
                          /\ k \notin overlapped =>
                                /\ Known(k) = Recorded(k)
                                /\ crashes = 0 => Cardinality(RowsOf(k)) =
                                        Cardinality({c \in Recorded(k) : at[c] = "returned"} \ refused)
                          /\ {c \in Recorded(k) : at[c] = "returned"} \ refused # {}
                                => RowsOf(k) # {}
        BY DEF UsageComplete, Known
    <2>2. Known(k) \subseteq Recorded(k)
        BY <2>1 DEF Usage, UsageTypes, Entries, Known, Recorded
    <2>3. {c \in Recorded(k) : at[c] = "returned"} = Done(k)
        BY DEF Recorded, Done
    <2>4. Done(k) \ refused # {} => RowsOf(k) # {}
        BY <2>1 DEF Usage, Handled, Done
    <2>5. QED BY <2>1, <2>2, <2>3, <2>4 DEF Usage, Alone, Numbered
<1>2. QED BY <1>1, InitUsage, StepUsage, PTL DEF Spec

----------------------------------------------------------------------------
(* Types *)

\* Trackers and metrics count what they may of a provider, and the entry a call
\* finds in the cache was made for its execution id.
THEOREM LLMTyped == Spec => []LLMTypeOK
<1>1. Books /\ Routes /\ Usage => LLMTypeOK
    <2>1. SUFFICES ASSUME Books, Routes, Usage PROVE LLMTypeOK
        OBVIOUS
    <2>2. ledger \in [Calls -> [Provider ->
            [tokens : 0..1, costs : 0..2, success : 0..2, failure : 0..1,
             tokenMetric : 0..2, costMetric : 0..1]]]
        BY <2>1 DEF Books, Record
    <2>3. /\ setup \in Setups /\ rows \subseteq Keys \X (0..Cardinality(Calls))
          /\ \A k \in Keys : entry[k] # None => Key[entry[k]] = k
        BY <2>1 DEF Routes, RouteTypes, Usage, UsageTypes, Entries
    <2>4. \A c, d \in Calls : d \in calls[c] => Key[c] = Key[d]
        BY <2>1 DEF Usage, Entries
    <2>5. \A c \in Calls :
            /\ at[c] \in {"lookup", "append", "number", "commit"} => entry[Key[c]] # None
            /\ at[c] \in {"number", "commit"} => c \in calls[held[c]]
        BY <2>1 DEF Usage, Handled
    <2>6. QED BY <2>2, <2>3, <2>4, <2>5 DEF LLMTypeOK
<1>2. QED BY <1>1, InitBooks, StepBooks, InitRoutes, StepRoutes, InitUsage, StepUsage, PTL DEF Spec
=============================================================================
