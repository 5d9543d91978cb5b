------------------------------ MODULE LLMCalls ------------------------------
(***************************************************************************)
(* Calls of LLMRouter.complete (llm/router.py): the chain of providers that  *)
(* a call tries, and what an answer leaves in the token and cost trackers,   *)
(* the metrics, the usage cache and the llm_usage table                     *)
(* (observability/llm_usage.py).  The threads of one process interleave      *)
(* between the check of the cache, the write of a new entry, the look-up,    *)
(* the append, the length that names a row and the commit of the row.        *)
(* A provider answers or fails: its HTTP client has a timeout.              *)
(***************************************************************************)
EXTENDS Integers, Sequences, FiniteSets

CONSTANTS
    Calls,          \* the calls of complete
    Keys,           \* the execution ids they carry, "" among them
    Key,            \* the execution id of each call
    Preferred,      \* the preferred_provider of each call, "grok" by default
    Setups,         \* routers: [explicit, known, configured, testMode, shared]
    None,           \* no usage entry
    MaxCrashes      \* bound on the crashes of the process

Priority == <<"grok", "openai", "anthropic", "gemini">>
Provider == {Priority[i] : i \in 1..4}

\* explicit: the router was given its providers; shared: its cost tracker is
\* the module's own, to which the usage tracker records.
ASSUME SetupsAreRouters ==
    /\ Setups \subseteq [explicit : BOOLEAN, known : SUBSET Provider,
                         configured : SUBSET Provider, testMode : BOOLEAN, shared : BOOLEAN]
    /\ \A s \in Setups : s.explicit \/ s.known = Provider
ASSUME KeyAssumption == Key \in [Calls -> Keys]
ASSUME PreferredAssumption == \A c \in Calls : Preferred[c] \in Provider \cup {"other"}
ASSUME CallsAreFinite == IsFiniteSet(Calls) /\ None \notin Calls

VARIABLES
    setup,          \* the router and the modules it was made with
    at,             \* the stage of each call
    turn,           \* the place in its chain that each call has come to
    ledger,         \* what the trackers and metrics count of a call, by provider
    entry,          \* _USAGE_CACHE: the entry of an execution id
    calls,          \* the calls recorded in each entry, which the call that created it names
    held,           \* the entry a call looked up
    row,            \* the number in the row id a call formed
    rows,           \* the ids in the llm_usage table
    tried,          \* history: the providers each call asked
    overlapped,     \* history: the ids two calls of which were recorded at once
    refused,        \* history: the calls whose commit the database refused for itself
    crashes         \* crashes so far

usage == <<entry, calls, held, row>>
vars == <<setup, at, turn, ledger, usage, rows, tried, overlapped, refused, crashes>>

\* The records of the router's token and cost trackers, then the metrics:
\* requests by status, how often the tokens and the cost of the answer were added.
NoRecord == [tokens |-> 0, costs |-> 0,
             success |-> 0, failure |-> 0, tokenMetric |-> 0, costMetric |-> 0]
NoRecords == [p \in Provider |-> NoRecord]

Init ==
    /\ setup \in Setups
    /\ at = [c \in Calls |-> "new"]
    /\ turn = [c \in Calls |-> 1]
    /\ ledger = [c \in Calls |-> NoRecords]
    /\ entry = [k \in Keys |-> None]
    /\ calls = [c \in Calls |-> {}]
    /\ held = [c \in Calls |-> None]
    /\ row = [c \in Calls |-> 0]
    /\ rows = {}
    /\ tried = [c \in Calls |-> <<>>]
    /\ overlapped = {}
    /\ refused = {}
    /\ crashes = 0

Goto(c, s) == at' = [at EXCEPT ![c] = s]

----------------------------------------------------------------------------
(* Routes and chains *)

\* Where a provider is in the order of priority, behind it for an unknown name.
Place(p) == IF p \in Provider THEN CHOOSE i \in 1..4 : Priority[i] = p ELSE 5

\* LLM_PROVIDER_FALLBACKS: the providers of lower priority; none of a name it lacks.
Fallbacks(p) == SubSeq(Priority, Place(p) + 1, 4)

Knows(p) == p \in setup.known
Configured(p) == Knows(p) /\ p \in setup.configured
Usable(p) == Knows(p) /\ (setup.explicit \/ p \in setup.configured)

First(S) == CHOOSE p \in S : \A q \in S : Place(p) <= Place(q)

\* Mutant of PickAvailable: a provider without a key is picked.
PickKnown ==
    LET known == {p \in Provider : Knows(p)} IN
    IF setup.testMode THEN "test" ELSE IF known # {} THEN First(known) ELSE "none"

\* The provider of select_route: "test" in test mode, "none" if there is none.
PickAvailable ==
    LET configured == {p \in Provider : Configured(p)}
        usable == {p \in Provider : Usable(p)}
    IN  IF setup.testMode THEN "test"
        ELSE IF setup.explicit /\ Knows("grok") THEN "grok"
        ELSE IF configured # {} THEN First(configured)
        ELSE IF usable # {} THEN First(usable)
        ELSE "none"

\* Mutant of Chain: a preferred provider's own fallbacks only.
ChainOfFallbacks(p) == <<p>> \o Fallbacks(p)

\* The names complete tries: the preferred one, its fallbacks, then those that
\* are not among them, which have the higher priority.
Chain(p) == <<p>> \o Fallbacks(p) \o SubSeq(Priority, 1, Place(p) - 1)

In(p, seq) == \E i \in DOMAIN seq : seq[i] = p

----------------------------------------------------------------------------
(* Trying providers *)

\* What a provider's complete does: without a key it raises, with one it may
\* for a timeout, an error status or a reply it cannot read.
Outcomes(p) == IF Configured(p) THEN {"answer", "error"} ELSE {"error"}

Start(c) ==
    /\ at[c] = "new"
    /\ Goto(c, "trying")
    /\ UNCHANGED <<setup, turn, ledger, usage, rows, tried, overlapped, refused, crashes>>

\* The names of a call's chain, and the one whose turn it is.
Names(c) == Chain(Preferred[c])
Asked(c) == Names(c)[turn[c]]

TokenRecord(l) == [l EXCEPT !.tokens = @ + 1]
CostRecord(l) == [l EXCEPT !.costs = @ + 1]

\* A request, with its tokens and its cost or (0) without.
Metric(l, status, tokens, cost) ==
    [l EXCEPT ![status] = @ + 1, !.tokenMetric = @ + tokens, !.costMetric = @ + cost]

\* What is recorded of the provider a call asked.
Spent(c) == ledger[c][Asked(c)]
Tracked(c, l) == ledger' = [ledger EXCEPT ![c][Asked(c)] = l]

\* The names skipped are not usable.
Ask(c) ==
    /\ at[c] = "trying"
    /\ \E i \in turn[c]..Len(Names(c)) :
        /\ Usable(Names(c)[i]) /\ \A j \in turn[c]..(i - 1) : ~Usable(Names(c)[j])
        /\ turn' = [turn EXCEPT ![c] = i]
        /\ tried' = [tried EXCEPT ![c] = Append(@, Names(c)[i])]
    /\ Goto(c, "asked")
    /\ UNCHANGED <<setup, ledger, usage, rows, overlapped, refused, crashes>>

\* Mutant of Fails: a failed call's estimated tokens and cost are recorded.
FailsAtACost(c) ==
    /\ at[c] = "asked"
    /\ Tracked(c, Metric(CostRecord(TokenRecord(Spent(c))), "failure", 0, 0))
    /\ turn' = [turn EXCEPT ![c] = @ + 1]
    /\ Goto(c, "trying")
    /\ UNCHANGED <<setup, usage, rows, tried, overlapped, refused, crashes>>

\* The provider raises: a failure metric, and the next one's turn.
Fails(c) ==
    /\ at[c] = "asked" /\ "error" \in Outcomes(Asked(c))
    /\ Tracked(c, Metric(Spent(c), "failure", 0, 0))
    /\ turn' = [turn EXCEPT ![c] = @ + 1]
    /\ Goto(c, "trying")
    /\ UNCHANGED <<setup, usage, rows, tried, overlapped, refused, crashes>>

\* The last error, or that there is no provider.
Raise(c) ==
    /\ at[c] = "trying"
    /\ \A i \in turn[c]..Len(Names(c)) : ~Usable(Names(c)[i])
    /\ Goto(c, "raised")
    /\ UNCHANGED <<setup, turn, ledger, usage, rows, tried, overlapped, refused, crashes>>

\* A provider answers: both trackers, and a metric that is told no cost.
Answers(c) ==
    /\ at[c] = "asked" /\ "answer" \in Outcomes(Asked(c))
    /\ Tracked(c, Metric(CostRecord(TokenRecord(Spent(c))), "success", 1, 0))
    /\ Goto(c, "check")
    /\ overlapped' = overlapped \cup
            {k \in {Key[c]} : \E d \in Calls : Key[d] = k
                    /\ at[d] \in {"check", "create", "lookup", "append", "number", "commit"}}
    /\ UNCHANGED <<setup, turn, usage, rows, tried, refused, crashes>>

----------------------------------------------------------------------------
(* record_llm_usage *)

\* Mutant of Check: a new entry whenever a call is recorded.
CheckNever(c) ==
    /\ at[c] = "check"
    /\ Goto(c, "create")
    /\ UNCHANGED <<setup, turn, ledger, usage, rows, tried, overlapped, refused, crashes>>

\* if key not in _USAGE_CACHE
Check(c) ==
    /\ at[c] = "check"
    /\ Goto(c, IF entry[Key[c]] = None THEN "create" ELSE "lookup")
    /\ UNCHANGED <<setup, turn, ledger, usage, rows, tried, overlapped, refused, crashes>>

\* Mutant of Create: the entry is put under no execution id.
CreateWithoutId(c) ==
    /\ at[c] = "create"
    /\ entry' = [entry EXCEPT ![""] = c]
    /\ Goto(c, "lookup")
    /\ UNCHANGED <<setup, turn, ledger, calls, held, row, rows, tried, overlapped, refused, crashes>>

\* A second new entry replaces the first, with what it has recorded.
Create(c) ==
    /\ at[c] = "create"
    /\ entry' = [entry EXCEPT ![Key[c]] = c]
    /\ Goto(c, "lookup")
    /\ UNCHANGED <<setup, turn, ledger, calls, held, row, rows, tried, overlapped, refused, crashes>>

\* The module's cost tracker, then _USAGE_CACHE[key].
Lookup(c) ==
    /\ at[c] = "lookup"
    /\ Tracked(c, IF setup.shared THEN CostRecord(Spent(c)) ELSE Spent(c))
    /\ held' = [held EXCEPT ![c] = entry[Key[c]]]
    /\ Goto(c, "append")
    /\ UNCHANGED <<setup, turn, entry, calls, row, rows, tried, overlapped, refused, crashes>>

\* calls.append, and a second metric of the answer: with its tokens again, and
\* its cost.
AppendCall(c) ==
    /\ at[c] = "append"
    /\ calls' = [calls EXCEPT ![held[c]] = @ \cup {c}]
    /\ Tracked(c, Metric(Spent(c), "success", 1, 1))
    /\ Goto(c, "number")
    /\ UNCHANGED <<setup, turn, entry, held, row, rows, tried, overlapped, refused, crashes>>

\* The row id: the length of the entry that is in the cache by now.
NumberRow(c) ==
    /\ at[c] = "number"
    /\ row' = [row EXCEPT ![c] = Cardinality(calls[entry[Key[c]]])]
    /\ Goto(c, "commit")
    /\ UNCHANGED <<setup, turn, ledger, entry, calls, held, rows, tried, overlapped, refused, crashes>>

RowId(c) == <<Key[c], row[c]>>

\* The commit: a row whose id exists is refused, and the refusal swallowed.
Commit(c) ==
    /\ at[c] = "commit"
    /\ rows' = rows \cup {RowId(c)}
    /\ Goto(c, "returned")
    /\ UNCHANGED <<setup, turn, ledger, usage, tried, overlapped, refused, crashes>>

\* There is no database, or it fails.
CommitFails(c) ==
    /\ at[c] = "commit"
    /\ refused' = refused \cup {c}
    /\ Goto(c, "returned")
    /\ UNCHANGED <<setup, turn, ledger, usage, rows, tried, overlapped, crashes>>

\* Only the table outlives the process.
Crash ==
    /\ crashes < MaxCrashes
    /\ crashes' = crashes + 1
    /\ at' = [c \in Calls |-> IF at[c] = "new" THEN "new" ELSE "gone"]
    /\ ledger' = [c \in Calls |-> NoRecords]
    /\ entry' = [k \in Keys |-> None]
    /\ calls' = [c \in Calls |-> {}]
    /\ UNCHANGED <<setup, turn, held, row, rows, tried, overlapped, refused>>

----------------------------------------------------------------------------

\* What the thread of a call does once it began.
Proceed(c) ==
    \/ Ask(c) \/ Fails(c) \/ Raise(c) \/ Answers(c)
    \/ Check(c) \/ Create(c) \/ Lookup(c) \/ AppendCall(c) \/ NumberRow(c)
    \/ Commit(c) \/ CommitFails(c)

Next == Crash \/ \E c \in Calls : Start(c) \/ Proceed(c)

Spec == Init /\ [][Next]_vars

----------------------------------------------------------------------------
(* Properties *)

Recorded(k) == {c \in Calls : Key[c] = k /\ at[c] \in {"number", "commit", "returned"}}
RowsOf(k) == {id \in rows : id[1] = k}

\* Types; the entry of an execution id was created for that id, and holds
\* calls of that id only.
LLMTypeOK ==
    /\ setup \in Setups
    /\ ledger \in [Calls -> [Provider ->
            [tokens : 0..1, costs : 0..2, success : 0..2, failure : 0..1,
             tokenMetric : 0..2, costMetric : 0..1]]]
    /\ rows \subseteq Keys \X (0..Cardinality(Calls))
    /\ \A k \in Keys : entry[k] # None => Key[entry[k]] = k
    /\ \A c, d \in Calls : d \in calls[c] => Key[c] = Key[d]
    /\ \A c \in Calls :
        /\ at[c] \in {"lookup", "append", "number", "commit"} => entry[Key[c]] # None
        /\ at[c] \in {"number", "commit"} => c \in calls[held[c]]

\* A call raises only after it asked every provider the router can use, each
\* once, whichever it preferred, and even if it preferred one nobody knows.
RaisesOnlyAfterAll ==
    \A c \in Calls :
        /\ at[c] = "raised" => \A p \in Provider : Usable(p) => In(p, tried[c])
        /\ \A i, j \in DOMAIN tried[c] : tried[c][i] = tried[c][j] => i = j

\* The provider select_route names, which runs report, is the one a call
\* without a preference asks first, unless test mode is on or a router was
\* given providers without keys.
RouteIsFirstTried ==
    \A c \in Calls :
        /\ Preferred[c] = "grok" /\ ~setup.testMode
        /\ setup.explicit => setup.known \subseteq setup.configured
        => /\ tried[c] # <<>> => tried[c][1] = PickAvailable
           /\ at[c] = "raised" /\ tried[c] = <<>> => PickAvailable = "none"

\* Trackers and metrics attribute each attempt to the provider that was asked:
\* to one that failed a failure and nothing else, to one never asked nothing,
\* to the one that answered one record of its tokens and no failure.  Of the
\* answer the metrics count the request and its tokens twice, its cost once; the
\* router's cost tracker has its cost twice where it is the module's own.
AttemptsAccounted ==
    \A c \in Calls : at[c] \in {"raised", "returned"} =>
        \A p \in Provider :
            LET asked == tried[c]
            IN  ledger[c][p] =
                    IF ~In(p, asked) THEN NoRecord
                    ELSE IF at[c] = "returned" /\ p = asked[Len(asked)]
                    THEN [tokens |-> 1, costs |-> IF setup.shared THEN 2 ELSE 1,
                          success |-> 2, failure |-> 0, tokenMetric |-> 2, costMetric |-> 1]
                    ELSE [NoRecord EXCEPT !.failure = 1]

\* The usage of an execution names the calls answered in this process, and the
\* table has a row of each, as long as no two of its calls are recorded at once
\* and, for the table, no crash resets the numbering.  In any case it names no
\* other call, and the table knows of the execution at all.
UsageComplete ==
    \A k \in Keys :
        LET known == IF entry[k] = None THEN {} ELSE calls[entry[k]]
            stored == {c \in Recorded(k) : at[c] = "returned"} \ refused
        IN  /\ known \subseteq Recorded(k)
            /\ k \notin overlapped =>
                /\ known = Recorded(k)
                /\ crashes = 0 => Cardinality(RowsOf(k)) = Cardinality(stored)
            /\ stored # {} => RowsOf(k) # {}
=============================================================================
