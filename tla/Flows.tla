------------------------------- MODULE Flows --------------------------------
(***************************************************************************)
(* The runs of one workflow: its definition, which editors update through    *)
(* PUT /workflows/{id}/config (engine.py), the executions that run a         *)
(* snapshot of it (workflow_runner.py), one turn of the graph per step, the  *)
(* checkpoint file they share because it is named after the workflow, and    *)
(* an operator who approves a paused run and resumes it from that file, as   *)
(* tests/integration/test_graph_checkpoint_resume.py does: no route does.    *)
(*                                                                         *)
(* A worker that raises or dies gives the job back, MaxTries times at most,  *)
(* which is what JobQueue promises.                                          *)
(***************************************************************************)
EXTENDS FlowGraphs, FiniteSets, TLC

CONSTANTS
    Executions,     \* the executions that may be submitted
    Definitions,    \* the definitions the workflow may be created with
    Inputs,         \* the inputs each execution may have
    Editors,        \* the requests that update the definition
    Edit,           \* what each editor sends: [field, value]
    Torn,           \* an unreadable checkpoint file
    MaxTries,       \* RetryPolicy.max_attempts
    MaxDeaths       \* bound on the workers that die

ASSUME EditsAreFields ==
    \A d \in Editors : Edit[d].field \in {"graph", "type", "steps"}
ASSUME BoundsAreNatural == MaxTries \in Nat \ {0} /\ MaxDeaths \in Nat

VARIABLES
    definition,     \* definition_json of the workflow
    editor,         \* the stage of each editor, and what it has read
    before,         \* history: the editors done when each editor read
    at,             \* the stage of each execution
    flow,           \* the definition and the state of each execution's run
    tries,          \* how often each job was claimed
    acts,           \* history: how often the run of each execution acted
    jobs,           \* how many tool jobs were published for it
    checkpoint,     \* the file: None, Torn, or an execution with its flow
    operator,       \* the operator's stage, what it read and the run it resumed
    overtaken,      \* history: a worker wrote the file after the operator's read
    deaths

editing == <<definition, editor, before>>
effects == <<acts, jobs>>
approving == <<operator, overtaken>>
vars == <<editing, at, flow, tries, effects, checkpoint, approving, deaths>>

NoFlow == [def |-> None, state |-> None]
Stages == {"new", "waiting", "walk", "save", "writing", "publish", "over", "dead"}

\* The definitions the workflow may have, and the graph of each.
Values(field) ==
    {d[field] : d \in Definitions}
        \cup {Edit[d].value : d \in {x \in Editors : Edit[x].field = field}}
AllDefinitions ==
    [graph : Values("graph"), type : Values("type"), steps : Values("steps")]
\* (The comparison has TLC compute the table once.)
Graph == CHOOSE g \in {[d \in AllDefinitions |-> Resolve(d)]} : g = g
GraphOf(f) == Graph[f.def]

\* What a job carries and a checkpoint holds.
FlowRecords ==
    [def : AllDefinitions, state : States({Resolve(d).name : d \in AllDefinitions})]
Checkpoints == [of : Executions, flow : FlowRecords]

ASSUME DefinitionsAreRecords == Definitions \subseteq AllDefinitions
ASSUME StepsAreLists == Values("steps") \subseteq Seq(STRING)
ASSUME InputsArePayloads == \A e \in Executions : Inputs[e] \subseteq Payloads
ASSUME MarkersAreDistinct ==
    /\ None \notin AllDefinitions \cup NodeNames \cup Checkpoints
    /\ Torn \notin Checkpoints

Init ==
    /\ definition \in Definitions
    /\ editor = [d \in Editors |-> [stage |-> "new", read |-> None]]
    /\ before = [d \in Editors |-> {}]
    /\ at = [e \in Executions |-> "new"]
    /\ flow = [e \in Executions |-> NoFlow]
    /\ tries = [e \in Executions |-> 0]
    /\ acts = [e \in Executions |-> 0]
    /\ jobs = [e \in Executions |-> 0]
    /\ checkpoint = None
    /\ operator = [stage |-> "idle", of |-> None, flow |-> NoFlow]
    /\ overtaken = FALSE
    /\ deaths = 0

Goto(e, s) == at' = [at EXCEPT ![e] = s]

----------------------------------------------------------------------------
(* The definition *)

\* Mutant of ReadDefinition: every editor starts from the definition as created.
ReadStale(d) ==
    /\ editor[d].stage = "new"
    /\ \E c \in Definitions : editor' = [editor EXCEPT ![d] = [stage |-> "read", read |-> c]]
    /\ before' = [before EXCEPT ![d] = {f \in Editors : editor[f].stage = "done"}]
    /\ UNCHANGED <<definition, at, flow, tries, effects, checkpoint, approving, deaths>>

ReadDefinition(d) ==
    /\ editor[d].stage = "new"
    /\ editor' = [editor EXCEPT ![d] = [stage |-> "read", read |-> definition]]
    /\ before' = [before EXCEPT ![d] = {f \in Editors : editor[f].stage = "done"}]
    /\ UNCHANGED <<definition, at, flow, tries, effects, checkpoint, approving, deaths>>

\* The other fields are written back as they were read.
WriteDefinition(d) ==
    /\ editor[d].stage = "read"
    /\ definition' = [editor[d].read EXCEPT ![Edit[d].field] = Edit[d].value]
    /\ editor' = [editor EXCEPT ![d] = [stage |-> "done", read |-> None]]
    /\ UNCHANGED <<before, at, flow, tries, effects, checkpoint, approving, deaths>>

UpdateConfig(d) == ReadDefinition(d) \/ WriteDefinition(d)

----------------------------------------------------------------------------
(* A run *)

\* The job carries the definition and the input it was submitted with.
Submit(e) ==
    /\ at[e] = "new"
    /\ \E i \in Inputs[e] :
        flow' = [flow EXCEPT ![e] =
            [def |-> definition, state |-> Fresh(Graph[definition].name, i)]]
    /\ Goto(e, "waiting")
    /\ UNCHANGED <<editing, tries, effects, checkpoint, approving, deaths>>

\* Mutant of Begin: without the entry node.
BeginNowhere(f) == [f EXCEPT !.state = Fresh(GraphOf(f).name, f.state.input)]

Begin(f) ==
    [f EXCEPT !.state = Enter(GraphOf(f), Fresh(GraphOf(f).name, f.state.input))]

\* Every attempt starts a new run: the checkpoint is not consulted.
Claim(e) ==
    /\ at[e] = "waiting"
    /\ flow' = [flow EXCEPT ![e] = Begin(@)]
    /\ tries' = [tries EXCEPT ![e] = @ + 1]
    /\ Goto(e, "walk")
    /\ UNCHANGED <<editing, effects, checkpoint, approving, deaths>>

\* One turn of a run: the flow after it, and whether the run goes on.
Walked(f) == [f EXCEPT !.state = Turn(GraphOf(f), @)]
Next_(f) == NextNode(GraphOf(f), f.state)
Onward(f) == [f EXCEPT !.state = [@ EXCEPT !.node = Next_(f), !.next = None]]
Acted(f, g) == IF g.state.acted /\ ~f.state.acted THEN 1 ELSE 0

Walk(e) ==
    LET f == flow[e] IN LET g == Walked(f) IN
    /\ at[e] = "walk"
    /\ ~TurnRaises(GraphOf(f), f.def, f.state)
    /\ acts' = [acts EXCEPT ![e] = @ + Acted(f, g)]
    /\ IF Next_(g) = None
       THEN Goto(e, "save") /\ flow' = [flow EXCEPT ![e] = g]
       ELSE flow' = [flow EXCEPT ![e] = Onward(g)] /\ UNCHANGED at
    /\ UNCHANGED <<editing, tries, jobs, checkpoint, approving, deaths>>

\* The job of a run that raised, or whose worker died, is retried or buried.
Again(e) == Goto(e, IF tries[e] < MaxTries THEN "waiting" ELSE "dead")

\* Mutant of Raise: a tool that raises is tried again by the run itself.
RaiseRetriesTool(e) ==
    LET f == flow[e] IN
    /\ at[e] = "walk"
    /\ CallsTool(GraphOf(f), f.state)
    /\ acts[e] <= MaxTries
    /\ acts' = [acts EXCEPT ![e] = @ + 1]
    /\ UNCHANGED <<editing, at, flow, tries, jobs, checkpoint, approving, deaths>>

\* A node that is not in the graph, a plan that is missing, or a tool: a tool
\* that raises may have acted.
Raise(e) ==
    LET f == flow[e] IN
    /\ at[e] = "walk"
    /\ \/ TurnRaises(GraphOf(f), f.def, f.state) /\ UNCHANGED acts
       \/ /\ CallsTool(GraphOf(f), f.state)
          /\ acts' = [acts EXCEPT ![e] = @ + 1]
    /\ Again(e)
    /\ UNCHANGED <<editing, flow, tries, jobs, checkpoint, approving, deaths>>

----------------------------------------------------------------------------
(* The checkpoint file *)

\* write_text truncates the file, then writes.
Truncated == checkpoint' = Torn

\* Two writers that truncated together write over each other: the longer text
\* keeps its tail.
Written(c) ==
    \/ checkpoint' = c
    \/ checkpoint # Torn /\ checkpoint' = Torn

Truncate(e) ==
    /\ at[e] = "save"
    /\ Truncated
    /\ overtaken' = (operator.stage # "idle")
    /\ Goto(e, "writing")
    /\ UNCHANGED <<editing, flow, tries, effects, operator, deaths>>

Write(e) ==
    /\ at[e] = "writing"
    /\ Written([of |-> e, flow |-> flow[e]])
    /\ overtaken' = (operator.stage # "idle")
    /\ Goto(e, "publish")
    /\ UNCHANGED <<editing, flow, tries, effects, operator, deaths>>

\* The tool job, whatever the status of the run; a publish that raises is
\* swallowed.  Then the worker settles the execution.
PublishTool(e) ==
    /\ at[e] = "publish"
    /\ \/ UNCHANGED jobs
       \/ /\ flow[e].state.input.tool = "request"
          /\ jobs' = [jobs EXCEPT ![e] = @ + 1]
    /\ Goto(e, "over")
    /\ UNCHANGED <<editing, flow, tries, acts, checkpoint, approving, deaths>>

Run(e) ==
    Claim(e) \/ Walk(e) \/ Raise(e) \/ Truncate(e) \/ Write(e) \/ PublishTool(e)

\* The worker dies, or the file cannot be written.  A death during the walk
\* leaves no more behind than one at its end.
WorkerDies(e) ==
    /\ at[e] \in {"save", "writing", "publish"}
    /\ deaths < MaxDeaths
    /\ deaths' = deaths + 1
    /\ Again(e)
    /\ UNCHANGED <<editing, flow, tries, effects, checkpoint, approving>>

----------------------------------------------------------------------------
(* The operator *)

Stage(s) == operator' = [operator EXCEPT !.stage = s]
Readable == checkpoint \notin {None, Torn}

\* load_checkpoint of a paused run, with its input marked approved.
Approve ==
    /\ operator.stage = "idle"
    /\ Readable
    /\ checkpoint.flow.state.status = "paused"
    /\ operator' = [stage |-> "save", of |-> checkpoint.of,
                    flow |-> [checkpoint.flow EXCEPT !.state.input.approved = TRUE]]
    /\ overtaken' = \E e \in Executions : at[e] = "writing"
    /\ UNCHANGED <<editing, at, flow, tries, effects, checkpoint, deaths>>

SaveApproval ==
    \/ /\ operator.stage = "save"
       /\ Truncated
       /\ Stage("writing")
       /\ UNCHANGED <<editing, at, flow, tries, effects, overtaken, deaths>>
    \/ /\ operator.stage = "writing"
       /\ Written([of |-> operator.of, flow |-> operator.flow])
       /\ Stage("resume")
       /\ UNCHANGED <<editing, at, flow, tries, effects, overtaken, deaths>>

\* Mutant of Resume: the run goes on in the definition as it is now.
ResumeInNewDefinition ==
    /\ operator.stage = "resume"
    /\ IF Readable
       THEN LET f == [checkpoint.flow EXCEPT !.def = definition]
            IN operator' = [stage |-> "walk", of |-> checkpoint.of,
                            flow |-> [f EXCEPT !.state = Enter(GraphOf(f), @)]]
       ELSE Stage("raised")
    /\ UNCHANGED <<editing, at, flow, tries, effects, checkpoint, overtaken, deaths>>

\* resume_from_checkpoint: whatever the file holds now goes on at its current
\* node.  The outcome is returned, and stored nowhere.
Resume ==
    /\ operator.stage = "resume"
    /\ IF Readable
       THEN LET f == checkpoint.flow
            IN operator' = [stage |-> "walk", of |-> checkpoint.of,
                            flow |-> [f EXCEPT !.state = Enter(GraphOf(f), @)]]
       ELSE Stage("raised")
    /\ UNCHANGED <<editing, at, flow, tries, effects, checkpoint, overtaken, deaths>>

WalkOn ==
    LET f == operator.flow IN LET g == Walked(f) IN
    /\ operator.stage = "walk"
    /\ IF TurnRaises(GraphOf(f), f.def, f.state) THEN Stage("raised")
       ELSE \/ CallsTool(GraphOf(f), f.state) /\ Stage("tool raised")
            \/ operator' = IF Next_(g) = None
                           THEN [operator EXCEPT !.stage = "done", !.flow = g]
                           ELSE [operator EXCEPT !.flow = Onward(g)]
    /\ UNCHANGED <<editing, at, flow, tries, effects, checkpoint, overtaken, deaths>>

OperatorNext == Approve \/ SaveApproval \/ Resume \/ WalkOn

----------------------------------------------------------------------------

Next ==
    \/ \E d \in Editors : UpdateConfig(d)
    \/ \E e \in Executions : Submit(e) \/ Run(e) \/ WorkerDies(e)
    \/ OperatorNext

Spec == Init /\ [][Next]_vars

\* Workers poll for ever and a run that began goes on.
LiveSpec == Spec /\ \A e \in Executions : WF_vars(Run(e))

----------------------------------------------------------------------------
(* Properties *)

Runs == {flow[e] : e \in {x \in Executions : at[x] # "new"}}
            \cup (IF operator.stage = "idle" THEN {} ELSE {operator.flow})

\* Types, also of what a job carries and the file holds; and a run between two
\* turns stands at a node of its graph, or at one it was routed to and that its
\* graph does not have.
FlowsTypeOK ==
    /\ definition \in AllDefinitions
    /\ at \in [Executions -> Stages]
    /\ tries \in [Executions -> 0..MaxTries]
    /\ \A e \in Executions :
        /\ at[e] = "new" <=> flow[e] = NoFlow
        /\ at[e] # "new" => flow[e] \in FlowRecords
        /\ at[e] = "walk" => flow[e].state.node \in DOMAIN GraphOf(flow[e]).edge
                                \cup {"approval", "fallback", "research",
                                      "retrieval", "executor", "validation",
                                      "tool_execution"}
        /\ at[e] \in {"save", "writing", "publish", "over"} =>
                Next_(flow[e]) = None
    /\ Readable => checkpoint \in Checkpoints

\* In a named graph a run whose input asks for approval acts only once it is
\* approved, in the payload or by the operator: no route around the approval
\* node, and none opened by a retry or a resume.
ActsOnlyIfApproved ==
    \A f \in Runs :
        f.def.steps = <<>> /\ f.state.input.approval /\ f.state.acted =>
            f.state.approved

\* A resumed approval takes effect: unless a worker wrote the shared file in the
\* meantime, the run the operator approved goes on where it paused and ends
\* completed, in its own definition, without planning again.  (Its tool may
\* raise; then the operator sees the error.)
ApprovalTakesEffect ==
    operator.stage \in {"walk", "done", "raised", "tool raised"} /\ ~overtaken =>
        LET s == operator.flow.state IN
        /\ operator.stage # "raised"
        /\ operator.stage = "done" => s.status = "completed"
        /\ s.plans = 1 /\ s.input.approved

\* A job acts at most once per attempt in its run, and a tool request once more
\* by the job a run publishes when it ends: repeated effects come from retries.
EffectsPerAttempt ==
    \A e \in Executions :
        /\ acts[e] <= tries[e]
        /\ jobs[e] <= (IF at[e] \in {"walk", "save", "writing", "publish"}
                       THEN tries[e] - 1 ELSE tries[e])
        /\ at[e] = "over" /\ tries[e] = 1 => jobs[e] <= 1

\* An update is undone only by an editor of the same field, or by one that read
\* the definition before the update was done.
SequentialEditsKept ==
    \A d \in Editors :
        editor[d].stage = "done" /\ definition[Edit[d].field] # Edit[d].value =>
            \E f \in Editors \ {d} :
                /\ editor[f].stage = "done"
                /\ Edit[f].field = Edit[d].field \/ d \notin before[f]

\* A workflow that lists its own steps may be routed back to an earlier one by an
\* input that asks for approval or research.
MayLoop(f) == f.def.steps # <<>> /\ (f.state.input.approval \/ f.state.input.research)

\* How far a run has come: along the stages of the named graphs, or along its
\* list of steps, where it ends, or raises, beyond the last one.
Rank(f) ==
    LET walk == HandledSteps(StepsOf(f.def))
        n == f.state.node
    IN IF ~GraphOf(f).steps
       THEN [planning |-> 1, routing |-> 2, approval |-> 3, retrieval |-> 3, memory |-> 4,
             validation |-> 5, tool_execution |-> 6, fallback |-> 6][n]
       ELSE IF n \in Nodes(walk) \ {"executor", "tool_execution"}
            THEN LastPlace(walk, n) ELSE Len(walk) + 1

\* A run, an operator's too, never comes back to a node it left, whatever the
\* handlers and the edges of its graph and a step that is listed twice: every
\* turn leads to a higher rank, so an attempt takes no more turns than there are
\* ranks.
RunsGoForward ==
    [][ /\ \A e \in Executions :
            at[e] = "walk" /\ at'[e] = "walk" /\ flow'[e] # flow[e] /\ ~MayLoop(flow[e]) =>
                Rank(flow[e]) < Rank(flow'[e])
        /\ operator.stage = "walk" /\ operator'.stage = "walk"
           /\ operator' # operator /\ ~MayLoop(operator.flow) =>
                Rank(operator.flow) < Rank(operator'.flow)
      ]_vars

\* Every run that may not loop ends.
RunsEnd ==
    \A e \in Executions :
        at[e] = "waiting" /\ ~MayLoop(flow[e]) ~> at[e] \in {"over", "dead"}

\* BUILD_PLAN.md:185 "workflows pause, wait, and resume correctly when an
\* approval decision is submitted": no tool job for a run that waits.
PausedRunsWait ==
    \A e \in Executions : jobs[e] > 0 => flow[e].state.status # "paused"
=============================================================================
