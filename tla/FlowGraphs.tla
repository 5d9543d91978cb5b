----------------------------- MODULE FlowGraphs -----------------------------
(***************************************************************************)
(* The graphs a run walks (graphs/, nodes/, agents/primitives.py) and how a  *)
(* workflow definition selects one (workflows/, graph_registry.py): pure     *)
(* operators on the state of a run, which Flows turns into steps.            *)
(*                                                                         *)
(* A definition is [graph, type, steps]; an input says what the payload      *)
(* asks for; of the state of a run the fields that routing reads are kept,   *)
(* whether it called a tool or sent its outreach (acted), and how often it   *)
(* planned.  "no next_node" and "next_node is None" steer alike: None.       *)
(***************************************************************************)
EXTENDS Naturals, Sequences

CONSTANT None

Input(approval, tool, research) ==
    [mapping |-> TRUE, approval |-> approval, approved |-> FALSE,
     tool |-> tool, research |-> research]
\* A payload that is no mapping asks for nothing.
Text == [Input(FALSE, "none", FALSE) EXCEPT !.mapping = FALSE]

Payloads ==
    {i \in [mapping : BOOLEAN, approval : BOOLEAN, approved : BOOLEAN,
            tool : {"none", "name", "request"}, research : BOOLEAN] :
        i.mapping \/ i = Text}

\* tool_name, or a tool_request, which also makes the runner publish a job.
AsksTool(i) == i.tool # "none"

Fresh(graph, i) ==
    [graph |-> graph, input |-> i, node |-> None, next |-> None,
     status |-> "running", approved |-> FALSE, plans |-> 0, acted |-> FALSE]

To(s, n) == [s EXCEPT !.next = n]
Complete(s) == [s EXCEPT !.status = "completed", !.next = None]
PlansOnce(s) == [s EXCEPT !.plans = IF @ < 2 THEN @ + 1 ELSE @]

----------------------------------------------------------------------------
(* The nodes of the named graphs *)

Planning(s) == To(PlansOnce(s), "routing")

\* Mutant of Routing: a tool request goes first.
RoutingToolFirst(s) ==
    To(s, IF AsksTool(s.input) THEN "tool_execution"
          ELSE IF s.input.approval THEN "approval"
          ELSE IF s.input.research THEN "retrieval" ELSE "validation")

Routing(s) ==
    To(s, IF s.input.approval THEN "approval"
          ELSE IF AsksTool(s.input) THEN "tool_execution"
          ELSE IF s.input.research THEN "retrieval" ELSE "validation")

Retrieval(s) == To(s, "memory")

MemoryNode(s) == To(s, "validation")

Validation(s) ==
    IF ~s.input.mapping THEN To([s EXCEPT !.status = "failed"], "fallback")
    ELSE IF s.graph = "lead_generation" \/ AsksTool(s.input)
         THEN To(s, "tool_execution")
         ELSE Complete(s)

\* allow_fallback is never set.
Fallback(s) == Complete(s)

\* Mutant of Approval: the approved run is routed once more.
ApprovalReroutes(s) ==
    IF s.input.approved \/ s.approved
    THEN To([s EXCEPT !.approved = TRUE], "routing")
    ELSE To([s EXCEPT !.status = "paused"], None)

Approval(s) ==
    IF s.input.approved \/ s.approved
    THEN To([s EXCEPT !.approved = TRUE], "validation")
    ELSE To([s EXCEPT !.status = "paused"], None)

\* The outreach of a lead generation is not asked for by the input.
Outreach(s) == [s EXCEPT !.acted = TRUE]
RunTool(s) == [s EXCEPT !.acted = @ \/ AsksTool(s.input)]
ToolExecution(s) ==
    Complete(IF s.graph = "lead_generation" THEN Outreach(s) ELSE RunTool(s))

Node(s) ==
    CASE s.node = "planning" -> Planning(s)
      [] s.node = "routing" -> Routing(s)
      [] s.node = "retrieval" -> Retrieval(s)
      [] s.node = "memory" -> MemoryNode(s)
      [] s.node = "validation" -> Validation(s)
      [] s.node = "fallback" -> Fallback(s)
      [] s.node = "approval" -> Approval(s)
      [] s.node = "tool_execution" -> ToolExecution(s)

----------------------------------------------------------------------------
(* The steps of the configurable graph.  The handlers of planner, research,  *)
(* retriever and memory leave next_node alone.                               *)

Planner(s) == PlansOnce(s)

\* The handler of "approval" too: it never pauses.
Validator(s) ==
    IF ~s.input.mapping THEN To([s EXCEPT !.status = "failed"], "fallback")
    ELSE To(s, IF s.input.approval THEN "approval"
               ELSE IF AsksTool(s.input) THEN "tool_execution" ELSE "executor")

\* A sales or lead generation run reads plan["objective"]; KeyError without.
ExecutorRaises(s, d) ==
    s.plans = 0 /\ (s.graph = "lead_generation" \/ d.type = "sales")
Executor(s) == Complete(s)

Router(s) ==
    To(s, IF s.input.approval THEN "approval"
          ELSE IF s.input.research THEN "research"
          ELSE IF AsksTool(s.input) THEN "tool_execution" ELSE "validation")

ToolExecutor(s) == Complete(RunTool(s))

Step(s) ==
    CASE s.node = "planner" -> Planner(s)
      [] s.node \in {"research", "retriever", "memory"} -> s
      [] s.node \in {"validator", "approval"} -> Validator(s)
      [] s.node = "executor" -> Executor(s)
      [] s.node = "router" -> Router(s)
      [] s.node = "tool_execution" -> ToolExecutor(s)

StepHandlers == {"planner", "research", "retriever", "router", "validator",
                 "memory", "executor", "tool_execution", "approval"}

----------------------------------------------------------------------------
(* The graphs: their entry and their edges, whose domain are the nodes       *)

Automation ==
    [name |-> "automation", steps |-> FALSE, entry |-> "planning",
     edge |-> [planning |-> "routing", routing |-> "validation",
               validation |-> None, tool_execution |-> None,
               fallback |-> None, approval |-> "validation"]]

CustomerSupport ==
    [name |-> "customer_support", steps |-> FALSE, entry |-> "planning",
     edge |-> [planning |-> "routing", routing |-> "approval",
               approval |-> "validation", validation |-> "tool_execution",
               tool_execution |-> None, memory |-> "validation",
               fallback |-> None]]

LeadGeneration ==
    [name |-> "lead_generation", steps |-> FALSE, entry |-> "planning",
     edge |-> [planning |-> "routing", routing |-> "retrieval",
               retrieval |-> "memory", memory |-> "validation",
               validation |-> None, tool_execution |-> None,
               fallback |-> None]]

\* The steps as they are listed, or the default ones if none has a handler.
HandledSteps(steps) ==
    IF \E k \in DOMAIN steps : steps[k] \in StepHandlers THEN steps
    ELSE <<"planner", "router", "validator", "executor">>

Places(walk) == {k \in DOMAIN walk : walk[k] \in StepHandlers}
Earliest(S) == CHOOSE k \in S : \A j \in S : k <= j
Latest(S) == CHOOSE k \in S : \A j \in S : j <= k
FirstStep(walk, S) == IF S = {} THEN None ELSE walk[Earliest(S)]

LastPlace(walk, n) == Latest({k \in Places(walk) : walk[k] = n})
\* Mutant of Following: a step named twice keeps the edge of its first place.
FollowingFirst(walk, n) ==
    LET first == Earliest({k \in Places(walk) : walk[k] = n})
    IN FirstStep(walk, {k \in Places(walk) : k > first})

\* A step named twice has one node, with the edge of its last place.
Following(walk, n) == FirstStep(walk, {k \in Places(walk) : k > LastPlace(walk, n)})

Nodes(walk) == {walk[k] : k \in Places(walk)}
Configurable(name, steps) ==
    LET walk == HandledSteps(steps)
    IN [name |-> name, steps |-> TRUE, entry |-> FirstStep(walk, Places(walk)),
        edge |-> [n \in Nodes(walk) |-> Following(walk, n)]]

\* The default steps of the templates.
Templates ==
    [automation |-> <<"planner", "routing", "validation">>,
     sales |-> <<"planner", "research", "validator", "executor">>,
     lead_generation |-> <<"planner", "research", "memory", "validator", "executor">>,
     support |-> <<"planner", "retriever", "validator", "executor">>]

GraphName(d) == IF d.graph # None THEN d.graph ELSE d.type

Template(d) ==
    LET name == GraphName(d)
        known == {n \in {name, d.type} : n \in DOMAIN Templates}
    IN IF name \in known THEN Templates[name]
       ELSE IF d.type \in known THEN Templates[d.type] ELSE Templates.automation

Factories == {"automation", "lead_generation", "customer_support"}
Make(name) ==
    CASE name = "lead_generation" -> LeadGeneration
      [] name = "customer_support" -> CustomerSupport
      [] OTHER -> Automation

StepsOf(d) == IF d.steps # <<>> THEN d.steps ELSE Template(d)

Resolve(d) ==
    IF GraphName(d) \in Factories /\ d.steps = <<>> THEN Make(GraphName(d))
    ELSE IF d.steps # <<>> \/ d.type \in DOMAIN Templates
         THEN Configurable(GraphName(d), StepsOf(d))
         ELSE Make(GraphName(d))

NodeNames ==
    StepHandlers \cup DOMAIN Automation.edge \cup DOMAIN CustomerSupport.edge
        \cup DOMAIN LeadGeneration.edge

\* The states of the runs of some graphs.
States(graphs) ==
    [graph : graphs, input : Payloads,
     node : NodeNames \cup {None}, next : NodeNames \cup {None},
     status : {"running", "paused", "failed", "completed"},
     approved : BOOLEAN, plans : 0..2, acted : BOOLEAN]

----------------------------------------------------------------------------
(* One turn of BaseGraph.run's loop *)

\* A run begins at its current node, if it has one, or at the entry.
Enter(g, s) == [s EXCEPT !.node = IF @ = None THEN g.entry ELSE @, !.next = None]

\* The handler runs, or is missing (KeyError), or raises.
TurnRaises(g, d, s) ==
    \/ s.node \notin DOMAIN g.edge
    \/ g.steps /\ s.node = "executor" /\ ExecutorRaises(s, d)
CallsTool(g, s) ==
    s.node = "tool_execution" /\ AsksTool(s.input)
        /\ (g.steps \/ s.graph # "lead_generation")
Turn(g, s) == IF g.steps THEN Step(s) ELSE Node(s)

\* Where the loop goes after a turn: None ends it.
NextNode(g, s) ==
    IF s.next # None THEN s.next
    ELSE IF s.status \in {"paused", "failed", "completed"} THEN None
         ELSE g.edge[s.node]
=============================================================================
