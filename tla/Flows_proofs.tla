---------------------------- MODULE Flows_proofs ----------------------------
(* Proofs about Flows: the graphs a definition selects are closed, and what   *)
(* the runs, the shared checkpoint and the operator preserve.                 *)
EXTENDS Flows, WellFoundedInduction, TLAPS

----------------------------------------------------------------------------
(* First and last places *)

\* A set of naturals that is not empty has a least element.
LEMMA LeastNat ==
    ASSUME NEW T \in SUBSET Nat, T # {}
    PROVE  \E x \in T : \A y \in T : x <= y
<1> DEFINE R == {ss \in Nat \X Nat : ss[1] < ss[2]}
<1>1. IsWellFoundedOn(R, Nat)
    BY NatLessThanWellFounded DEF OpToRel
<1>2. PICK x \in T : \A y \in T : <<y, x>> \notin R
    <2> HIDE DEF R
    <2> QED BY <1>1, WFMin
<1>3. \A y \in T : ~(y < x)
    BY <1>2
<1>4. QED BY <1>3

\* The first of some places of a list is one of them.
LEMMA EarliestIn ==
    ASSUME NEW S \in SUBSET Nat, S # {}
    PROVE  Earliest(S) \in S
BY LeastNat DEF Earliest

\* Some places of a list have a last one.
LEMMA LatestExists ==
    ASSUME NEW n \in Nat, NEW S \in SUBSET (1..n), S # {}
    PROVE  \E m \in S : \A j \in S : j <= m
<1> DEFINE T == {n - k : k \in S}
<1>1. T \in SUBSET Nat /\ T # {}
    <2>1. \A k \in S : n - k \in Nat
        OBVIOUS
    <2>2. QED BY <2>1
<1>2. PICK x \in T : \A y \in T : x <= y
    BY <1>1, LeastNat
<1>3. PICK m \in S : x = n - m
    BY <1>2
<1>4. \A j \in S : j <= m
    <2>1. SUFFICES ASSUME NEW j \in S PROVE j <= m
        OBVIOUS
    <2>2. n - m <= n - j
        BY <1>2, <1>3
    <2>3. QED BY <2>2
<1>5. QED BY <1>4

----------------------------------------------------------------------------
(* The graphs *)

\* A graph whose edges lead to its own nodes or end the run.
Closed(g) ==
    /\ g.entry \in DOMAIN g.edge
    /\ DOMAIN g.edge \subseteq NodeNames
    /\ \A n \in DOMAIN g.edge : g.edge[n] \in DOMAIN g.edge \cup {None}

\* A graph whose nodes are handlers that the list of steps or the default names.
OfSteps(g, steps) ==
    /\ g.steps = TRUE
    /\ DOMAIN g.edge \subseteq StepHandlers
    /\ \A n \in DOMAIN g.edge :
        \/ \E k \in DOMAIN steps : steps[k] = n
        \/ n \in {"planner", "router", "validator", "executor"}

\* The steps that have a handler, in a list, are the nodes of its graph.
LEMMA ConfigurableClosed ==
    ASSUME NEW name, NEW steps, NEW len \in Nat, DOMAIN steps = 1..len
    PROVE  Closed(Configurable(name, steps)) /\ OfSteps(Configurable(name, steps), steps)
<1> DEFINE walk == HandledSteps(steps)
           places == Places(walk)
           nodes == {walk[k] : k \in places}
           g == Configurable(name, steps)
<1>1. \E n \in Nat : DOMAIN walk = 1..n /\ places # {}
    <2>1. CASE \E k \in DOMAIN steps : steps[k] \in StepHandlers
        BY <2>1 DEF HandledSteps, Places
    <2>2. CASE ~\E k \in DOMAIN steps : steps[k] \in StepHandlers
        <3>1. walk = <<"planner", "router", "validator", "executor">>
            BY <2>2 DEF HandledSteps
        <3>2. 1 \in DOMAIN walk /\ walk[1] = "planner"
            BY <3>1
        <3>3. DOMAIN walk = 1..4
            BY <3>1
        <3>4. 1 \in places
            BY <3>2 DEF Places, StepHandlers
        <3>5. QED BY <3>3, <3>4
    <2>3. QED BY <2>1, <2>2
<1>2. \E n \in Nat : places \subseteq 1..n
    BY <1>1 DEF Places
<1>3. nodes \subseteq StepHandlers
    BY DEF Places
<1>4. \A n \in nodes :
        \/ \E k \in DOMAIN steps : steps[k] = n
        \/ n \in {"planner", "router", "validator", "executor"}
    <2>1. CASE walk = steps
        BY <2>1 DEF Places
    <2>2. CASE walk = <<"planner", "router", "validator", "executor">>
        <3>1. DOMAIN walk = 1..4
            BY <2>2
        <3>2. \A k \in 1..4 : walk[k] \in {"planner", "router", "validator", "executor"}
            BY <2>2
        <3>3. QED BY <3>1, <3>2 DEF Places
    <2>3. QED BY <2>1, <2>2 DEF HandledSteps
<1> HIDE DEF walk
<1>5. ASSUME NEW S \in SUBSET places
      PROVE  FirstStep(walk, S) \in nodes \cup {None} /\ (S # {} => FirstStep(walk, S) \in nodes)
    <2>1. S \in SUBSET Nat
        BY <1>2
    <2>2. S # {} => Earliest(S) \in S
        BY <2>1, EarliestIn
    <2>3. QED BY <2>2 DEF FirstStep
<1>6. /\ g.entry = FirstStep(walk, places) /\ g.name = name /\ g.steps = TRUE
      /\ g.edge = [n \in nodes |-> Following(walk, n)]
    BY DEF Configurable, Nodes, walk
<1>7. \A n \in nodes : Following(walk, n) \in nodes \cup {None}
    BY <1>5 DEF Following
<1>8. FirstStep(walk, places) \in nodes
    BY <1>1, <1>5
<1>9. DOMAIN g.edge = nodes /\ \A n \in nodes : g.edge[n] = Following(walk, n)
    BY <1>6
<1> HIDE DEF g, nodes
<1>10. QED
    BY <1>3, <1>4, <1>6, <1>7, <1>8, <1>9 DEF Closed, OfSteps, NodeNames, g

\* The named graphs.
Named == {Automation, CustomerSupport, LeadGeneration}

\* The edges of the named graphs lead to their own nodes.
LEMMA NamedClosed ==
    ASSUME NEW g \in Named
    PROVE  Closed(g) /\ g.steps = FALSE
<1>1. CASE g = Automation
    <2>1. /\ Automation.entry = "planning" /\ Automation.steps = FALSE
          /\ DOMAIN Automation.edge = {"planning", "routing", "validation", "tool_execution",
                                       "fallback", "approval"}
          /\ \A n \in DOMAIN Automation.edge :
                Automation.edge[n] \in {"routing", "validation", None}
        BY DEF Automation
    <2>2. QED BY <1>1, <2>1 DEF Closed, NodeNames
<1>2. CASE g = CustomerSupport
    <2>1. /\ CustomerSupport.entry = "planning" /\ CustomerSupport.steps = FALSE
          /\ DOMAIN CustomerSupport.edge = {"planning", "routing", "approval", "validation",
                                            "tool_execution", "memory", "fallback"}
          /\ \A n \in DOMAIN CustomerSupport.edge :
                CustomerSupport.edge[n] \in {"routing", "approval", "validation",
                                             "tool_execution", None}
        BY DEF CustomerSupport
    <2>2. QED BY <1>2, <2>1 DEF Closed, NodeNames
<1>3. CASE g = LeadGeneration
    <2>1. /\ LeadGeneration.entry = "planning" /\ LeadGeneration.steps = FALSE
          /\ DOMAIN LeadGeneration.edge = {"planning", "routing", "retrieval", "memory",
                                           "validation", "tool_execution", "fallback"}
          /\ \A n \in DOMAIN LeadGeneration.edge :
                LeadGeneration.edge[n] \in {"routing", "retrieval", "memory", "validation", None}
        BY DEF LeadGeneration
    <2>2. QED BY <1>3, <2>1 DEF Closed, NodeNames
<1>4. QED BY <1>1, <1>2, <1>3 DEF Named

\* A template names no step that runs a tool, and has a step of its own.
LEMMA TemplateSteps ==
    ASSUME NEW d
    PROVE  /\ \E len \in Nat : DOMAIN Template(d) = 1..len
           /\ \A k \in DOMAIN Template(d) : Template(d)[k] # "tool_execution"
<1>1. /\ DOMAIN Templates = {"automation", "sales", "lead_generation", "support"}
      /\ Templates.automation = <<"planner", "routing", "validation">>
      /\ Templates.sales = <<"planner", "research", "validator", "executor">>
      /\ Templates.lead_generation =
            <<"planner", "research", "memory", "validator", "executor">>
      /\ Templates.support = <<"planner", "retriever", "validator", "executor">>
    BY DEF Templates
<1>2. \A n \in DOMAIN Templates :
        /\ \E len \in Nat : DOMAIN Templates[n] = 1..len
        /\ \A k \in DOMAIN Templates[n] : Templates[n][k] # "tool_execution"
    <2>1. SUFFICES ASSUME NEW n \in DOMAIN Templates
                   PROVE  /\ \E len \in Nat : DOMAIN Templates[n] = 1..len
                          /\ \A k \in DOMAIN Templates[n] : Templates[n][k] # "tool_execution"
        OBVIOUS
    <2>2. CASE n = "automation"
        <3>1. DOMAIN Templates[n] = 1..3
            BY <1>1, <2>2
        <3>2. QED BY <1>1, <2>2, <3>1
    <2>3. CASE n = "sales"
        <3>1. DOMAIN Templates[n] = 1..4
            BY <1>1, <2>3
        <3>2. QED BY <1>1, <2>3, <3>1
    <2>4. CASE n = "lead_generation"
        <3>1. DOMAIN Templates[n] = 1..5
            BY <1>1, <2>4
        <3>2. QED BY <1>1, <2>4, <3>1
    <2>5. CASE n = "support"
        <3>1. DOMAIN Templates[n] = 1..4
            BY <1>1, <2>5
        <3>2. QED BY <1>1, <2>5, <3>1
    <2>6. QED BY <1>1, <2>2, <2>3, <2>4, <2>5
<1>3. \E n \in DOMAIN Templates : Template(d) = Templates[n]
    BY <1>1 DEF Template
<1>4. QED BY <1>2, <1>3

\* What the graph of a definition is like.
LEMMA Resolved ==
    ASSUME NEW d \in AllDefinitions
    PROVE  /\ Graph[d] = Resolve(d)
           /\ Closed(Graph[d])
           /\ \/ Graph[d] \in Named /\ Graph[d].steps = FALSE
              \/ /\ Graph[d].steps = TRUE /\ DOMAIN Graph[d].edge \subseteq StepHandlers
                 /\ d.steps = <<>> => "tool_execution" \notin DOMAIN Graph[d].edge
<1>1. Graph[d] = Resolve(d)
    <2>1. Graph = [x \in AllDefinitions |-> Resolve(x)]
        BY DEF Graph
    <2>2. QED BY <2>1
<1>2. CASE Resolve(d) = Make(GraphName(d))
    <2>1. Resolve(d) \in Named
        BY <1>2 DEF Make, Named
    <2>2. QED BY <1>1, <2>1, NamedClosed
<1>3. CASE d.steps # <<>> /\ Resolve(d) = Configurable(GraphName(d), d.steps)
    <2>1. PICK len \in Nat : DOMAIN d.steps = 1..len
        <3>1. d.steps \in Seq(STRING)
            BY StepsAreLists DEF AllDefinitions
        <3>2. QED BY <3>1
    <2>2. /\ Resolve(d).steps = TRUE /\ Closed(Resolve(d))
          /\ DOMAIN Resolve(d).edge \subseteq StepHandlers
        BY <1>3, <2>1, ConfigurableClosed DEF OfSteps
    <2>3. QED BY <1>1, <1>3, <2>2
<1>4. CASE d.steps = <<>> /\ Resolve(d) = Configurable(GraphName(d), Template(d))
    <2>1. "tool_execution" \notin {"planner", "router", "validator", "executor"}
        OBVIOUS
    <2> PICK len \in Nat : DOMAIN Template(d) = 1..len
        BY TemplateSteps
    <2>2. /\ Resolve(d).steps = TRUE /\ Closed(Resolve(d))
          /\ DOMAIN Resolve(d).edge \subseteq StepHandlers
          /\ \A n \in DOMAIN Resolve(d).edge :
                \/ \E k \in DOMAIN Template(d) : Template(d)[k] = n
                \/ n \in {"planner", "router", "validator", "executor"}
        BY <1>4, ConfigurableClosed DEF OfSteps
    <2>3. QED BY <1>1, <2>1, <2>2, TemplateSteps
<1>5. QED BY <1>2, <1>3, <1>4 DEF Resolve, StepsOf

----------------------------------------------------------------------------
(* What one turn of a graph does to the state of a run *)

Statuses == {"running", "paused", "failed", "completed"}

\* The fields of a state that a handler may set, one by one.
LEMMA SetNext ==
    ASSUME NEW N, NEW s \in States(N), NEW n \in NodeNames \cup {None}
    PROVE  LET t == To(s, n) IN
           /\ t \in States(N) /\ t.graph = s.graph /\ t.node = s.node /\ t.input = s.input
           /\ t.next = n /\ t.status = s.status /\ t.approved = s.approved
           /\ t.plans = s.plans /\ t.acted = s.acted
BY DEF States, To

\* The same of the status.
LEMMA SetStatus ==
    ASSUME NEW N, NEW s \in States(N), NEW st \in Statuses
    PROVE  LET t == [s EXCEPT !.status = st] IN
           /\ t \in States(N) /\ t.graph = s.graph /\ t.node = s.node /\ t.input = s.input
           /\ t.next = s.next /\ t.status = st /\ t.approved = s.approved
           /\ t.plans = s.plans /\ t.acted = s.acted
BY DEF States, Statuses

\* The same of the end of a run.
LEMMA SetComplete ==
    ASSUME NEW N, NEW s \in States(N)
    PROVE  LET t == Complete(s) IN
           /\ t \in States(N) /\ t.graph = s.graph /\ t.node = s.node /\ t.input = s.input
           /\ t.next = None /\ t.status = "completed" /\ t.approved = s.approved
           /\ t.plans = s.plans /\ t.acted = s.acted
BY DEF States, Complete

\* The same of the approval.
LEMMA SetApproved ==
    ASSUME NEW N, NEW s \in States(N)
    PROVE  LET t == [s EXCEPT !.approved = TRUE] IN
           /\ t \in States(N) /\ t.graph = s.graph /\ t.node = s.node /\ t.input = s.input
           /\ t.next = s.next /\ t.status = s.status /\ t.approved = TRUE
           /\ t.plans = s.plans /\ t.acted = s.acted
BY DEF States

\* The same of the count of plans.
LEMMA SetPlans ==
    ASSUME NEW N, NEW s \in States(N)
    PROVE  LET t == PlansOnce(s) IN
           /\ t \in States(N) /\ t.graph = s.graph /\ t.node = s.node /\ t.input = s.input
           /\ t.next = s.next /\ t.status = s.status /\ t.approved = s.approved
           /\ t.plans = (IF s.plans < 2 THEN s.plans + 1 ELSE s.plans)
           /\ t.acted = s.acted
<1>1. s.plans \in 0..2
    BY DEF States
<1>2. (IF s.plans < 2 THEN s.plans + 1 ELSE s.plans) \in 0..2
    BY <1>1
<1>3. PlansOnce(s) = [s EXCEPT !.plans = IF s.plans < 2 THEN s.plans + 1 ELSE s.plans]
    BY DEF PlansOnce
<1>4. QED
    BY <1>2, <1>3 DEF States

\* The same of the effects of a run.
LEMMA SetActed ==
    ASSUME NEW N, NEW s \in States(N), NEW t \in {Outreach(s), RunTool(s)}
    PROVE  /\ t \in States(N) /\ t.graph = s.graph /\ t.node = s.node /\ t.input = s.input
           /\ t.next = s.next /\ t.status = s.status /\ t.approved = s.approved
           /\ t.plans = s.plans
<1>1. CASE t = Outreach(s)
    BY <1>1 DEF States, Outreach
<1>2. CASE t = RunTool(s)
    <2>1. s.acted \in BOOLEAN
        BY DEF States
    <2>2. PICK b \in BOOLEAN : b = (s.acted \/ AsksTool(s.input))
        BY <2>1
    <2>3. t = [s EXCEPT !.acted = b]
        BY <1>2, <2>2 DEF RunTool
    <2>4. QED BY <2>3 DEF States
<1>3. QED BY <1>1, <1>2

\* The nodes that a handler may route to.
Targets == {"routing", "memory", "approval", "fallback", "research", "retrieval",
            "executor", "validation", "tool_execution"}

\* A turn leaves the graph, the place and the input of a run alone, and acts only
\* at a tool node, in a turn that completes the run.
Turned(s, t) ==
    /\ t.graph = s.graph /\ t.node = s.node /\ t.input = s.input
    /\ t.next \in Targets \cup {None}
    /\ t.acted => s.acted \/ s.node = "tool_execution"
    /\ s.node = "tool_execution" => t.status = "completed" /\ t.next = None

\* What a turn of a named graph decides.
NamedTurned(s, t) ==
    /\ t.plans = (IF s.node = "planning" /\ s.plans < 2 THEN s.plans + 1 ELSE s.plans)
    /\ t.approved => s.approved \/ s.node = "approval"
    /\ s.approved => t.approved
    /\ s.node = "planning" => t.next = "routing" /\ t.status = s.status
    /\ s.node = "routing" =>
        /\ t.next \in {"approval", "tool_execution", "retrieval", "validation"}
        /\ (t.next = "approval") <=> s.input.approval
        /\ t.status = s.status
    /\ s.node = "retrieval" => t.next = "memory" /\ t.status = s.status
    /\ s.node = "memory" => t.next = "validation" /\ t.status = s.status
    /\ s.node = "fallback" => t.next = None /\ t.status = "completed"
    /\ s.node = "approval" =>
        IF s.input.approved \/ s.approved
        THEN t.next = "validation" /\ t.status = s.status /\ t.approved
        ELSE t.next = None /\ t.status = "paused"
    /\ s.node = "validation" =>
        \/ ~s.input.mapping /\ t.next = "fallback" /\ t.status = "failed"
        \/ s.input.mapping /\ t.next = "tool_execution" /\ t.status = s.status
        \/ s.input.mapping /\ t.next = None /\ t.status = "completed"

NamedNodes == {"planning", "routing", "retrieval", "memory", "validation", "fallback",
               "approval", "tool_execution"}

\* Every handler of the named graphs does what NamedTurned says.
LEMMA NodeTurns ==
    ASSUME NEW N, NEW s \in States(N), s.next = None, s.node \in NamedNodes
    PROVE  Node(s) \in States(N) /\ Turned(s, Node(s)) /\ NamedTurned(s, Node(s))
<1>0. Targets \subseteq NodeNames \cup {None} /\ None \in NodeNames \cup {None}
    BY DEF Targets, NodeNames, StepHandlers, Automation, CustomerSupport, LeadGeneration
<1>a. \A n \in Targets : n \in NodeNames \cup {None}
    BY <1>0
<1>b. /\ "memory" \in NodeNames \cup {None} /\ "validation" \in NodeNames \cup {None}
      /\ "fallback" \in NodeNames \cup {None} /\ "tool_execution" \in NodeNames \cup {None}
      /\ None \in NodeNames \cup {None}
    BY <1>a, <1>0 DEF Targets
<1> USE DEF Targets, Turned, NamedTurned
<1>1. CASE s.node = "planning"
    <2>1. Node(s) = To(PlansOnce(s), "routing")
        BY <1>1 DEF Node, Planning
    <2>2. PlansOnce(s) \in States(N)
        BY SetPlans
    <2>3. To(PlansOnce(s), "routing") \in States(N)
        BY <1>a, <2>2, SetNext
    <2> DEFINE p == PlansOnce(s)
               t == To(p, "routing")
    <2>4. /\ t.graph = p.graph /\ t.node = p.node /\ t.input = p.input
          /\ t.next = "routing" /\ t.status = p.status /\ t.approved = p.approved
          /\ t.plans = p.plans /\ t.acted = p.acted
        BY <1>a, <2>2, SetNext
    <2>5. /\ p.graph = s.graph /\ p.node = s.node /\ p.input = s.input
          /\ p.next = s.next /\ p.status = s.status /\ p.approved = s.approved
          /\ p.plans = (IF s.plans < 2 THEN s.plans + 1 ELSE s.plans)
          /\ p.acted = s.acted
        BY SetPlans
    <2>6. t = Node(s)
        BY <2>1
    <2> HIDE DEF p, t
    <2>7. QED BY <1>1, <2>1, <2>3, <2>4, <2>5, <2>6
<1>2. CASE s.node = "routing"
    <2>1. Node(s) = Routing(s)
        BY <1>2 DEF Node
    <2>2. PICK n \in {"approval", "tool_execution", "retrieval", "validation"} :
            Node(s) = To(s, n) /\ (n = "approval" <=> s.input.approval)
        BY <2>1 DEF Routing
    <2>3. n \in NodeNames \cup {None}
        BY <1>a
    <2>4. QED BY <1>2, <2>2, <2>3, SetNext
<1>3. CASE s.node = "retrieval"
    <2>1. PICK n \in NodeNames \cup {None} : n = "memory" /\ Node(s) = To(s, n)
        BY <1>3, <1>b DEF Node, Retrieval
    <2>2. QED BY <1>3, <2>1, SetNext
<1>4. CASE s.node = "memory"
    <2>1. PICK n \in NodeNames \cup {None} : n = "validation" /\ Node(s) = To(s, n)
        BY <1>4, <1>b DEF Node, MemoryNode
    <2>2. QED BY <1>4, <2>1, SetNext
<1>5. CASE s.node = "validation"
    <2>1. Node(s) = Validation(s)
        BY <1>5 DEF Node
    <2>2. CASE ~s.input.mapping
        <3> DEFINE p == [s EXCEPT !.status = "failed"]
                   t == To(p, "fallback")
        <3>1. Node(s) = t
            BY <2>1, <2>2 DEF Validation
        <3>2. /\ p \in States(N) /\ p.graph = s.graph /\ p.node = s.node /\ p.input = s.input
              /\ p.next = s.next /\ p.status = "failed" /\ p.approved = s.approved
              /\ p.plans = s.plans /\ p.acted = s.acted
            BY SetStatus DEF Statuses
        <3>3. /\ t \in States(N) /\ t.graph = p.graph /\ t.node = p.node /\ t.input = p.input
              /\ t.next = "fallback" /\ t.status = p.status /\ t.approved = p.approved
              /\ t.plans = p.plans /\ t.acted = p.acted
            <4> HIDE DEF p
            <4>1. QED BY <1>b, <3>2, SetNext
        <3> HIDE DEF p, t
        <3>4. QED BY <1>5, <2>2, <3>1, <3>2, <3>3
    <2>3. CASE s.input.mapping /\ Node(s) = To(s, "tool_execution")
        <3>1. PICK n \in NodeNames \cup {None} : n = "tool_execution" /\ Node(s) = To(s, n)
            BY <1>b, <2>3
        <3>2. QED BY <1>5, <2>3, <3>1, SetNext
    <2>4. CASE s.input.mapping /\ Node(s) = Complete(s)
        BY <1>5, <2>4, SetComplete
    <2>5. QED BY <2>1, <2>2, <2>3, <2>4 DEF Validation
<1>6. CASE s.node = "fallback"
    <2>1. Node(s) = Complete(s)
        BY <1>6 DEF Node, Fallback
    <2>2. QED BY <1>6, <2>1, SetComplete
<1>7. CASE s.node = "approval"
    <2>1. Node(s) = Approval(s)
        BY <1>7 DEF Node
    <2>2. CASE s.input.approved \/ s.approved
        <3> DEFINE p == [s EXCEPT !.approved = TRUE]
                   t == To(p, "validation")
        <3>1. Node(s) = t
            BY <2>1, <2>2 DEF Approval
        <3>2. /\ p \in States(N) /\ p.graph = s.graph /\ p.node = s.node /\ p.input = s.input
              /\ p.next = s.next /\ p.status = s.status /\ p.approved = TRUE
              /\ p.plans = s.plans /\ p.acted = s.acted
            BY SetApproved
        <3>3. /\ t \in States(N) /\ t.graph = p.graph /\ t.node = p.node /\ t.input = p.input
              /\ t.next = "validation" /\ t.status = p.status /\ t.approved = p.approved
              /\ t.plans = p.plans /\ t.acted = p.acted
            <4> HIDE DEF p
            <4>1. QED BY <1>b, <3>2, SetNext
        <3> HIDE DEF p, t
        <3>4. QED BY <1>7, <2>2, <3>1, <3>2, <3>3
    <2>3. CASE ~(s.input.approved \/ s.approved)
        <3> DEFINE p == [s EXCEPT !.status = "paused"]
                   t == To(p, None)
        <3>1. Node(s) = t
            BY <2>1, <2>3 DEF Approval
        <3>2. /\ p \in States(N) /\ p.graph = s.graph /\ p.node = s.node /\ p.input = s.input
              /\ p.next = s.next /\ p.status = "paused" /\ p.approved = s.approved
              /\ p.plans = s.plans /\ p.acted = s.acted
            BY SetStatus DEF Statuses
        <3>3. /\ t \in States(N) /\ t.graph = p.graph /\ t.node = p.node /\ t.input = p.input
              /\ t.next = None /\ t.status = p.status /\ t.approved = p.approved
              /\ t.plans = p.plans /\ t.acted = p.acted
            <4> HIDE DEF p
            <4>1. PICK n \in NodeNames \cup {None} : n = None
                BY <1>b
            <4>2. t = To(p, n)
                BY <4>1
            <4> HIDE DEF t
            <4>3. QED BY <3>2, <4>1, <4>2, SetNext
        <3> HIDE DEF p, t
        <3>4. QED BY <1>7, <2>3, <3>1, <3>2, <3>3
    <2>4. QED BY <2>2, <2>3
<1>8. CASE s.node = "tool_execution"
    <2>1. PICK p \in {Outreach(s), RunTool(s)} : Node(s) = Complete(p)
        BY <1>8 DEF Node, ToolExecution
    <2>2. /\ p \in States(N) /\ p.graph = s.graph /\ p.node = s.node /\ p.input = s.input
          /\ p.next = s.next /\ p.status = s.status /\ p.approved = s.approved
          /\ p.plans = s.plans
        BY SetActed
    <2>3. QED BY <1>8, <2>1, <2>2, SetComplete
<1>9. QED BY <1>1, <1>2, <1>3, <1>4, <1>5, <1>6, <1>7, <1>8 DEF NamedNodes

\* What a turn of a configurable graph decides: it neither pauses nor approves.
StepTurned(s, t) ==
    /\ t.approved = s.approved
    /\ t.status \in {s.status, "failed", "completed"}
    /\ t.next \in {"fallback", "approval", "tool_execution", "executor", "research",
                   "validation", None}

\* Every handler of the configurable graph does what StepTurned says.
LEMMA StepTurns ==
    ASSUME NEW N, NEW s \in States(N), s.next = None, s.node \in StepHandlers
    PROVE  Step(s) \in States(N) /\ Turned(s, Step(s)) /\ StepTurned(s, Step(s))
<1>0. Targets \subseteq NodeNames \cup {None} /\ None \in NodeNames \cup {None}
    BY DEF Targets, NodeNames, StepHandlers, Automation, CustomerSupport, LeadGeneration
<1> DEFINE Routes == {"fallback", "approval", "tool_execution", "executor", "research",
                      "validation"}
<1>a. \A n \in Routes : n \in NodeNames \cup {None}
    BY <1>0 DEF Targets
<1> USE DEF Targets, Turned, StepTurned
<1>1. CASE s.node = "planner"
    <2>1. Step(s) = PlansOnce(s)
        BY <1>1 DEF Step, Planner
    <2>2. QED BY <1>1, <2>1, SetPlans
<1>2. CASE s.node \in {"research", "retriever", "memory"}
    <2>1. Step(s) = s
        BY <1>2 DEF Step
    <2>2. QED BY <1>2, <2>1
<1>3. CASE s.node \in {"validator", "approval"}
    <2>1. Step(s) = Validator(s)
        BY <1>3 DEF Step
    <2>2. CASE ~s.input.mapping
        <3> DEFINE p == [s EXCEPT !.status = "failed"]
                   t == To(p, "fallback")
        <3>1. Step(s) = t
            BY <2>1, <2>2 DEF Validator
        <3>2. /\ p \in States(N) /\ p.graph = s.graph /\ p.node = s.node /\ p.input = s.input
              /\ p.next = s.next /\ p.status = "failed" /\ p.approved = s.approved
              /\ p.plans = s.plans /\ p.acted = s.acted
            BY SetStatus DEF Statuses
        <3>3. "fallback" \in NodeNames \cup {None}
            BY <1>a
        <3>4. /\ t \in States(N) /\ t.graph = p.graph /\ t.node = p.node /\ t.input = p.input
              /\ t.next = "fallback" /\ t.status = p.status /\ t.approved = p.approved
              /\ t.plans = p.plans /\ t.acted = p.acted
            <4> HIDE DEF p
            <4>1. QED BY <3>2, <3>3, SetNext
        <3> HIDE DEF p, t
        <3>5. QED BY <1>3, <3>1, <3>2, <3>4
    <2>3. CASE s.input.mapping
        <3>1. PICK n \in Routes : Step(s) = To(s, n)
            BY <2>1, <2>3 DEF Validator
        <3>2. n \in NodeNames \cup {None}
            BY <1>a
        <3>3. QED BY <1>3, <3>1, <3>2, SetNext
    <2>4. QED BY <2>2, <2>3
<1>4. CASE s.node = "executor"
    <2>1. Step(s) = Complete(s)
        BY <1>4 DEF Step, Executor
    <2>2. QED BY <1>4, <2>1, SetComplete
<1>5. CASE s.node = "router"
    <2>1. Step(s) = Router(s)
        BY <1>5 DEF Step
    <2>2. PICK n \in Routes : Step(s) = To(s, n)
        BY <2>1 DEF Router
    <2>3. n \in NodeNames \cup {None}
        BY <1>a
    <2>4. QED BY <1>5, <2>2, <2>3, SetNext
<1>6. CASE s.node = "tool_execution"
    <2>1. PICK p \in {Outreach(s), RunTool(s)} : Step(s) = Complete(p)
        BY <1>6 DEF Step, ToolExecutor
    <2>2. /\ p \in States(N) /\ p.graph = s.graph /\ p.node = s.node /\ p.input = s.input
          /\ p.next = s.next /\ p.status = s.status /\ p.approved = s.approved
          /\ p.plans = s.plans
        BY SetActed
    <2>3. QED BY <1>6, <2>1, <2>2, SetComplete
<1>7. QED BY <1>1, <1>2, <1>3, <1>4, <1>5, <1>6 DEF StepHandlers

----------------------------------------------------------------------------
(* The inductive invariant *)

RunStates == States({Resolve(d).name : d \in AllDefinitions})

\* No run that waits for an approval acted, or left the way to the approval node.
Sound(f) ==
    /\ f \in FlowRecords
    /\ f.state.next = None
    /\ f.def.steps = <<>> /\ f.state.input.approval /\ ~f.state.approved =>
        /\ ~f.state.acted
        /\ ~GraphOf(f).steps => f.state.node \in {"planning", "routing", "approval", None}

\* The run of an attempt between two turns.
Walking(f) ==
    /\ Sound(f)
    /\ ~f.state.acted /\ f.state.status # "paused"
    /\ f.state.node \in DOMAIN GraphOf(f).edge
            \cup {"approval", "fallback", "research", "retrieval", "executor", "validation",
                  "tool_execution"}
    /\ ~GraphOf(f).steps =>
        /\ f.state.node \in NamedNodes
        /\ f.state.plans = (IF f.state.node = "planning" THEN 0 ELSE 1)
        /\ f.state.node = "approval" => f.state.input.approval

\* A run that ended, or paused at the approval node after it planned once.
Ended(f) ==
    /\ Sound(f)
    /\ Next_(f) = None
    /\ f.state.node \in DOMAIN GraphOf(f).edge
    /\ f.state.status = "paused" =>
        /\ ~GraphOf(f).steps
        /\ f.state.node = "approval" /\ f.state.plans = 1 /\ f.state.input.approval

\* An execution with its stage, run, attempts and effects.
RunOK(a, f, n, x, j) ==
    /\ a = "new" => f = NoFlow /\ n = 0
    /\ a # "new" => Sound(f)
    /\ a = "waiting" => n < MaxTries
    /\ a = "walk" => Walking(f) /\ x < n
    /\ a \in {"save", "writing", "publish", "over"} => Ended(f)
    /\ x <= n /\ j <= n
    /\ a \in {"walk", "save", "writing", "publish"} => j < n

Attempts ==
    /\ at \in [Executions -> Stages]
    /\ flow \in [Executions -> {NoFlow} \cup FlowRecords]
    /\ tries \in [Executions -> 0..MaxTries]
    /\ acts \in [Executions -> Nat]
    /\ jobs \in [Executions -> Nat]
    /\ \A e \in Executions : RunOK(at[e], flow[e], tries[e], acts[e], jobs[e])

\* The definition, and what editors read of it, are definitions.
Edited ==
    /\ definition \in AllDefinitions
    /\ editor \in [Editors -> [stage : {"new", "read", "done"}, read : {None} \cup AllDefinitions]]
    /\ \A d \in Editors : editor[d].stage = "read" => editor[d].read \in AllDefinitions

\* The file holds a run that ended.
Filed == Readable => checkpoint \in Checkpoints /\ Ended(checkpoint.flow)

\* The run an operator approved and has not resumed.
Approved(f) == Ended(f) /\ f.state.status = "paused" /\ f.state.input.approved

\* What the operator holds, and what the file holds if no worker wrote it since.
Approving ==
    /\ operator.stage \in {"idle", "save", "writing", "resume", "walk", "done", "raised",
                           "tool raised"}
    /\ operator = [stage |-> operator.stage, of |-> operator.of, flow |-> operator.flow]
    /\ operator.stage \in {"save", "writing", "resume"} =>
        operator.of \in Executions /\ Approved(operator.flow)
    /\ operator.stage # "idle" => Sound(operator.flow)
    /\ operator.stage # "idle" /\ ~overtaken =>
        /\ \A e \in Executions : at[e] # "writing"
        /\ operator.stage = "writing" => checkpoint = Torn
        /\ operator.stage = "resume" =>
            checkpoint = [of |-> operator.of, flow |-> operator.flow]

\* The resumed run of a timely approval: it stands where its graph has a node.
Resumed(f) ==
    LET s == f.state IN
    /\ ~GraphOf(f).steps
    /\ s.input.approved /\ s.input.approval /\ s.plans = 1
    /\ s.node \in DOMAIN GraphOf(f).edge
    /\ s.node \in {"approval", "validation", "tool_execution"}

TakesEffect ==
    operator.stage \in {"walk", "done", "raised", "tool raised"} /\ ~overtaken =>
        /\ operator.stage # "raised"
        /\ Resumed(operator.flow)
        /\ operator.stage = "done" => operator.flow.state.status = "completed"

FlowsInv == Attempts /\ Edited /\ Filed /\ Approving /\ TakesEffect

----------------------------------------------------------------------------
(* One turn of a run *)

\* A flow record has a definition and a state, and keeps its definition when its
\* state is set.
LEMMA FlowState ==
    ASSUME NEW f \in FlowRecords, NEW s \in RunStates
    PROVE  /\ f.state \in RunStates /\ f.def \in AllDefinitions
           /\ [f EXCEPT !.state = s] \in FlowRecords
           /\ [f EXCEPT !.state = s].def = f.def
           /\ [f EXCEPT !.state = s].state = s
           /\ f = [def |-> f.def, state |-> f.state]
BY DEF FlowRecords, RunStates

\* The name of a definition's graph is one of those that states may have.
LEMMA GraphNames ==
    ASSUME NEW d \in AllDefinitions
    PROVE  Graph[d].name \in {Resolve(x).name : x \in AllDefinitions}
BY Resolved

\* The state that goes on at a node.
Moved(s, n) == [s EXCEPT !.node = n, !.next = None]

\* Moving to a node changes the place of a run only.
LEMMA MovedFields ==
    ASSUME NEW N, NEW s \in States(N), NEW n \in NodeNames \cup {None}
    PROVE  /\ Moved(s, n) \in States(N)
           /\ Moved(s, n).node = n /\ Moved(s, n).next = None
           /\ Moved(s, n).graph = s.graph /\ Moved(s, n).input = s.input
           /\ Moved(s, n).status = s.status /\ Moved(s, n).approved = s.approved
           /\ Moved(s, n).plans = s.plans /\ Moved(s, n).acted = s.acted
BY DEF Moved, States

\* The nodes of a named graph are handlers of the named graphs.
LEMMA NamedDomain ==
    ASSUME NEW g \in Named
    PROVE  DOMAIN g.edge \subseteq NamedNodes /\ g.entry = "planning"
                /\ {"validation", "tool_execution"} \subseteq DOMAIN g.edge
<1>1. CASE g = Automation
    BY <1>1 DEF Automation, NamedNodes
<1>2. CASE g = CustomerSupport
    BY <1>2 DEF CustomerSupport, NamedNodes
<1>3. CASE g = LeadGeneration
    BY <1>3 DEF LeadGeneration, NamedNodes
<1>4. QED BY <1>1, <1>2, <1>3 DEF Named

\* What a turn that does not raise does to a run.
LEMMA WalkedTurn ==
    ASSUME NEW f, Sound(f), ~TurnRaises(GraphOf(f), f.def, f.state)
    PROVE  /\ f.state \in RunStates /\ f.def \in AllDefinitions
           /\ f.state.node \in DOMAIN GraphOf(f).edge
           /\ Walked(f) \in FlowRecords /\ Walked(f).def = f.def
           /\ Walked(f).state \in RunStates
           /\ Turned(f.state, Walked(f).state)
           /\ \/ /\ GraphOf(f).steps = FALSE /\ GraphOf(f) \in Named
                 /\ f.state.node \in NamedNodes
                 /\ NamedTurned(f.state, Walked(f).state)
              \/ /\ GraphOf(f).steps = TRUE
                 /\ f.def.steps = <<>> => f.state.node # "tool_execution"
                 /\ StepTurned(f.state, Walked(f).state)
<1> DEFINE s == f.state
           g == GraphOf(f)
           t == Turn(g, s)
<1>1. f \in FlowRecords /\ s.next = None
    BY DEF Sound
<1>2. s \in RunStates /\ f.def \in AllDefinitions
    BY <1>1 DEF FlowRecords, RunStates
<1>3. g = Graph[f.def]
    BY DEF GraphOf
<1>4. s.node \in DOMAIN g.edge
    BY DEF TurnRaises
<1>5. Walked(f) = [f EXCEPT !.state = t]
    BY DEF Walked
<1>6. /\ t \in RunStates /\ Turned(s, t)
      /\ \/ g.steps = FALSE /\ g \in Named /\ s.node \in NamedNodes /\ NamedTurned(s, t)
         \/ /\ g.steps = TRUE /\ (f.def.steps = <<>> => s.node # "tool_execution")
            /\ StepTurned(s, t)
    <2>1. CASE g \in Named /\ g.steps = FALSE
        <3>1. t = Node(s)
            BY <2>1 DEF Turn
        <3>2. s.node \in NamedNodes
            BY <1>4, <2>1, NamedDomain
        <3> HIDE DEF s, g, t
        <3>3. Node(s) \in RunStates /\ Turned(s, Node(s)) /\ NamedTurned(s, Node(s))
            BY <1>1, <1>2, <3>2, NodeTurns DEF RunStates
        <3>4. QED BY <2>1, <3>1, <3>2, <3>3
    <2>2. CASE /\ g.steps = TRUE /\ DOMAIN g.edge \subseteq StepHandlers
               /\ f.def.steps = <<>> => "tool_execution" \notin DOMAIN g.edge
        <3>1. t = Step(s)
            BY <2>2 DEF Turn
        <3>2. s.node \in StepHandlers
            BY <1>4, <2>2
        <3> HIDE DEF s, g, t
        <3>3. Step(s) \in RunStates /\ Turned(s, Step(s)) /\ StepTurned(s, Step(s))
            BY <1>1, <1>2, <3>2, StepTurns DEF RunStates
        <3>4. QED BY <1>4, <2>2, <3>1, <3>3
    <2>3. QED BY <1>2, <1>3, <2>1, <2>2, Resolved
<1> HIDE DEF s, g, t
<1>7. Walked(f) \in FlowRecords /\ Walked(f).def = f.def /\ Walked(f).state = t
    BY <1>1, <1>5, <1>6, FlowState
<1>8. QED BY <1>2, <1>4, <1>6, <1>7 DEF s, g

\* The places a turn may lead to.
LEMMA WalkedNext ==
    ASSUME NEW f, Sound(f), ~TurnRaises(GraphOf(f), f.def, f.state)
    PROVE  LET g == Walked(f) IN
           /\ GraphOf(g) = GraphOf(f)
           /\ Next_(g) \in NodeNames \cup {None}
           /\ Next_(g) = None => g.state.next = None
           /\ g.state.next # None => Next_(g) = g.state.next
           /\ g.state.next = None => Next_(g) \in DOMAIN GraphOf(f).edge \cup {None}
           /\ g.state.next = None /\ g.state.status \in {"paused", "failed", "completed"} =>
                Next_(g) = None
<1> DEFINE g == Walked(f)
<1>1. /\ f.def \in AllDefinitions /\ f.state.node \in DOMAIN GraphOf(f).edge
      /\ g.def = f.def /\ g.state.node = f.state.node
      /\ g.state.next \in Targets \cup {None}
    BY WalkedTurn DEF Turned
<1>2. GraphOf(g) = GraphOf(f)
    BY <1>1 DEF GraphOf
<1>3. Closed(GraphOf(f))
    BY <1>1, Resolved DEF GraphOf
<1>4. Targets \subseteq NodeNames
    BY DEF Targets, NodeNames, StepHandlers, Automation, CustomerSupport, LeadGeneration
<1>5. Next_(g) = NextNode(GraphOf(f), g.state)
    BY <1>2 DEF Next_
<1> HIDE DEF g
<1>6. /\ Next_(g) \in NodeNames \cup {None}
      /\ g.state.next # None => Next_(g) = g.state.next
      /\ g.state.next = None => Next_(g) \in DOMAIN GraphOf(f).edge \cup {None}
      /\ Next_(g) = None => g.state.next = None
      /\ g.state.next = None /\ g.state.status \in {"paused", "failed", "completed"} =>
                Next_(g) = None
    BY <1>1, <1>3, <1>4, <1>5 DEF NextNode, Closed
<1>7. QED BY <1>2, <1>6 DEF g

\* A run that goes on differs from the one that turned by its place.
LEMMA OnwardFields ==
    ASSUME NEW g \in FlowRecords, Next_(g) \in NodeNames \cup {None}
    PROVE  /\ Onward(g) \in FlowRecords /\ Onward(g).def = g.def
           /\ GraphOf(Onward(g)) = GraphOf(g)
           /\ Onward(g).state = Moved(g.state, Next_(g))
           /\ Onward(g).state.node = Next_(g) /\ Onward(g).state.next = None
           /\ Onward(g).state.input = g.state.input
           /\ Onward(g).state.status = g.state.status
           /\ Onward(g).state.approved = g.state.approved
           /\ Onward(g).state.plans = g.state.plans
           /\ Onward(g).state.acted = g.state.acted
<1> DEFINE n == Next_(g)
           s == g.state
           m == Moved(s, n)
<1>1. Onward(g) = [g EXCEPT !.state = m]
    BY DEF Onward, Moved
<1> HIDE DEF n
<1>2. s \in RunStates
    BY FlowState DEF FlowRecords, RunStates
<1>3. /\ m \in RunStates
      /\ m.node = n /\ m.next = None /\ m.input = s.input /\ m.status = s.status
      /\ m.approved = s.approved /\ m.plans = s.plans /\ m.acted = s.acted
    <2> HIDE DEF s
    <2>1. s \in States({Resolve(d).name : d \in AllDefinitions}) /\ n \in NodeNames \cup {None}
        BY <1>2 DEF RunStates, n
    <2>2. QED BY <2>1, MovedFields DEF RunStates
<1> HIDE DEF m
<1>4. Onward(g) \in FlowRecords /\ Onward(g).def = g.def /\ Onward(g).state = m
    BY <1>1, <1>3, FlowState
<1>5. QED BY <1>3, <1>4 DEF m, n, GraphOf

\* No node is called None.
LEMMA NoneIsNoNode ==
    /\ None \notin NodeNames
    /\ None \notin Targets \cup NamedNodes
BY MarkersAreDistinct DEF Targets, NamedNodes, NodeNames, StepHandlers, Automation,
    CustomerSupport, LeadGeneration

\* A turn keeps a run sound, whether it ends the run or goes on.
LEMMA WalkSound ==
    ASSUME NEW f, Sound(f), ~TurnRaises(GraphOf(f), f.def, f.state)
    PROVE  LET g == Walked(f) IN
           /\ Next_(g) = None => Sound(g)
           /\ Next_(g) # None => Sound(Onward(g))
<1> DEFINE g == Walked(f)
           s == f.state
           t == g.state
<1>1. /\ s.node \in DOMAIN GraphOf(f).edge
      /\ g \in FlowRecords /\ g.def = f.def
      /\ Turned(s, t)
      /\ \/ /\ GraphOf(f).steps = FALSE /\ s.node \in NamedNodes /\ NamedTurned(s, t)
         \/ /\ GraphOf(f).steps = TRUE /\ StepTurned(s, t)
            /\ f.def.steps = <<>> => s.node # "tool_execution"
    BY WalkedTurn
<1>2. /\ GraphOf(g) = GraphOf(f) /\ Next_(g) \in NodeNames \cup {None}
      /\ Next_(g) = None => t.next = None
      /\ t.next # None => Next_(g) = t.next
      /\ t.next = None /\ t.status \in {"paused", "failed", "completed"} => Next_(g) = None
    BY WalkedNext
<1>3. s.node \in NodeNames
    <2>1. f.def \in AllDefinitions
        BY DEF Sound, FlowRecords
    <2>2. Closed(GraphOf(f))
        BY <2>1, Resolved DEF GraphOf
    <2>3. QED BY <1>1, <2>2 DEF Closed
<1>4. s.node # None
    BY <1>3, NoneIsNoNode
<1>5. ASSUME f.def.steps = <<>>, t.input.approval, ~t.approved
      PROVE  /\ ~t.acted
             /\ GraphOf(f).steps = FALSE =>
                /\ t.node \in {"planning", "routing", "approval", None}
                /\ Next_(g) \in {"planning", "routing", "approval", None}
    <2>1. t.input = s.input /\ t.node = s.node
        BY <1>1 DEF Turned
    <2>2. ~s.approved
        BY <1>1, <1>5 DEF NamedTurned, StepTurned
    <2>3. ~s.acted /\ (~GraphOf(f).steps => s.node \in {"planning", "routing", "approval", None})
        BY <1>5, <2>1, <2>2 DEF Sound
    <2>4. s.node # "tool_execution"
        BY <1>1, <1>4, <1>5, <2>3
    <2>5. ~t.acted
        BY <1>1, <2>3, <2>4 DEF Turned
    <2>6. ASSUME GraphOf(f).steps = FALSE
          PROVE  Next_(g) \in {"planning", "routing", "approval", None}
        <3>1. NamedTurned(s, t)
            BY <1>1, <2>6
        <3> HIDE DEF g, s, t
        <3>2. CASE s.node = "planning"
            BY <1>2, <3>1, <3>2, NoneIsNoNode DEF NamedTurned, Targets
        <3>3. CASE s.node = "routing"
            BY <1>2, <1>5, <2>1, <3>1, <3>3, NoneIsNoNode DEF NamedTurned, Targets
        <3>4. CASE s.node = "approval"
            BY <1>2, <1>5, <3>1, <3>4 DEF NamedTurned
        <3>5. QED BY <1>4, <2>3, <2>6, <3>2, <3>3, <3>4
    <2>7. QED BY <2>1, <2>3, <2>5, <2>6
<1>6. ASSUME Next_(g) = None PROVE Sound(g)
    <2>1. t.next = None
        BY <1>2, <1>6
    <2> HIDE DEF g
    <2>2. QED BY <1>1, <1>2, <1>5, <2>1 DEF Sound
<1>7. ASSUME Next_(g) # None PROVE Sound(Onward(g))
    <2> DEFINE h == Onward(g)
    <2> HIDE DEF g
    <2>1. /\ h \in FlowRecords /\ h.def = g.def /\ GraphOf(h) = GraphOf(g)
          /\ h.state.node = Next_(g) /\ h.state.next = None /\ h.state.input = t.input
          /\ h.state.approved = t.approved /\ h.state.acted = t.acted
        BY <1>1, <1>2, OnwardFields
    <2> HIDE DEF h
    <2>2. Sound(h)
        BY <1>1, <1>2, <1>5, <2>1 DEF Sound
    <2>3. QED BY <2>2 DEF h
<1>8. QED BY <1>6, <1>7

\* A turn of an attempt leads on to a run that has not acted, or ends it.
LEMMA WalkAttempt ==
    ASSUME NEW f, Walking(f), ~TurnRaises(GraphOf(f), f.def, f.state)
    PROVE  LET g == Walked(f) IN
           /\ Next_(g) = None => Ended(g)
           /\ Next_(g) # None => Walking(Onward(g)) /\ ~g.state.acted
<1> DEFINE g == Walked(f)
           s == f.state
           t == g.state
<1>1. Sound(f)
    BY DEF Walking
<1>2. /\ s.node \in DOMAIN GraphOf(f).edge
      /\ g \in FlowRecords /\ g.def = f.def
      /\ Turned(s, t)
      /\ \/ /\ GraphOf(f).steps = FALSE /\ s.node \in NamedNodes /\ NamedTurned(s, t)
         \/ /\ GraphOf(f).steps = TRUE /\ StepTurned(s, t)
    BY <1>1, WalkedTurn
<1>3. /\ GraphOf(g) = GraphOf(f) /\ Next_(g) \in NodeNames \cup {None}
      /\ t.next # None => Next_(g) = t.next
      /\ t.next = None => Next_(g) \in DOMAIN GraphOf(f).edge \cup {None}
      /\ t.next = None /\ t.status \in {"paused", "failed", "completed"} => Next_(g) = None
    BY <1>1, WalkedNext
<1>4. t.node = s.node /\ t.input = s.input
    BY <1>2 DEF Turned
<1>5. /\ ~s.acted /\ s.status # "paused"
      /\ ~GraphOf(f).steps =>
        /\ s.node \in NamedNodes
        /\ s.plans = (IF s.node = "planning" THEN 0 ELSE 1)
        /\ s.node = "approval" => s.input.approval
    BY DEF Walking
<1>6. ~GraphOf(f).steps => t.plans = 1
    BY <1>2, <1>5 DEF NamedTurned
<1>7. ASSUME Next_(g) = None PROVE Ended(g)
    <2>1. Sound(g)
        BY <1>1, <1>7, WalkSound
    <2>2. ASSUME t.status = "paused"
          PROVE  ~GraphOf(f).steps /\ t.node = "approval"
        <3>1. ~GraphOf(f).steps /\ NamedTurned(s, t)
            BY <1>2, <1>5, <2>2 DEF StepTurned
        <3>2. s.node \in NamedNodes
            BY <1>5, <3>1
        <3>3. s.node = "tool_execution" => t.status = "completed"
            BY <1>2 DEF Turned
        <3> HIDE DEF g, s, t
        <3>4. s.node = "approval"
            BY <1>5, <2>2, <3>1, <3>2, <3>3 DEF NamedTurned, NamedNodes
        <3>5. QED BY <1>4, <3>1, <3>4
    <2> HIDE DEF g
    <2>3. QED BY <1>2, <1>3, <1>4, <1>5, <1>6, <1>7, <2>1, <2>2 DEF Ended
<1>8. ASSUME Next_(g) # None PROVE Walking(Onward(g)) /\ ~t.acted
    <2> DEFINE h == Onward(g)
    <2>1. Sound(h)
        BY <1>1, <1>8, WalkSound
    <2>2. s.node # "tool_execution"
        <3>1. SUFFICES ASSUME s.node = "tool_execution" PROVE FALSE
            OBVIOUS
        <3>2. t.status = "completed" /\ t.next = None
            BY <1>2, <3>1 DEF Turned
        <3>3. QED BY <1>3, <1>8, <3>2
    <2>3. ~t.acted
        BY <1>2, <1>5, <2>2 DEF Turned
    <2>4. t.status # "paused"
        <3>1. SUFFICES ASSUME t.status = "paused" PROVE FALSE
            OBVIOUS
        <3>2. ~GraphOf(f).steps /\ NamedTurned(s, t) /\ s.node \in NamedNodes
            BY <1>2, <1>5, <3>1 DEF StepTurned
        <3> HIDE DEF g, s, t
        <3>3. s.node = "approval" /\ t.next = None
            BY <1>5, <2>2, <3>1, <3>2 DEF NamedTurned, NamedNodes
        <3>4. QED BY <1>3, <1>8, <3>1, <3>3
    <2>5. Next_(g) \in DOMAIN GraphOf(f).edge
                \cup {"approval", "fallback", "research", "retrieval", "executor", "validation",
                      "tool_execution"}
        <3>1. CASE t.next = None
            BY <1>3, <1>8, <3>1
        <3>2. CASE t.next # None /\ GraphOf(f).steps = TRUE /\ StepTurned(s, t)
            BY <1>3, <3>2 DEF StepTurned
        <3>3. CASE t.next # None /\ GraphOf(f).steps = FALSE /\ NamedTurned(s, t)
            <4>1. CASE s.node = "planning"
                <5>1. Next_(g) = "routing"
                    BY <1>3, <3>3, <4>1 DEF NamedTurned
                <5>2. GraphOf(f) \in Named
                    BY <1>1, <3>3, WalkedTurn
                <5>3. QED BY <5>1, <5>2 DEF Named, Automation, CustomerSupport, LeadGeneration
            <4>2. CASE s.node = "retrieval"
                <5>1. Next_(g) = "memory"
                    BY <1>3, <3>3, <4>2 DEF NamedTurned
                <5>2. GraphOf(f) \in Named
                    BY <1>1, <3>3, WalkedTurn
                <5>3. "memory" \in DOMAIN GraphOf(f).edge
                    BY <1>2, <4>2, <5>2 DEF Named, Automation, CustomerSupport, LeadGeneration
                <5>4. QED BY <5>1, <5>3
            <4>3. CASE s.node \in {"routing", "memory", "validation", "fallback", "approval"}
                <5> HIDE DEF g, s, t
                <5>1. t.next \in {"approval", "tool_execution", "retrieval", "validation",
                                  "fallback"}
                    BY <3>3, <4>3 DEF NamedTurned
                <5>2. QED BY <1>3, <3>3, <5>1
            <4>4. QED BY <1>5, <2>2, <3>3, <4>1, <4>2, <4>3 DEF NamedNodes
        <3>4. QED BY <1>2, <3>1, <3>2, <3>3
    <2>6. ASSUME ~GraphOf(f).steps
          PROVE  /\ Next_(g) \in NamedNodes /\ Next_(g) # "planning"
                 /\ Next_(g) = "approval" => t.input.approval
        <3>1. NamedTurned(s, t) /\ s.node \in NamedNodes
            BY <1>2, <2>6
        <3> HIDE DEF g, s, t
        <3>2. t.next # None
            BY <1>3, <1>8, <2>2, <2>4, <3>1, NoneIsNoNode DEF NamedTurned, NamedNodes, Targets
        <3>3. /\ t.next \in NamedNodes /\ t.next # "planning"
              /\ t.next = "approval" => s.input.approval
            BY <1>5, <2>2, <2>6, <3>1, <3>2 DEF NamedTurned, NamedNodes
        <3>4. QED BY <1>3, <1>4, <3>2, <3>3
    <2> HIDE DEF g
    <2>7. /\ GraphOf(h) = GraphOf(g)
          /\ h.state.node = Next_(g) /\ h.state.input = t.input
          /\ h.state.status = t.status /\ h.state.plans = t.plans /\ h.state.acted = t.acted
        BY <1>2, <1>3, OnwardFields
    <2> HIDE DEF h
    <2>8. Walking(h)
        BY <1>3, <1>6, <2>1, <2>3, <2>4, <2>5, <2>6, <2>7 DEF Walking
    <2>9. QED BY <2>3, <2>8 DEF h
<1>9. QED BY <1>7, <1>8

----------------------------------------------------------------------------
(* How a run begins, and how the operator takes it up *)

\* A payload that asks for an approval is a mapping, also when it is approved.
LEMMA PayloadApproved ==
    ASSUME NEW i \in Payloads
    PROVE  /\ i.approval => i.mapping
           /\ i.approval => [i EXCEPT !.approved = TRUE] \in Payloads
           /\ [i EXCEPT !.approved = TRUE].approval = i.approval
           /\ [i EXCEPT !.approved = TRUE].approved = TRUE
<1>1. i \in [mapping : BOOLEAN, approval : BOOLEAN, approved : BOOLEAN,
             tool : {"none", "name", "request"}, research : BOOLEAN]
    BY DEF Payloads
<1>2. Text.approval = FALSE
    BY DEF Text, Input
<1>3. i.approval => i.mapping
    BY <1>2 DEF Payloads
<1>4. QED BY <1>1, <1>3 DEF Payloads

\* A state that nothing has happened to.
LEMMA FreshState ==
    ASSUME NEW d \in AllDefinitions, NEW i \in Payloads
    PROVE  LET s == Fresh(Graph[d].name, i) IN
           /\ s \in RunStates
           /\ s.node = None /\ s.next = None /\ s.input = i /\ s.status = "running"
           /\ s.approved = FALSE /\ s.plans = 0 /\ s.acted = FALSE
BY GraphNames DEF Fresh, RunStates, States

\* A submitted run is sound.
LEMMA SubmittedSound ==
    ASSUME NEW d \in AllDefinitions, NEW i \in Payloads
    PROVE  Sound([def |-> d, state |-> Fresh(Graph[d].name, i)])
<1> DEFINE s == Fresh(Graph[d].name, i)
           f == [def |-> d, state |-> s]
<1>1. /\ s \in RunStates /\ s.node = None /\ s.next = None /\ s.acted = FALSE
    BY FreshState
<1> HIDE DEF s
<1>2. f \in FlowRecords /\ f.state = s /\ f.def = d
    BY <1>1 DEF FlowRecords, RunStates
<1> HIDE DEF f
<1>3. Sound(f)
    BY <1>1, <1>2 DEF Sound
<1>4. QED BY <1>3 DEF f, s

\* Every attempt begins at the entry of its graph, with nothing done.
LEMMA BeginWalking ==
    ASSUME NEW f, Sound(f)
    PROVE  Walking(Begin(f))
<1> DEFINE g == GraphOf(f)
           i == f.state.input
           s == Fresh(g.name, i)
           m == Moved(s, g.entry)
           h == Begin(f)
<1>1. f \in FlowRecords /\ f.def \in AllDefinitions /\ i \in Payloads
    BY DEF Sound, FlowRecords, States
<1>2. g = Graph[f.def]
    BY DEF GraphOf
<1>3. /\ s \in RunStates
      /\ s.node = None /\ s.next = None /\ s.input = i /\ s.status = "running"
      /\ s.approved = FALSE /\ s.plans = 0 /\ s.acted = FALSE
    <2>1. s = Fresh(Graph[f.def].name, i)
        BY <1>2
    <2> HIDE DEF s, i, g
    <2>2. QED BY <1>1, <2>1, FreshState
<1>4. g.entry \in DOMAIN g.edge /\ DOMAIN g.edge \subseteq NodeNames
    BY <1>1, <1>2, Resolved DEF Closed
<1>5. g.steps = FALSE => g.entry = "planning"
    BY <1>1, <1>2, Resolved, NamedDomain
<1>6. g.steps \in BOOLEAN
    BY <1>1, <1>2, Resolved
<1> HIDE DEF g, i
<1>7. Enter(g, s) = m
    <2> HIDE DEF s
    <2>1. QED BY <1>3 DEF Enter, Moved
<1> HIDE DEF s
<1>8. /\ m \in RunStates /\ m.node = g.entry /\ m.next = None /\ m.input = i
      /\ m.status = "running" /\ m.approved = FALSE /\ m.plans = 0 /\ m.acted = FALSE
    BY <1>3, <1>4, MovedFields DEF RunStates
<1> HIDE DEF m
<1>9. h = [f EXCEPT !.state = m]
    BY <1>7 DEF Begin, s, i, g
<1>10. h \in FlowRecords /\ h.def = f.def /\ h.state = m
    BY <1>1, <1>8, <1>9, FlowState
<1>11. GraphOf(h) = g
    BY <1>10 DEF GraphOf, g
<1> HIDE DEF h
<1>12. Sound(h)
    BY <1>5, <1>6, <1>8, <1>10, <1>11 DEF Sound
<1>13. Walking(h)
    BY <1>4, <1>5, <1>6, <1>8, <1>11, <1>12, <1>10 DEF Walking, NamedNodes
<1>14. QED BY <1>13 DEF h

\* A resumed run is entered where it stands.
LEMMA EnteredEnded ==
    ASSUME NEW f, Ended(f)
    PROVE  LET h == [f EXCEPT !.state = Enter(GraphOf(f), @)] IN
           /\ Sound(h) /\ h.def = f.def /\ GraphOf(h) = GraphOf(f)
           /\ h.state.node = f.state.node /\ h.state.input = f.state.input
           /\ h.state.plans = f.state.plans
<1> DEFINE g == GraphOf(f)
           s == f.state
           m == Moved(s, s.node)
           h == [f EXCEPT !.state = Enter(g, @)]
<1>1. Sound(f) /\ f \in FlowRecords /\ s \in RunStates /\ s.node \in DOMAIN g.edge
    BY DEF Ended, Sound, FlowRecords, RunStates
<1>2. f.def \in AllDefinitions
    BY <1>1 DEF FlowRecords
<1>3. s.node \in NodeNames
    BY <1>1, <1>2, Resolved DEF Closed, GraphOf
<1>4. Enter(g, s) = m
    <2>1. s.node # None
        BY <1>3, NoneIsNoNode
    <2> HIDE DEF s
    <2>2. QED BY <2>1 DEF Enter, Moved
<1>5. h = [f EXCEPT !.state = m]
    BY <1>4
<1>6. /\ m \in RunStates /\ m.node = s.node /\ m.next = None /\ m.input = s.input
      /\ m.status = s.status /\ m.approved = s.approved /\ m.plans = s.plans
      /\ m.acted = s.acted
    <2> HIDE DEF s
    <2>1. QED BY <1>1, <1>3, MovedFields DEF RunStates
<1> HIDE DEF m, h
<1>7. h \in FlowRecords /\ h.def = f.def /\ h.state = m
    BY <1>1, <1>5, <1>6, FlowState
<1>8. GraphOf(h) = g
    BY <1>7 DEF GraphOf
<1>9. Sound(h)
    BY <1>1, <1>6, <1>7, <1>8 DEF Sound
<1>10. QED BY <1>6, <1>7, <1>8, <1>9 DEF h

\* Approving a run that paused keeps its shape.
LEMMA ApprovedEnded ==
    ASSUME NEW f, Ended(f), f.state.status = "paused"
    PROVE  Approved([f EXCEPT !.state.input.approved = TRUE])
<1> DEFINE s == f.state
           i == s.input
           j == [i EXCEPT !.approved = TRUE]
           t == [s EXCEPT !.input = j]
           h == [f EXCEPT !.state.input.approved = TRUE]
<1>1. Sound(f) /\ f \in FlowRecords /\ s \in RunStates /\ i \in Payloads /\ i.approval
    BY DEF Ended, Sound, FlowRecords, RunStates, States
<1>2. j \in Payloads /\ j.approval /\ j.approved
    <2> HIDE DEF i
    <2>1. QED BY <1>1, PayloadApproved
<1>3. h = [f EXCEPT !.state = t]
    OBVIOUS
<1>4. /\ t \in RunStates /\ t.input = j /\ t.node = s.node /\ t.next = s.next
      /\ t.status = s.status /\ t.approved = s.approved /\ t.plans = s.plans
      /\ t.acted = s.acted
    <2> HIDE DEF s, j
    <2>1. QED BY <1>1, <1>2 DEF RunStates, States
<1> HIDE DEF t, h
<1>5. h \in FlowRecords /\ h.def = f.def /\ h.state = t
    BY <1>1, <1>3, <1>4, FlowState
<1>6. GraphOf(h) = GraphOf(f)
    BY <1>5 DEF GraphOf
<1> HIDE DEF j
<1>7. Sound(h)
    BY <1>1, <1>2, <1>4, <1>5, <1>6 DEF Sound
<1>8. Next_(h) = None
    <2>1. Next_(f) = None
        BY DEF Ended
    <2> HIDE DEF s
    <2>2. Next_(f) = NextNode(GraphOf(f), s) /\ Next_(h) = NextNode(GraphOf(f), t)
        BY <1>5, <1>6 DEF Next_, s
    <2>3. QED BY <1>4, <2>1, <2>2 DEF NextNode
<1>9. Approved(h)
    BY <1>2, <1>4, <1>5, <1>6, <1>7, <1>8 DEF Approved, Ended
<1>10. QED BY <1>9 DEF h

\* The resumed run of a timely approval turns without raising, until it completes.
LEMMA ResumedTurn ==
    ASSUME NEW f, Sound(f), Resumed(f)
    PROVE  LET g == Walked(f) IN
           /\ ~TurnRaises(GraphOf(f), f.def, f.state)
           /\ Next_(g) = None => Resumed(g) /\ g.state.status = "completed"
           /\ Next_(g) # None => Resumed(Onward(g))
<1> DEFINE g == Walked(f)
           s == f.state
           t == g.state
<1>1. ~TurnRaises(GraphOf(f), f.def, f.state)
    BY DEF Resumed, TurnRaises
<1>2. /\ f.def \in AllDefinitions /\ s \in RunStates
      /\ g \in FlowRecords /\ g.def = f.def
      /\ Turned(s, t) /\ NamedTurned(s, t) /\ GraphOf(f) \in Named
    BY <1>1, WalkedTurn DEF Resumed
<1>3. /\ GraphOf(g) = GraphOf(f) /\ Next_(g) \in NodeNames \cup {None}
      /\ t.next # None => Next_(g) = t.next
      /\ t.next = None /\ t.status \in {"paused", "failed", "completed"} => Next_(g) = None
    BY <1>1, WalkedNext
<1>4. s.input.mapping
    <2>1. s.input \in Payloads /\ s.input.approval
        BY <1>2 DEF RunStates, States, Resumed
    <2>2. QED BY <2>1, PayloadApproved
<1>5. /\ ~GraphOf(f).steps /\ s.input.approved /\ s.input.approval /\ s.plans = 1
      /\ s.node \in DOMAIN GraphOf(f).edge
      /\ s.node \in {"approval", "validation", "tool_execution"}
    BY DEF Resumed
<1>6. t.node = s.node /\ t.input = s.input
    BY <1>2 DEF Turned
<1>7. t.plans = 1
    BY <1>2, <1>5 DEF NamedTurned
<1>8. {"validation", "tool_execution"} \subseteq DOMAIN GraphOf(f).edge
    BY <1>2, NamedDomain
<1> HIDE DEF g, s, t
<1>9. \/ t.next = None /\ t.status = "completed"
      \/ t.next \in {"validation", "tool_execution"}
    <2>1. CASE s.node = "approval"
        BY <1>2, <1>5, <2>1 DEF NamedTurned
    <2>2. CASE s.node = "validation"
        BY <1>2, <1>4, <2>2 DEF NamedTurned
    <2>3. CASE s.node = "tool_execution"
        BY <1>2, <2>3 DEF Turned
    <2>4. QED BY <1>5, <2>1, <2>2, <2>3
<1>10. ASSUME Next_(g) = None
       PROVE  Resumed(g) /\ t.status = "completed"
    <2>1. t.next = None /\ t.status = "completed"
        BY <1>3, <1>9, <1>10, NoneIsNoNode DEF Targets
    <2>2. QED BY <1>3, <1>5, <1>6, <1>7, <2>1 DEF Resumed, t
<1>11. ASSUME Next_(g) # None PROVE Resumed(Onward(g))
    <2> DEFINE h == Onward(g)
    <2>1. /\ GraphOf(h) = GraphOf(g)
          /\ h.state.node = Next_(g) /\ h.state.input = t.input /\ h.state.plans = t.plans
        BY <1>2, <1>3, OnwardFields DEF t
    <2>2. Next_(g) \in {"validation", "tool_execution"}
        BY <1>3, <1>9, <1>11, NoneIsNoNode DEF Targets
    <2> HIDE DEF h
    <2>3. Resumed(h)
        BY <1>3, <1>5, <1>6, <1>7, <1>8, <2>1, <2>2 DEF Resumed
    <2>4. QED BY <2>3 DEF h
<1>12. QED BY <1>1, <1>10, <1>11 DEF g, t

----------------------------------------------------------------------------
(* The invariant holds at first, and what parts of it a step leaves alone *)

\* Before anything is submitted.
LEMMA InitFlows == Init => FlowsInv
<1> SUFFICES ASSUME Init PROVE FlowsInv
    OBVIOUS
<1>1. MaxTries \in Nat \ {0}
    BY BoundsAreNatural
<1>2. Attempts
    BY <1>1 DEF Init, Attempts, RunOK, Stages
<1>3. Edited
    BY DefinitionsAreRecords DEF Init, Edited
<1>4. Filed
    BY DEF Init, Filed, Readable
<1>5. Approving /\ TakesEffect
    BY DEF Init, Approving, TakesEffect
<1>6. QED BY <1>2, <1>3, <1>4, <1>5 DEF FlowsInv

\* A step that moves one execution.
LEMMA AttemptMoves ==
    ASSUME Attempts, NEW e \in Executions,
           at' \in [Executions -> Stages],
           flow' \in [Executions -> {NoFlow} \cup FlowRecords],
           tries' \in [Executions -> 0..MaxTries],
           acts' \in [Executions -> Nat], jobs' \in [Executions -> Nat],
           \A x \in Executions \ {e} :
                /\ at'[x] = at[x] /\ flow'[x] = flow[x] /\ tries'[x] = tries[x]
                /\ acts'[x] = acts[x] /\ jobs'[x] = jobs[x],
           RunOK(at'[e], flow'[e], tries'[e], acts'[e], jobs'[e])
    PROVE  Attempts'
<1>1. \A x \in Executions : RunOK(at[x], flow[x], tries[x], acts[x], jobs[x])
    BY DEF Attempts
<1>2. \A x \in Executions : RunOK(at'[x], flow'[x], tries'[x], acts'[x], jobs'[x])
    BY <1>1
<1>3. QED BY <1>2 DEF Attempts

\* A step that does not touch the executions.
LEMMA AttemptsKept ==
    ASSUME Attempts, UNCHANGED <<at, flow, tries, effects>>
    PROVE  Attempts'
BY DEF Attempts, effects

\* A step that does not touch the definition.
LEMMA EditedKept ==
    ASSUME Edited, UNCHANGED editing
    PROVE  Edited'
BY DEF Edited, editing

\* What a step may do to the file.
LEMMA FiledMove ==
    ASSUME Filed,
           \/ checkpoint' = checkpoint
           \/ checkpoint' = Torn
           \/ checkpoint' \in Checkpoints /\ Ended(checkpoint'.flow)
    PROVE  Filed'
BY DEF Filed, Readable

\* A step of an execution that leaves the operator alone: it writes to no file,
\* or is noticed.
LEMMA ApprovingKept ==
    ASSUME Approving, TakesEffect, UNCHANGED operator,
           \/ /\ UNCHANGED <<checkpoint, overtaken>>
              /\ \A e \in Executions : at'[e] = "writing" => at[e] = "writing"
           \/ overtaken' = (operator.stage # "idle")
    PROVE  Approving' /\ TakesEffect'
<1>1. CASE /\ UNCHANGED <<checkpoint, overtaken>>
           /\ \A e \in Executions : at'[e] = "writing" => at[e] = "writing"
    BY <1>1 DEF Approving, TakesEffect
<1>2. CASE overtaken' = (operator.stage # "idle")
    BY <1>2 DEF Approving, TakesEffect
<1>3. QED BY <1>1, <1>2

----------------------------------------------------------------------------
(* The steps of the editors and of the executions *)

\* Reading and writing the definition.
LEMMA EditMove ==
    ASSUME FlowsInv, NEW d \in Editors, UpdateConfig(d)
    PROVE  FlowsInv'
<1>1. Attempts /\ Edited /\ Filed /\ Approving /\ TakesEffect
    BY DEF FlowsInv
<1>2. UNCHANGED <<at, flow, tries, effects, checkpoint, approving>>
    BY DEF UpdateConfig, ReadDefinition, WriteDefinition
<1>3. Edited'
    <2>1. CASE ReadDefinition(d)
        BY <1>1, <2>1 DEF ReadDefinition, Edited
    <2>2. CASE WriteDefinition(d)
        <3>1. editor[d].read \in AllDefinitions
            BY <1>1, <2>2 DEF WriteDefinition, Edited
        <3>2. Edit[d].field \in {"graph", "type", "steps"}
            BY EditsAreFields
        <3>3. Edit[d].value \in Values(Edit[d].field)
            BY DEF Values
        <3>4. [editor[d].read EXCEPT ![Edit[d].field] = Edit[d].value] \in AllDefinitions
            BY <3>1, <3>2, <3>3 DEF AllDefinitions
        <3>5. definition' \in AllDefinitions
            BY <2>2, <3>4 DEF WriteDefinition
        <3>6. QED BY <1>1, <2>2, <3>5 DEF WriteDefinition, Edited
    <2>3. QED BY <2>1, <2>2 DEF UpdateConfig
<1>4. Attempts'
    BY <1>1, <1>2, AttemptsKept
<1>5. Filed'
    BY <1>1, <1>2, FiledMove
<1>6. Approving' /\ TakesEffect'
    BY <1>1, <1>2, ApprovingKept DEF approving
<1>7. QED BY <1>3, <1>4, <1>5, <1>6 DEF FlowsInv

\* Submitting an execution.
LEMMA SubmitMove ==
    ASSUME FlowsInv, NEW e \in Executions, Submit(e)
    PROVE  FlowsInv'
<1>1. Attempts /\ Edited /\ Filed /\ Approving /\ TakesEffect
    BY DEF FlowsInv
<1>2. UNCHANGED <<editing, tries, effects, checkpoint, approving>>
    BY DEF Submit
<1>3. at' = [at EXCEPT ![e] = "waiting"] /\ at[e] = "new"
    BY DEF Submit, Goto
<1>4. PICK i \in Inputs[e] :
        flow' = [flow EXCEPT ![e] =
            [def |-> definition, state |-> Fresh(Graph[definition].name, i)]]
    BY DEF Submit
<1> DEFINE f == [def |-> definition, state |-> Fresh(Graph[definition].name, i)]
<1>5. definition \in AllDefinitions /\ i \in Payloads
    BY <1>1, InputsArePayloads DEF Edited
<1>6. Sound(f)
    BY <1>5, SubmittedSound
<1>7. f \in FlowRecords
    BY <1>6 DEF Sound
<1>8. flow' = [flow EXCEPT ![e] = f]
    BY <1>4
<1> HIDE DEF f
<1>9. RunOK("new", flow[e], tries[e], acts[e], jobs[e])
    BY <1>1, <1>3 DEF Attempts
<1>10. Attempts'
    <2>1. at' \in [Executions -> Stages] /\ flow' \in [Executions -> {NoFlow} \cup FlowRecords]
        BY <1>1, <1>3, <1>7, <1>8 DEF Attempts, Stages
    <2>2. RunOK("waiting", f, tries[e], acts[e], jobs[e])
        <3>1. tries[e] = 0 /\ MaxTries \in Nat \ {0}
            BY <1>9, BoundsAreNatural DEF RunOK
        <3>2. QED BY <1>6, <1>9, <3>1 DEF RunOK
    <2>3. at'[e] = "waiting" /\ flow'[e] = f
        BY <1>1, <1>3, <1>8 DEF Attempts
    <2>4. RunOK(at'[e], flow'[e], tries'[e], acts'[e], jobs'[e])
        BY <1>2, <2>2, <2>3 DEF effects
    <2>5. \A x \in Executions \ {e} :
            /\ at'[x] = at[x] /\ flow'[x] = flow[x] /\ tries'[x] = tries[x]
            /\ acts'[x] = acts[x] /\ jobs'[x] = jobs[x]
        BY <1>1, <1>2, <1>3, <1>8 DEF Attempts, effects
    <2>6. tries' \in [Executions -> 0..MaxTries] /\ acts' \in [Executions -> Nat]
            /\ jobs' \in [Executions -> Nat]
        BY <1>1, <1>2 DEF Attempts, effects
    <2>7. QED BY <1>1, <2>1, <2>4, <2>5, <2>6, AttemptMoves
<1>11. \A x \in Executions : at'[x] = "writing" => at[x] = "writing"
    BY <1>1, <1>3 DEF Attempts
<1>12. Edited' /\ Filed' /\ Approving' /\ TakesEffect'
    BY <1>1, <1>2, <1>11, EditedKept, FiledMove, ApprovingKept DEF approving
<1>13. QED BY <1>10, <1>12 DEF FlowsInv

\* An attempt begins.
LEMMA ClaimMove ==
    ASSUME FlowsInv, NEW e \in Executions, Claim(e)
    PROVE  FlowsInv'
<1>1. Attempts /\ Edited /\ Filed /\ Approving /\ TakesEffect
    BY DEF FlowsInv
<1>2. UNCHANGED <<editing, effects, checkpoint, approving>>
    BY DEF Claim
<1>3. /\ at' = [at EXCEPT ![e] = "walk"] /\ at[e] = "waiting"
      /\ flow' = [flow EXCEPT ![e] = Begin(flow[e])]
      /\ tries' = [tries EXCEPT ![e] = tries[e] + 1]
    BY DEF Claim, Goto
<1>4. RunOK("waiting", flow[e], tries[e], acts[e], jobs[e])
    BY <1>1, <1>3 DEF Attempts
<1>5. Walking(Begin(flow[e]))
    BY <1>4, BeginWalking DEF RunOK
<1>6. Begin(flow[e]) \in FlowRecords
    BY <1>5 DEF Walking, Sound
<1>7. tries[e] \in 0..MaxTries /\ acts[e] \in Nat /\ jobs[e] \in Nat /\ MaxTries \in Nat
    BY <1>1, BoundsAreNatural DEF Attempts
<1>8. tries[e] < MaxTries /\ acts[e] <= tries[e] /\ jobs[e] <= tries[e]
    BY <1>4 DEF RunOK
<1>9. Attempts'
    <2>1. /\ at' \in [Executions -> Stages]
          /\ flow' \in [Executions -> {NoFlow} \cup FlowRecords]
        BY <1>1, <1>3, <1>6 DEF Attempts, Stages
    <2>2. tries' \in [Executions -> 0..MaxTries]
        <3>1. tries[e] + 1 \in 0..MaxTries
            BY <1>7, <1>8
        <3>2. QED BY <1>1, <1>3, <3>1 DEF Attempts
    <2>3. RunOK("walk", Begin(flow[e]), tries[e] + 1, acts[e], jobs[e])
        <3>1. Sound(Begin(flow[e]))
            BY <1>5 DEF Walking
        <3>2. acts[e] < tries[e] + 1 /\ jobs[e] < tries[e] + 1
            BY <1>7, <1>8
        <3>3. acts[e] <= tries[e] + 1 /\ jobs[e] <= tries[e] + 1
            BY <1>7, <1>8
        <3>4. QED BY <1>5, <3>1, <3>2, <3>3 DEF RunOK
    <2>4. at'[e] = "walk" /\ flow'[e] = Begin(flow[e]) /\ tries'[e] = tries[e] + 1
        BY <1>1, <1>3 DEF Attempts
    <2>5. RunOK(at'[e], flow'[e], tries'[e], acts'[e], jobs'[e])
        BY <1>2, <2>3, <2>4 DEF effects
    <2>6. \A x \in Executions \ {e} :
            /\ at'[x] = at[x] /\ flow'[x] = flow[x] /\ tries'[x] = tries[x]
            /\ acts'[x] = acts[x] /\ jobs'[x] = jobs[x]
        BY <1>1, <1>2, <1>3 DEF Attempts, effects
    <2>7. acts' \in [Executions -> Nat] /\ jobs' \in [Executions -> Nat]
        BY <1>1, <1>2 DEF Attempts, effects
    <2>8. QED BY <1>1, <2>1, <2>2, <2>5, <2>6, <2>7, AttemptMoves
<1>10. \A x \in Executions : at'[x] = "writing" => at[x] = "writing"
    BY <1>1, <1>3 DEF Attempts
<1>11. Edited' /\ Filed' /\ Approving' /\ TakesEffect'
    BY <1>1, <1>2, <1>10, EditedKept, FiledMove, ApprovingKept DEF approving
<1>12. QED BY <1>9, <1>11 DEF FlowsInv

\* A turn of an attempt.
LEMMA WalkMove ==
    ASSUME FlowsInv, NEW e \in Executions, Walk(e)
    PROVE  FlowsInv'
<1> DEFINE f == flow[e]
           g == Walked(f)
           k == Acted(f, g)
<1>1. Attempts /\ Edited /\ Filed /\ Approving /\ TakesEffect
    BY DEF FlowsInv
<1>2. UNCHANGED <<editing, tries, jobs, checkpoint, approving>>
    BY DEF Walk
<1>3. /\ at[e] = "walk" /\ ~TurnRaises(GraphOf(f), f.def, f.state)
      /\ acts' = [acts EXCEPT ![e] = acts[e] + k]
      /\ IF Next_(g) = None
         THEN at' = [at EXCEPT ![e] = "save"] /\ flow' = [flow EXCEPT ![e] = g]
         ELSE flow' = [flow EXCEPT ![e] = Onward(g)] /\ at' = at
    BY DEF Walk, Goto
<1>4. RunOK("walk", f, tries[e], acts[e], jobs[e])
    BY <1>1, <1>3 DEF Attempts
<1>5. Walking(f) /\ acts[e] < tries[e] /\ jobs[e] < tries[e]
    BY <1>4 DEF RunOK
<1>6. /\ Next_(g) = None => Ended(g)
      /\ Next_(g) # None => Walking(Onward(g)) /\ ~g.state.acted
    BY <1>3, <1>5, WalkAttempt
<1>7. k \in {0, 1} /\ (Next_(g) # None => k = 0)
    BY <1>6 DEF Acted
<1>8. tries[e] \in Nat /\ acts[e] \in Nat /\ jobs[e] \in Nat
    BY <1>1, BoundsAreNatural DEF Attempts
<1> HIDE DEF f, g, k
<1>9. PICK a \in {"walk", "save"}, h \in FlowRecords :
        /\ at' = [at EXCEPT ![e] = a] /\ flow' = [flow EXCEPT ![e] = h]
        /\ RunOK(a, h, tries[e], acts[e] + k, jobs[e])
    <2>1. CASE Next_(g) = None
        <3>1. Ended(g) /\ Sound(g) /\ g \in FlowRecords
            BY <1>6, <2>1 DEF Ended, Sound
        <3>2. acts[e] + k <= tries[e] /\ jobs[e] <= tries[e]
            BY <1>5, <1>7, <1>8
        <3>3. RunOK("save", g, tries[e], acts[e] + k, jobs[e])
            BY <1>5, <3>1, <3>2 DEF RunOK
        <3>4. QED BY <1>3, <2>1, <3>1, <3>3
    <2>2. CASE Next_(g) # None
        <3>1. Walking(Onward(g)) /\ Sound(Onward(g)) /\ Onward(g) \in FlowRecords
            BY <1>6, <2>2 DEF Walking, Sound
        <3>2. acts[e] + k < tries[e] /\ acts[e] + k <= tries[e] /\ jobs[e] <= tries[e]
            BY <1>5, <1>7, <1>8, <2>2
        <3>3. RunOK("walk", Onward(g), tries[e], acts[e] + k, jobs[e])
            BY <1>5, <3>1, <3>2 DEF RunOK
        <3>4. at' = [at EXCEPT ![e] = "walk"]
            BY <1>1, <1>3, <2>2 DEF Attempts
        <3>5. QED BY <1>3, <2>2, <3>1, <3>3, <3>4
    <2>3. QED BY <2>1, <2>2
<1>10. Attempts'
    <2>1. /\ at' \in [Executions -> Stages]
          /\ flow' \in [Executions -> {NoFlow} \cup FlowRecords]
          /\ at'[e] = a /\ flow'[e] = h
        BY <1>1, <1>9 DEF Attempts, Stages
    <2>2. acts' \in [Executions -> Nat] /\ acts'[e] = acts[e] + k
        <3>1. acts[e] + k \in Nat
            BY <1>7, <1>8
        <3>2. QED BY <1>1, <1>3, <3>1 DEF Attempts
    <2>3. RunOK(at'[e], flow'[e], tries'[e], acts'[e], jobs'[e])
        BY <1>2, <1>9, <2>1, <2>2
    <2>4. \A x \in Executions \ {e} :
            /\ at'[x] = at[x] /\ flow'[x] = flow[x] /\ tries'[x] = tries[x]
            /\ acts'[x] = acts[x] /\ jobs'[x] = jobs[x]
        BY <1>1, <1>2, <1>3, <1>9 DEF Attempts
    <2>5. tries' \in [Executions -> 0..MaxTries] /\ jobs' \in [Executions -> Nat]
        BY <1>1, <1>2 DEF Attempts
    <2>6. QED BY <1>1, <2>1, <2>2, <2>3, <2>4, <2>5, AttemptMoves
<1>11. \A x \in Executions : at'[x] = "writing" => at[x] = "writing"
    BY <1>1, <1>9 DEF Attempts
<1>12. Edited' /\ Filed' /\ Approving' /\ TakesEffect'
    BY <1>1, <1>2, <1>11, EditedKept, FiledMove, ApprovingKept DEF approving
<1>13. QED BY <1>10, <1>12 DEF FlowsInv

\* The job of an attempt that broke off is retried, if it may be.
LEMMA AgainOK ==
    ASSUME NEW f, Sound(f), NEW n \in Nat, NEW x \in Nat, NEW j \in Nat, x <= n, j <= n,
           n \in 0..MaxTries,
           NEW a, a = (IF n < MaxTries THEN "waiting" ELSE "dead")
    PROVE  a \in Stages \ {"writing"} /\ RunOK(a, f, n, x, j)
<1>1. CASE n < MaxTries
    BY <1>1 DEF RunOK, Stages
<1>2. CASE ~(n < MaxTries)
    BY <1>2 DEF RunOK, Stages
<1>3. QED BY <1>1, <1>2

\* An attempt raises.
LEMMA RaiseMove ==
    ASSUME FlowsInv, NEW e \in Executions, Raise(e)
    PROVE  FlowsInv'
<1> DEFINE f == flow[e]
           a == IF tries[e] < MaxTries THEN "waiting" ELSE "dead"
<1>1. Attempts /\ Edited /\ Filed /\ Approving /\ TakesEffect
    BY DEF FlowsInv
<1>2. UNCHANGED <<editing, flow, tries, jobs, checkpoint, approving>>
    BY DEF Raise
<1>3. /\ at[e] = "walk" /\ at' = [at EXCEPT ![e] = a]
      /\ acts' = acts \/ acts' = [acts EXCEPT ![e] = acts[e] + 1]
    BY DEF Raise, Again, Goto
<1>4. RunOK("walk", f, tries[e], acts[e], jobs[e])
    BY <1>1, <1>3 DEF Attempts
<1>5. Sound(f) /\ acts[e] < tries[e] /\ jobs[e] < tries[e]
    BY <1>4 DEF RunOK
<1>6. tries[e] \in 0..MaxTries /\ tries[e] \in Nat /\ acts[e] \in Nat /\ jobs[e] \in Nat
    BY <1>1, BoundsAreNatural DEF Attempts
<1>7. /\ acts' \in [Executions -> Nat] /\ acts'[e] \in Nat /\ acts'[e] <= tries[e]
      /\ \A x \in Executions \ {e} : acts'[x] = acts[x]
    <2>1. acts[e] + 1 \in Nat /\ acts[e] <= tries[e] /\ acts[e] + 1 <= tries[e]
        BY <1>5, <1>6
    <2>2. QED BY <1>1, <1>3, <1>6, <2>1 DEF Attempts
<1>8. a \in Stages \ {"writing"} /\ RunOK(a, f, tries[e], acts'[e], jobs[e])
    <2>1. jobs[e] <= tries[e]
        BY <1>5, <1>6
    <2> HIDE DEF f
    <2>2. QED BY <1>5, <1>6, <1>7, <2>1, AgainOK
<1> HIDE DEF f, a
<1>9. Attempts'
    <2>1. at' \in [Executions -> Stages] /\ at'[e] = a
        BY <1>1, <1>3, <1>8 DEF Attempts
    <2>2. RunOK(at'[e], flow'[e], tries'[e], acts'[e], jobs'[e])
        BY <1>2, <1>8, <2>1 DEF f
    <2>3. \A x \in Executions \ {e} :
            /\ at'[x] = at[x] /\ flow'[x] = flow[x] /\ tries'[x] = tries[x]
            /\ acts'[x] = acts[x] /\ jobs'[x] = jobs[x]
        BY <1>1, <1>2, <1>3, <1>7 DEF Attempts
    <2>4. /\ flow' \in [Executions -> {NoFlow} \cup FlowRecords]
          /\ tries' \in [Executions -> 0..MaxTries] /\ jobs' \in [Executions -> Nat]
        BY <1>1, <1>2 DEF Attempts
    <2>5. QED BY <1>1, <1>7, <2>1, <2>2, <2>3, <2>4, AttemptMoves
<1>10. \A x \in Executions : at'[x] = "writing" => at[x] = "writing"
    BY <1>1, <1>3, <1>8 DEF Attempts
<1>11. Edited' /\ Filed' /\ Approving' /\ TakesEffect'
    BY <1>1, <1>2, <1>10, EditedKept, FiledMove, ApprovingKept DEF approving
<1>12. QED BY <1>9, <1>11 DEF FlowsInv

\* A step after the walk: of an execution whose run ended.
LEMMA EndedMove ==
    ASSUME Attempts, NEW e \in Executions, UNCHANGED <<flow, tries, acts>>,
           NEW a \in Stages, at' = [at EXCEPT ![e] = a],
           jobs' \in [Executions -> Nat],
           \A x \in Executions \ {e} : jobs'[x] = jobs[x],
           RunOK(a, flow[e], tries[e], acts[e], jobs'[e])
    PROVE  Attempts'
<1>1. /\ at' \in [Executions -> Stages] /\ at'[e] = a
      /\ \A x \in Executions \ {e} : at'[x] = at[x]
    BY DEF Attempts
<1>2. RunOK(at'[e], flow'[e], tries'[e], acts'[e], jobs'[e])
    BY <1>1
<1>3. /\ flow' \in [Executions -> {NoFlow} \cup FlowRecords]
      /\ tries' \in [Executions -> 0..MaxTries] /\ acts' \in [Executions -> Nat]
    BY DEF Attempts
<1>4. QED BY <1>1, <1>2, <1>3, AttemptMoves

\* The file is truncated.
LEMMA TruncateMove ==
    ASSUME FlowsInv, NEW e \in Executions, Truncate(e)
    PROVE  FlowsInv'
<1>1. Attempts /\ Edited /\ Filed /\ Approving /\ TakesEffect
    BY DEF FlowsInv
<1>2. /\ UNCHANGED <<editing, flow, tries, acts, jobs, operator>>
      /\ at[e] = "save" /\ at' = [at EXCEPT ![e] = "writing"]
      /\ checkpoint' = Torn /\ overtaken' = (operator.stage # "idle")
    BY DEF Truncate, Truncated, Goto, effects
<1>3. RunOK("save", flow[e], tries[e], acts[e], jobs[e])
    BY <1>1, <1>2 DEF Attempts
<1>4. RunOK("writing", flow[e], tries[e], acts[e], jobs'[e])
    BY <1>2, <1>3 DEF RunOK
<1>5. jobs' \in [Executions -> Nat] /\ \A x \in Executions \ {e} : jobs'[x] = jobs[x]
    BY <1>1, <1>2 DEF Attempts
<1>6. Attempts'
    BY <1>1, <1>2, <1>4, <1>5, EndedMove DEF Stages
<1>7. Edited' /\ Filed' /\ Approving' /\ TakesEffect'
    BY <1>1, <1>2, EditedKept, FiledMove, ApprovingKept
<1>8. QED BY <1>6, <1>7 DEF FlowsInv

\* The file is written, or torn by another writer.
LEMMA WriteMove ==
    ASSUME FlowsInv, NEW e \in Executions, Write(e)
    PROVE  FlowsInv'
<1> DEFINE c == [of |-> e, flow |-> flow[e]]
<1>1. Attempts /\ Edited /\ Filed /\ Approving /\ TakesEffect
    BY DEF FlowsInv
<1>2. /\ UNCHANGED <<editing, flow, tries, acts, jobs, operator>>
      /\ at[e] = "writing" /\ at' = [at EXCEPT ![e] = "publish"]
      /\ checkpoint' = c \/ checkpoint' = Torn
      /\ overtaken' = (operator.stage # "idle")
    BY DEF Write, Written, Goto, effects
<1>3. RunOK("writing", flow[e], tries[e], acts[e], jobs[e])
    BY <1>1, <1>2 DEF Attempts
<1>4. RunOK("publish", flow[e], tries[e], acts[e], jobs'[e])
    BY <1>2, <1>3 DEF RunOK
<1>5. jobs' \in [Executions -> Nat] /\ \A x \in Executions \ {e} : jobs'[x] = jobs[x]
    BY <1>1, <1>2 DEF Attempts
<1>6. Attempts'
    BY <1>1, <1>2, <1>4, <1>5, EndedMove DEF Stages
<1>7. Ended(flow[e]) /\ flow[e] \in FlowRecords
    BY <1>3 DEF RunOK, Ended, Sound
<1>8. c \in Checkpoints /\ Ended(c.flow)
    BY <1>7 DEF Checkpoints
<1> HIDE DEF c
<1>9. checkpoint' = Torn \/ (checkpoint' \in Checkpoints /\ Ended(checkpoint'.flow))
    BY <1>2, <1>8
<1>10. Edited' /\ Filed' /\ Approving' /\ TakesEffect'
    BY <1>1, <1>2, <1>9, EditedKept, FiledMove, ApprovingKept
<1>11. QED BY <1>6, <1>10 DEF FlowsInv

\* The tool job is published, or not.
LEMMA PublishMove ==
    ASSUME FlowsInv, NEW e \in Executions, PublishTool(e)
    PROVE  FlowsInv'
<1>1. Attempts /\ Edited /\ Filed /\ Approving /\ TakesEffect
    BY DEF FlowsInv
<1>2. /\ UNCHANGED <<editing, flow, tries, acts, checkpoint, approving>>
      /\ at[e] = "publish" /\ at' = [at EXCEPT ![e] = "over"]
      /\ jobs' = jobs \/ jobs' = [jobs EXCEPT ![e] = jobs[e] + 1]
    BY DEF PublishTool, Goto
<1>3. RunOK("publish", flow[e], tries[e], acts[e], jobs[e])
    BY <1>1, <1>2 DEF Attempts
<1>4. tries[e] \in Nat /\ jobs[e] \in Nat
    BY <1>1, BoundsAreNatural DEF Attempts
<1>5. jobs[e] < tries[e] /\ jobs[e] + 1 <= tries[e] /\ jobs[e] + 1 \in Nat
    BY <1>3, <1>4 DEF RunOK
<1>6. /\ jobs' \in [Executions -> Nat]
      /\ \A x \in Executions \ {e} : jobs'[x] = jobs[x]
      /\ jobs'[e] \in {jobs[e], jobs[e] + 1}
    BY <1>1, <1>2, <1>5 DEF Attempts
<1>7. jobs'[e] <= tries[e]
    BY <1>4, <1>5, <1>6
<1>8. RunOK("over", flow[e], tries[e], acts[e], jobs'[e])
    BY <1>3, <1>7 DEF RunOK
<1>9. Attempts'
    BY <1>1, <1>2, <1>6, <1>8, EndedMove DEF Stages
<1>10. \A x \in Executions : at'[x] = "writing" => at[x] = "writing"
    BY <1>1, <1>2 DEF Attempts
<1>11. Edited' /\ Filed' /\ Approving' /\ TakesEffect'
    BY <1>1, <1>2, <1>10, EditedKept, FiledMove, ApprovingKept DEF approving
<1>12. QED BY <1>9, <1>11 DEF FlowsInv

\* A worker dies after the walk.
LEMMA DiesMove ==
    ASSUME FlowsInv, NEW e \in Executions, WorkerDies(e)
    PROVE  FlowsInv'
<1> DEFINE a == IF tries[e] < MaxTries THEN "waiting" ELSE "dead"
<1>1. Attempts /\ Edited /\ Filed /\ Approving /\ TakesEffect
    BY DEF FlowsInv
<1>2. /\ UNCHANGED <<editing, flow, tries, acts, jobs, checkpoint, approving>>
      /\ at[e] \in {"save", "writing", "publish"} /\ at' = [at EXCEPT ![e] = a]
    BY DEF WorkerDies, Again, Goto, effects
<1>3. RunOK(at[e], flow[e], tries[e], acts[e], jobs[e])
    BY <1>1 DEF Attempts
<1>4. Sound(flow[e]) /\ acts[e] <= tries[e] /\ jobs[e] <= tries[e]
    BY <1>2, <1>3 DEF RunOK
<1>5. tries[e] \in 0..MaxTries /\ tries[e] \in Nat /\ acts[e] \in Nat /\ jobs[e] \in Nat
    BY <1>1, BoundsAreNatural DEF Attempts
<1>6. a \in Stages \ {"writing"} /\ RunOK(a, flow[e], tries[e], acts[e], jobs[e])
    BY <1>4, <1>5, AgainOK
<1> HIDE DEF a
<1>7. jobs' \in [Executions -> Nat] /\ \A x \in Executions : jobs'[x] = jobs[x]
    BY <1>1, <1>2 DEF Attempts
<1>8. RunOK(a, flow[e], tries[e], acts[e], jobs'[e])
    BY <1>6, <1>7
<1>9. Attempts'
    BY <1>1, <1>2, <1>6, <1>7, <1>8, EndedMove
<1>10. \A x \in Executions : at'[x] = "writing" => at[x] = "writing"
    BY <1>1, <1>2, <1>6 DEF Attempts
<1>11. Edited' /\ Filed' /\ Approving' /\ TakesEffect'
    BY <1>1, <1>2, <1>10, EditedKept, FiledMove, ApprovingKept DEF approving
<1>12. QED BY <1>9, <1>11 DEF FlowsInv

----------------------------------------------------------------------------
(* The steps of the operator *)

\* The operator loads a paused run and approves it.
LEMMA ApproveMove ==
    ASSUME FlowsInv, Approve
    PROVE  FlowsInv'
<1> DEFINE f == [checkpoint.flow EXCEPT !.state.input.approved = TRUE]
<1>1. Attempts /\ Edited /\ Filed /\ Approving /\ TakesEffect
    BY DEF FlowsInv
<1>2. /\ UNCHANGED <<editing, at, flow, tries, effects, checkpoint>>
      /\ Readable /\ checkpoint.flow.state.status = "paused"
      /\ operator' = [stage |-> "save", of |-> checkpoint.of, flow |-> f]
      /\ overtaken' = (\E e \in Executions : at[e] = "writing")
    BY DEF Approve
<1>3. Ended(checkpoint.flow) /\ checkpoint.of \in Executions
    BY <1>1, <1>2 DEF Filed, Checkpoints
<1>4. Approved(f)
    BY <1>2, <1>3, ApprovedEnded
<1>5. Sound(f)
    BY <1>4 DEF Approved, Ended
<1> HIDE DEF f
<1>6. Approving'
    <2>1. operator'.stage = "save" /\ operator'.of = checkpoint.of /\ operator'.flow = f
        BY <1>2
    <2>2. ~overtaken' => \A e \in Executions : at'[e] # "writing"
        BY <1>2
    <2>3. QED BY <1>2, <1>3, <1>4, <1>5, <2>1, <2>2 DEF Approving
<1>7. TakesEffect'
    BY <1>2 DEF TakesEffect
<1>8. Attempts' /\ Edited' /\ Filed'
    BY <1>1, <1>2, AttemptsKept, EditedKept, FiledMove
<1>9. QED BY <1>6, <1>7, <1>8 DEF FlowsInv

\* The operator writes the approved run to the file.
LEMMA SaveMove ==
    ASSUME FlowsInv, SaveApproval
    PROVE  FlowsInv'
<1> DEFINE c == [of |-> operator.of, flow |-> operator.flow]
<1>1. Attempts /\ Edited /\ Filed /\ Approving /\ TakesEffect
    BY DEF FlowsInv
<1>2. UNCHANGED <<editing, at, flow, tries, effects, overtaken>>
    BY DEF SaveApproval
<1>3. operator = [stage |-> operator.stage, of |-> operator.of, flow |-> operator.flow]
    BY <1>1 DEF Approving
<1>4. \/ /\ operator.stage = "save" /\ checkpoint' = Torn
         /\ operator' = [operator EXCEPT !.stage = "writing"]
      \/ /\ operator.stage = "writing"
         /\ checkpoint' = c \/ (checkpoint # Torn /\ checkpoint' = Torn)
         /\ operator' = [operator EXCEPT !.stage = "resume"]
    BY DEF SaveApproval, Truncated, Written, Stage
<1>5. operator.of \in Executions /\ Approved(operator.flow) /\ Sound(operator.flow)
    BY <1>1, <1>4 DEF Approving
<1>6. Ended(operator.flow) /\ operator.flow \in FlowRecords
    BY <1>5 DEF Approved, Sound
<1>7. c \in Checkpoints /\ Ended(c.flow)
    BY <1>5, <1>6 DEF Checkpoints
<1>8. /\ operator' = [stage |-> operator'.stage, of |-> operator.of, flow |-> operator.flow]
      /\ operator'.stage \in {"writing", "resume"}
    BY <1>3, <1>4
<1>9. ~overtaken => \A e \in Executions : at[e] # "writing"
    BY <1>1, <1>4 DEF Approving
<1>10. ~overtaken /\ operator.stage = "writing" => checkpoint = Torn
    BY <1>1 DEF Approving
<1>11. ~overtaken =>
        /\ operator'.stage = "writing" => checkpoint' = Torn
        /\ operator'.stage = "resume" => checkpoint' = c
    BY <1>3, <1>4, <1>10
<1>12. operator'.of = operator.of /\ operator'.flow = operator.flow
    BY <1>8
<1>13. Filed'
    <2> HIDE DEF c
    <2>1. checkpoint' = Torn \/ (checkpoint' \in Checkpoints /\ Ended(checkpoint'.flow))
        BY <1>4, <1>7
    <2>2. QED BY <1>1, <2>1, FiledMove
<1>14. Approving'
    BY <1>2, <1>5, <1>8, <1>9, <1>11, <1>12 DEF Approving
<1>15. TakesEffect'
    BY <1>8 DEF TakesEffect
<1>16. Attempts' /\ Edited'
    BY <1>1, <1>2, AttemptsKept, EditedKept
<1>17. QED BY <1>13, <1>14, <1>15, <1>16 DEF FlowsInv

\* The operator resumes the run that the file holds.
LEMMA ResumeMove ==
    ASSUME FlowsInv, Resume
    PROVE  FlowsInv'
<1> DEFINE f == checkpoint.flow
           h == [f EXCEPT !.state = Enter(GraphOf(f), @)]
<1>1. Attempts /\ Edited /\ Filed /\ Approving /\ TakesEffect
    BY DEF FlowsInv
<1>2. /\ UNCHANGED <<editing, at, flow, tries, effects, checkpoint, overtaken>>
      /\ operator.stage = "resume"
    BY DEF Resume
<1>3. operator = [stage |-> operator.stage, of |-> operator.of, flow |-> operator.flow]
    BY <1>1 DEF Approving
<1>4. ~overtaken => \A e \in Executions : at[e] # "writing"
    BY <1>1, <1>2 DEF Approving
<1>5. Attempts' /\ Edited' /\ Filed'
    BY <1>1, <1>2, AttemptsKept, EditedKept, FiledMove
<1>6. Approved(operator.flow) /\ Sound(operator.flow) /\ operator.of \in Executions
    BY <1>1, <1>2 DEF Approving
<1>7. ~overtaken => checkpoint = [of |-> operator.of, flow |-> operator.flow]
    BY <1>1, <1>2 DEF Approving
<1>8. ~overtaken => Readable
    <2>1. [of |-> operator.of, flow |-> operator.flow] \in Checkpoints
        BY <1>6 DEF Checkpoints, Sound
    <2>2. QED BY <1>7, <2>1, MarkersAreDistinct DEF Readable
<1>9. CASE Readable
    <2>1. operator' = [stage |-> "walk", of |-> checkpoint.of, flow |-> h]
        BY <1>9 DEF Resume
    <2>2. Ended(f)
        BY <1>1, <1>9 DEF Filed
    <2>3. /\ Sound(h) /\ GraphOf(h) = GraphOf(f)
          /\ h.state.node = f.state.node /\ h.state.input = f.state.input
          /\ h.state.plans = f.state.plans
        BY <2>2, EnteredEnded
    <2>4. ~overtaken => f = operator.flow
        BY <1>7
    <2>5. ~overtaken => Resumed(h)
        <3>1. SUFFICES ASSUME ~overtaken PROVE Resumed(h)
            OBVIOUS
        <3> HIDE DEF f, h
        <3>2. Approved(f)
            BY <1>6, <2>4, <3>1
        <3>3. QED BY <2>3, <3>2 DEF Approved, Ended, Resumed
    <2> HIDE DEF f, h
    <2>6. operator'.stage = "walk" /\ operator'.flow = h
            /\ operator' = [stage |-> operator'.stage, of |-> operator'.of, flow |-> operator'.flow]
        BY <2>1
    <2>7. Approving'
        BY <1>2, <1>4, <2>3, <2>6 DEF Approving
    <2>8. TakesEffect'
        BY <1>2, <2>5, <2>6 DEF TakesEffect
    <2>9. QED BY <1>5, <2>7, <2>8 DEF FlowsInv
<1>10. CASE ~Readable
    <2>1. operator' = [operator EXCEPT !.stage = "raised"]
        BY <1>10 DEF Resume, Stage
    <2>2. /\ operator' = [stage |-> "raised", of |-> operator.of, flow |-> operator.flow]
          /\ operator'.stage = "raised" /\ operator'.of = operator.of
          /\ operator'.flow = operator.flow
        BY <1>3, <2>1
    <2>3. overtaken'
        BY <1>2, <1>8, <1>10 DEF Approving
    <2>4. Approving'
        BY <1>6, <2>2, <2>3 DEF Approving
    <2>5. TakesEffect'
        BY <2>3 DEF TakesEffect
    <2>6. QED BY <1>5, <2>4, <2>5 DEF FlowsInv
<1>11. QED BY <1>9, <1>10

\* The resumed run takes a turn.
LEMMA WalkOnMove ==
    ASSUME FlowsInv, WalkOn
    PROVE  FlowsInv'
<1> DEFINE f == operator.flow
           g == Walked(f)
<1>1. Attempts /\ Edited /\ Filed /\ Approving /\ TakesEffect
    BY DEF FlowsInv
<1>2. /\ UNCHANGED <<editing, at, flow, tries, effects, checkpoint, overtaken>>
      /\ operator.stage = "walk"
    BY DEF WalkOn
<1>3. operator = [stage |-> operator.stage, of |-> operator.of, flow |-> operator.flow]
    BY <1>1 DEF Approving
<1>4. ~overtaken => \A e \in Executions : at[e] # "writing"
    BY <1>1, <1>2 DEF Approving
<1>5. Attempts' /\ Edited' /\ Filed'
    BY <1>1, <1>2, AttemptsKept, EditedKept, FiledMove
<1>6. Sound(f) /\ (~overtaken => Resumed(f))
    BY <1>1, <1>2 DEF Approving, TakesEffect
<1>7. ~overtaken => ~TurnRaises(GraphOf(f), f.def, f.state)
    BY <1>6, ResumedTurn
<1>8. \/ TurnRaises(GraphOf(f), f.def, f.state) /\ operator' = [operator EXCEPT !.stage = "raised"]
      \/ operator' = [operator EXCEPT !.stage = "tool raised"]
      \/ /\ ~TurnRaises(GraphOf(f), f.def, f.state)
         /\ operator' = (IF Next_(g) = None
                         THEN [operator EXCEPT !.stage = "done", !.flow = g]
                         ELSE [operator EXCEPT !.flow = Onward(g)])
    BY DEF WalkOn, Stage
<1> DEFINE On(st, h) ==
            /\ operator' = [stage |-> st, of |-> operator.of, flow |-> h]
            /\ Sound(h)
            /\ ~overtaken =>
                /\ st # "raised" /\ Resumed(h)
                /\ st = "done" => h.state.status = "completed"
<1>a. PICK st \in {"walk", "done", "raised", "tool raised"} : \E h : On(st, h)
    <2>1. CASE /\ TurnRaises(GraphOf(f), f.def, f.state)
               /\ operator' = [operator EXCEPT !.stage = "raised"]
        <3>1. operator' = [stage |-> "raised", of |-> operator.of, flow |-> f]
            BY <1>3, <2>1
        <3>2. overtaken
            BY <1>1, <1>7, <2>1
        <3> HIDE DEF f
        <3>3. QED BY <1>6, <3>1, <3>2
    <2>2. CASE operator' = [operator EXCEPT !.stage = "tool raised"]
        <3>1. operator' = [stage |-> "tool raised", of |-> operator.of, flow |-> f]
            BY <1>3, <2>2
        <3> HIDE DEF f
        <3>2. QED BY <1>6, <3>1
    <2>3. CASE /\ ~TurnRaises(GraphOf(f), f.def, f.state) /\ Next_(g) = None
               /\ operator' = [operator EXCEPT !.stage = "done", !.flow = g]
        <3>1. operator' = [stage |-> "done", of |-> operator.of, flow |-> g]
            <4> HIDE DEF g
            <4>1. QED BY <1>3, <2>3
        <3>2. Sound(g)
            BY <1>6, <2>3, WalkSound
        <3>3. ~overtaken => Resumed(g) /\ g.state.status = "completed"
            BY <1>6, <2>3, ResumedTurn
        <3> HIDE DEF g
        <3>4. QED BY <3>1, <3>2, <3>3
    <2>4. CASE /\ ~TurnRaises(GraphOf(f), f.def, f.state) /\ Next_(g) # None
               /\ operator' = [operator EXCEPT !.flow = Onward(g)]
        <3> DEFINE h == Onward(g)
        <3>1. Sound(h)
            BY <1>6, <2>4, WalkSound
        <3>2. ~overtaken => Resumed(h)
            BY <1>6, <2>4, ResumedTurn
        <3>3. operator' = [operator EXCEPT !.flow = h]
            BY <2>4
        <3> HIDE DEF h
        <3>4. operator' = [stage |-> "walk", of |-> operator.of, flow |-> h]
            BY <1>2, <1>3, <3>3
        <3>5. QED BY <3>1, <3>2, <3>4
    <2>5. QED BY <1>8, <2>1, <2>2, <2>3, <2>4
<1>9. PICK h : On(st, h)
    BY <1>a
<1>10. operator'.stage = st /\ operator'.of = operator.of /\ operator'.flow = h
    BY <1>9
<1>11. Approving'
    BY <1>2, <1>4, <1>9, <1>10 DEF Approving
<1>12. TakesEffect'
    BY <1>2, <1>9, <1>10 DEF TakesEffect
<1>13. QED BY <1>5, <1>11, <1>12 DEF FlowsInv

----------------------------------------------------------------------------
(* The theorems *)

\* Every step keeps the invariant.
LEMMA FlowsStep == FlowsInv /\ [Next]_vars => FlowsInv'
<1> SUFFICES ASSUME FlowsInv, [Next]_vars PROVE FlowsInv'
    OBVIOUS
<1>1. ASSUME NEW d \in Editors, UpdateConfig(d) PROVE FlowsInv'
    BY <1>1, EditMove
<1>2. ASSUME NEW e \in Executions, Submit(e) PROVE FlowsInv'
    BY <1>2, SubmitMove
<1>3. ASSUME NEW e \in Executions, Run(e) PROVE FlowsInv'
    BY <1>3, ClaimMove, WalkMove, RaiseMove, TruncateMove, WriteMove, PublishMove DEF Run
<1>4. ASSUME NEW e \in Executions, WorkerDies(e) PROVE FlowsInv'
    BY <1>4, DiesMove
<1>5. CASE OperatorNext
    BY <1>5, ApproveMove, SaveMove, ResumeMove, WalkOnMove DEF OperatorNext
<1>6. CASE UNCHANGED vars
    <2>1. Attempts /\ Edited /\ Filed /\ Approving /\ TakesEffect
        BY DEF FlowsInv
    <2>2. UNCHANGED <<editing, at, flow, tries, effects, checkpoint, operator, overtaken>>
        BY <1>6 DEF vars, approving
    <2>3. Attempts' /\ Edited' /\ Filed' /\ Approving' /\ TakesEffect'
        BY <2>1, <2>2, AttemptsKept, EditedKept, FiledMove, ApprovingKept
    <2>4. QED BY <2>3 DEF FlowsInv
<1>7. QED BY <1>1, <1>2, <1>3, <1>4, <1>5, <1>6 DEF Next

\* The invariant of the runs, the file and the operator.
THEOREM FlowsInvariant == Spec => []FlowsInv
BY InitFlows, FlowsStep, PTL DEF Spec

\* Jobs and the file carry what runs need, a run between two turns stands at a
\* node or where it was routed, and a run is saved only once it ended: of
\* workflow_runner.py and base_graph.py, for any definitions and inputs.
THEOREM TypesHold == Spec => []FlowsTypeOK
<1>1. ASSUME FlowsInv PROVE FlowsTypeOK
    <2>1. Attempts /\ Edited /\ Filed
        BY <1>1 DEF FlowsInv
    <2>2. ASSUME NEW e \in Executions
          PROVE  /\ at[e] = "new" <=> flow[e] = NoFlow
                 /\ at[e] # "new" => flow[e] \in FlowRecords
                 /\ at[e] = "walk" => flow[e].state.node \in DOMAIN GraphOf(flow[e]).edge
                        \cup {"approval", "fallback", "research", "retrieval", "executor",
                              "validation", "tool_execution"}
                 /\ at[e] \in {"save", "writing", "publish", "over"} => Next_(flow[e]) = None
        <3>1. RunOK(at[e], flow[e], tries[e], acts[e], jobs[e])
            BY <2>1 DEF Attempts
        <3>2. at[e] # "new" => flow[e] \in FlowRecords
            BY <3>1 DEF RunOK, Sound
        <3>3. NoFlow \notin FlowRecords
            BY MarkersAreDistinct DEF NoFlow, FlowRecords
        <3>4. at[e] = "new" => flow[e] = NoFlow
            BY <3>1 DEF RunOK
        <3>5. /\ at[e] = "walk" => Walking(flow[e])
              /\ at[e] \in {"save", "writing", "publish", "over"} => Ended(flow[e])
            BY <3>1 DEF RunOK
        <3>6. QED BY <3>2, <3>3, <3>4, <3>5 DEF Walking, Ended
    <2>3. QED BY <2>1, <2>2 DEF FlowsTypeOK, Attempts, Edited, Filed
<1>2. QED BY <1>1, FlowsInvariant, PTL

\* No run of a workflow without steps of its own acts before it is approved, if
\* its input asks for that: not on a retry, and not when it is resumed from a
\* file that another execution wrote.
THEOREM NoActBeforeApproval == Spec => []ActsOnlyIfApproved
<1>1. ASSUME FlowsInv PROVE ActsOnlyIfApproved
    <2>1. Attempts /\ Approving
        BY <1>1 DEF FlowsInv
    <2>2. ASSUME NEW f \in Runs PROVE Sound(f)
        <3>1. CASE f \in {flow[e] : e \in {x \in Executions : at[x] # "new"}}
            <4>1. PICK e \in Executions : at[e] # "new" /\ f = flow[e]
                BY <3>1
            <4>2. RunOK(at[e], flow[e], tries[e], acts[e], jobs[e])
                BY <2>1 DEF Attempts
            <4>3. QED BY <4>1, <4>2 DEF RunOK
        <3>2. CASE operator.stage # "idle" /\ f = operator.flow
            BY <2>1, <3>2 DEF Approving
        <3>3. QED BY <3>1, <3>2 DEF Runs
    <2>3. QED BY <2>2 DEF ActsOnlyIfApproved, Sound
<1>2. QED BY <1>1, FlowsInvariant, PTL

\* An approval that no worker overtook goes on where the run paused and ends
\* completed, as the resume test expects.
THEOREM ApprovalsTakeEffect == Spec => []ApprovalTakesEffect
<1>1. ASSUME FlowsInv PROVE ApprovalTakesEffect
    BY <1>1 DEF FlowsInv, TakesEffect, Resumed, ApprovalTakesEffect
<1>2. QED BY <1>1, FlowsInvariant, PTL

\* The effects of an execution are bounded by its attempts.
THEOREM EffectsAreBounded == Spec => []EffectsPerAttempt
<1>1. ASSUME FlowsInv PROVE EffectsPerAttempt
    <2>1. Attempts
        BY <1>1 DEF FlowsInv
    <2>2. SUFFICES ASSUME NEW e \in Executions
                   PROVE  /\ acts[e] <= tries[e]
                          /\ jobs[e] <= (IF at[e] \in {"walk", "save", "writing", "publish"}
                                         THEN tries[e] - 1 ELSE tries[e])
                          /\ at[e] = "over" /\ tries[e] = 1 => jobs[e] <= 1
        BY DEF EffectsPerAttempt
    <2>3. RunOK(at[e], flow[e], tries[e], acts[e], jobs[e])
        BY <2>1 DEF Attempts
    <2>4. /\ acts[e] <= tries[e] /\ jobs[e] <= tries[e]
          /\ at[e] \in {"walk", "save", "writing", "publish"} => jobs[e] < tries[e]
        BY <2>3 DEF RunOK
    <2>5. tries[e] \in Nat /\ jobs[e] \in Nat
        BY <2>1, BoundsAreNatural DEF Attempts
    <2>6. jobs[e] < tries[e] => jobs[e] <= tries[e] - 1
        BY <2>5
    <2>7. QED BY <2>4, <2>5, <2>6
<1>2. QED BY <1>1, FlowsInvariant, PTL

----------------------------------------------------------------------------
(* Runs go forward *)

\* The last place of a node of a list of steps is one of its places.
LEMMA LastPlaceIn ==
    ASSUME NEW walk, NEW len \in Nat, DOMAIN walk = 1..len, NEW n \in Nodes(walk)
    PROVE  /\ LastPlace(walk, n) \in Places(walk) /\ walk[LastPlace(walk, n)] = n
           /\ \A k \in Places(walk) : walk[k] = n => k <= LastPlace(walk, n)
<1> DEFINE S == {k \in Places(walk) : walk[k] = n}
<1>1. S \in SUBSET (1..len) /\ S # {}
    BY DEF Places, Nodes
<1>2. PICK m \in S : \A j \in S : j <= m
    BY <1>1, LatestExists
<1>3. Latest(S) \in S /\ \A j \in S : j <= Latest(S)
    BY <1>2 DEF Latest
<1>4. LastPlace(walk, n) = Latest(S)
    BY DEF LastPlace
<1> HIDE DEF S
<1>5. \A k : k \in S <=> k \in Places(walk) /\ walk[k] = n
    BY DEF S
<1>6. QED BY <1>3, <1>4, <1>5

\* The step that follows is named at a later place.
LEMMA FollowingIsLater ==
    ASSUME NEW walk, NEW len \in Nat, DOMAIN walk = 1..len, NEW n \in Nodes(walk),
           Following(walk, n) # None
    PROVE  /\ Following(walk, n) \in Nodes(walk)
           /\ LastPlace(walk, n) < LastPlace(walk, Following(walk, n))
<1> DEFINE S == {k \in Places(walk) : k > LastPlace(walk, n)}
<1>1. Following(walk, n) = FirstStep(walk, S)
    BY DEF Following
<1>2. S \in SUBSET Nat /\ Places(walk) \subseteq 1..len
    BY DEF Places
<1>3. S # {}
    BY <1>1 DEF FirstStep
<1>4. Earliest(S) \in S
    BY <1>2, <1>3, EarliestIn
<1>5. Following(walk, n) = walk[Earliest(S)]
    BY <1>1, <1>3 DEF FirstStep
<1>6. PICK k \in Places(walk) : k > LastPlace(walk, n) /\ Following(walk, n) = walk[k]
    BY <1>4, <1>5
<1>7. Following(walk, n) \in Nodes(walk)
    BY <1>6 DEF Nodes
<1>8. /\ LastPlace(walk, n) \in 1..len /\ LastPlace(walk, Following(walk, n)) \in 1..len
      /\ k <= LastPlace(walk, Following(walk, n))
    BY <1>2, <1>6, <1>7, LastPlaceIn
<1>9. QED BY <1>2, <1>6, <1>7, <1>8

\* The routes of the steps: four leave the way to the edges, two end the run.
StepRoutes(s, t) ==
    /\ s.node \in {"planner", "research", "retriever", "memory"} => t.next = None
    /\ s.node \in {"validator", "approval"} =>
        /\ t.next \in {"fallback", "approval", "tool_execution", "executor"}
        /\ t.next = "approval" => s.input.approval
    /\ s.node = "router" =>
        /\ t.next \in {"approval", "research", "tool_execution", "validation"}
        /\ t.next = "approval" => s.input.approval
        /\ t.next = "research" => s.input.research
    /\ s.node \in {"executor", "tool_execution"} => t.next = None /\ t.status = "completed"

\* Every step does what StepRoutes says.
LEMMA StepsRoute ==
    ASSUME NEW N, NEW s \in States(N), s.next = None, s.node \in StepHandlers
    PROVE  StepRoutes(s, Step(s))
<1> USE DEF StepRoutes
<1>0. Targets \subseteq NodeNames \cup {None}
    BY DEF Targets, NodeNames, StepHandlers, Automation, CustomerSupport, LeadGeneration
<1>1. CASE s.node = "planner"
    <2>1. Step(s) = PlansOnce(s)
        BY <1>1 DEF Step, Planner
    <2>2. QED BY <1>1, <2>1, SetPlans
<1>2. CASE s.node \in {"research", "retriever", "memory"}
    BY <1>2 DEF Step
<1>3. CASE s.node \in {"validator", "approval"}
    <2>1. Step(s) = Validator(s)
        BY <1>3 DEF Step
    <2>2. PICK p, n : /\ Validator(s) = To(p, n) /\ p \in States(N) /\ n \in Targets
                      /\ n \in {"fallback", "approval", "tool_execution", "executor"}
                      /\ n = "approval" => s.input.approval
        <3>1. CASE ~s.input.mapping
            <4>1. [s EXCEPT !.status = "failed"] \in States(N)
                BY SetStatus DEF Statuses
            <4>2. QED BY <3>1, <4>1 DEF Validator, Targets
        <3>2. CASE s.input.mapping
            BY <3>2 DEF Validator, Targets
        <3>3. QED BY <3>1, <3>2
    <2>3. To(p, n).next = n
        BY <1>0, <2>2, SetNext
    <2>4. QED BY <1>3, <2>1, <2>2, <2>3
<1>4. CASE s.node = "executor"
    BY <1>4, SetComplete DEF Step, Executor
<1>5. CASE s.node = "router"
    <2>1. PICK n \in Targets : /\ Step(s) = To(s, n)
                               /\ n \in {"approval", "research", "tool_execution", "validation"}
                               /\ n = "approval" => s.input.approval
                               /\ n = "research" => s.input.research
        BY <1>5 DEF Step, Router, Targets
    <2>2. To(s, n).next = n
        BY <1>0, <2>1, SetNext
    <2>3. QED BY <1>5, <2>1, <2>2
<1>6. CASE s.node = "tool_execution"
    <2>1. Step(s) = Complete(RunTool(s))
        BY <1>6 DEF Step, ToolExecutor
    <2>2. RunTool(s) \in States(N)
        BY SetActed
    <2>3. QED BY <1>6, <2>1, <2>2, SetComplete
<1>7. QED BY <1>1, <1>2, <1>3, <1>4, <1>5, <1>6 DEF StepHandlers

\* The list of a definition has places, and its nodes are those of its graph; a
\* template names neither a router nor an approval.
LEMMA WalkOf ==
    ASSUME NEW d \in AllDefinitions, Graph[d].steps = TRUE
    PROVE  LET walk == HandledSteps(StepsOf(d)) IN
           /\ \E len \in Nat : DOMAIN walk = 1..len /\ Len(walk) = len
           /\ Graph[d].edge = [n \in Nodes(walk) |-> Following(walk, n)]
           /\ d.steps = <<>> => Nodes(walk) \cap {"router", "approval"} = {}
<1> DEFINE steps == StepsOf(d)
           walk == HandledSteps(steps)
<1>1. Graph[d] = Configurable(GraphName(d), steps)
    <2>1. Graph[d] = Resolve(d)
        BY Resolved
    <2>2. Make(GraphName(d)).steps = FALSE
        <3>1. Make(GraphName(d)) \in Named
            BY DEF Make, Named
        <3>2. QED BY <3>1, NamedClosed
    <2>3. QED BY <2>1, <2>2 DEF Resolve
<1>2. Graph[d].edge = [n \in Nodes(walk) |-> Following(walk, n)]
    BY <1>1 DEF Configurable
<1>3. CASE d.steps # <<>>
    <2>1. steps \in Seq(STRING)
        BY <1>3, StepsAreLists DEF AllDefinitions, StepsOf
    <2> DEFINE default == <<"planner", "router", "validator", "executor">>
    <2> HIDE DEF steps
    <2>2. walk \in {steps, default}
        BY DEF HandledSteps
    <2>a. DOMAIN default = 1..Len(default) /\ Len(default) \in Nat
        OBVIOUS
    <2>b. DOMAIN steps = 1..Len(steps) /\ Len(steps) \in Nat
        BY <2>1
    <2> HIDE DEF walk, default
    <2>3. DOMAIN walk = 1..Len(walk) /\ Len(walk) \in Nat
        BY <2>2, <2>a, <2>b
    <2> USE DEF steps
    <2>4. QED BY <1>2, <1>3, <2>3 DEF walk
<1>4. CASE d.steps = <<>>
    <2>1. /\ DOMAIN Templates = {"automation", "sales", "lead_generation", "support"}
          /\ Templates.automation = <<"planner", "routing", "validation">>
          /\ Templates.sales = <<"planner", "research", "validator", "executor">>
          /\ Templates.lead_generation =
                <<"planner", "research", "memory", "validator", "executor">>
          /\ Templates.support = <<"planner", "retriever", "validator", "executor">>
        BY DEF Templates
    <2>2. PICK t \in DOMAIN Templates : steps = Templates[t]
        BY <1>4, <2>1 DEF Template, StepsOf
    <2>3. /\ DOMAIN steps = 1..Len(steps) /\ Len(steps) \in Nat
          /\ 1 \in DOMAIN steps /\ steps[1] = "planner"
          /\ \A k \in DOMAIN steps : steps[k] \notin {"router", "approval"}
        <3>1. CASE t = "automation"
            <4>1. steps = <<"planner", "routing", "validation">>
                BY <2>1, <2>2, <3>1
            <4> HIDE DEF steps
            <4>2. DOMAIN steps = 1..3 /\ Len(steps) = 3
                BY <4>1
            <4>3. QED BY <4>1, <4>2
        <3>2. CASE t = "sales"
            <4>1. steps = <<"planner", "research", "validator", "executor">>
                BY <2>1, <2>2, <3>2
            <4> HIDE DEF steps
            <4>2. DOMAIN steps = 1..4 /\ Len(steps) = 4
                BY <4>1
            <4>3. QED BY <4>1, <4>2
        <3>3. CASE t = "lead_generation"
            <4>1. steps = <<"planner", "research", "memory", "validator", "executor">>
                BY <2>1, <2>2, <3>3
            <4> HIDE DEF steps
            <4>2. DOMAIN steps = 1..5 /\ Len(steps) = 5
                BY <4>1
            <4>3. QED BY <4>1, <4>2
        <3>4. CASE t = "support"
            <4>1. steps = <<"planner", "retriever", "validator", "executor">>
                BY <2>1, <2>2, <3>4
            <4> HIDE DEF steps
            <4>2. DOMAIN steps = 1..4 /\ Len(steps) = 4
                BY <4>1
            <4>3. QED BY <4>1, <4>2
        <3>5. QED BY <2>1, <3>1, <3>2, <3>3, <3>4
    <2> HIDE DEF steps
    <2>4. walk = steps
        BY <2>3 DEF HandledSteps, StepHandlers
    <2> HIDE DEF walk
    <2>5. DOMAIN walk = 1..Len(walk) /\ Len(walk) \in Nat
        BY <2>3, <2>4
    <2>6. Nodes(walk) \cap {"router", "approval"} = {}
        BY <2>3, <2>4 DEF Nodes, Places
    <2>7. QED BY <1>2, <2>5, <2>6 DEF walk, steps
<1>5. QED BY <1>3, <1>4

\* A turn that goes on leads to a higher rank.
LEMMA TurnsForward ==
    ASSUME NEW f, Sound(f), ~TurnRaises(GraphOf(f), f.def, f.state), ~MayLoop(f),
           Next_(Walked(f)) # None
    PROVE  Rank(f) < Rank(Onward(Walked(f)))
<1> DEFINE g == Walked(f)
           h == Onward(g)
           s == f.state
           t == g.state
           n == s.node
           m == Next_(g)
           d == f.def
<1>1. /\ s \in RunStates /\ d \in AllDefinitions /\ n \in DOMAIN GraphOf(f).edge
      /\ g \in FlowRecords /\ g.def = d /\ Turned(s, t)
      /\ \/ GraphOf(f).steps = FALSE /\ n \in NamedNodes /\ NamedTurned(s, t)
         \/ GraphOf(f).steps = TRUE
    BY WalkedTurn
<1>2. /\ GraphOf(g) = GraphOf(f) /\ m \in NodeNames \cup {None}
      /\ t.next # None => m = t.next
      /\ t.next = None /\ t.status \in {"paused", "failed", "completed"} => m = None
    BY WalkedNext
<1>3. h.def = d /\ GraphOf(h) = GraphOf(f) /\ h.state.node = m
    <2> HIDE DEF g
    <2>1. QED BY <1>1, <1>2, OnwardFields
<1>4. t.next = None => m = GraphOf(f).edge[n]
    <2>1. t.node = n
        BY <1>1 DEF Turned
    <2>2. m = NextNode(GraphOf(f), t)
        BY <1>2 DEF Next_
    <2> HIDE DEF g, m
    <2>3. m # None
        BY DEF m, g
    <2>4. QED BY <2>1, <2>2, <2>3 DEF NextNode
<1>5. CASE GraphOf(f).steps = FALSE
    <2> DEFINE rank == [planning |-> 1, routing |-> 2, approval |-> 3, retrieval |-> 3,
                        memory |-> 4, validation |-> 5, tool_execution |-> 6, fallback |-> 6]
    <2>1. Rank(f) = rank[n] /\ Rank(h) = rank[m]
        BY <1>3, <1>5 DEF Rank
    <2>2. NamedTurned(s, t) /\ n \in NamedNodes /\ m # None
        BY <1>1, <1>5
    <2>3. n = "tool_execution" => t.next = None /\ t.status = "completed"
        BY <1>1 DEF Turned
    <2> HIDE DEF g, h, s, t, n, m, rank
    <2>4. \/ n = "planning" /\ m = "routing"
          \/ n = "routing" /\ m \in {"approval", "tool_execution", "retrieval", "validation"}
          \/ n = "retrieval" /\ m = "memory"
          \/ n = "memory" /\ m = "validation"
          \/ n = "approval" /\ m = "validation"
          \/ n = "validation" /\ m \in {"fallback", "tool_execution"}
        BY <1>2, <2>2, <2>3, NoneIsNoNode DEF NamedTurned, NamedNodes, Targets, n
    <2>5. /\ rank["planning"] = 1 /\ rank["routing"] = 2 /\ rank["approval"] = 3
          /\ rank["retrieval"] = 3 /\ rank["memory"] = 4 /\ rank["validation"] = 5
          /\ rank["tool_execution"] = 6 /\ rank["fallback"] = 6
        BY DEF rank
    <2>6. rank[n] < rank[m]
        BY <2>4, <2>5
    <2>7. QED BY <2>1, <2>6 DEF h, g
<1>6. CASE GraphOf(f).steps = TRUE
    <2> DEFINE walk == HandledSteps(StepsOf(d))
               last(x) == LastPlace(walk, x)
    <2>1. Graph[d].steps = TRUE /\ Graph[d] = GraphOf(f)
        BY <1>6 DEF GraphOf
    <2>2. PICK len \in Nat : DOMAIN walk = 1..len /\ Len(walk) = len
        BY <1>1, <2>1, WalkOf
    <2>3. /\ GraphOf(f).edge = [x \in Nodes(walk) |-> Following(walk, x)]
          /\ d.steps = <<>> => Nodes(walk) \cap {"router", "approval"} = {}
        BY <1>1, <2>1, WalkOf
    <2>4. /\ Rank(f) = IF n \in Nodes(walk) \ {"executor", "tool_execution"}
                       THEN last(n) ELSE Len(walk) + 1
          /\ Rank(h) = IF m \in Nodes(walk) \ {"executor", "tool_execution"}
                       THEN last(m) ELSE Len(walk) + 1
        BY <1>3, <1>6 DEF Rank
    <2>5. n \in Nodes(walk) /\ Nodes(walk) \subseteq StepHandlers
        BY <1>1, <2>3 DEF Nodes, Places
    <2>6. StepRoutes(s, t)
        <3>1. t = Step(s) /\ s.next = None
            <4>1. g = [f EXCEPT !.state = Step(s)] /\ f \in FlowRecords
                BY <1>6 DEF Walked, Turn, Sound
            <4>2. f.state \in RunStates /\ f = [def |-> f.def, state |-> f.state]
                BY <1>1, <4>1, FlowState
            <4>3. QED BY <4>1, <4>2 DEF Sound
        <3> HIDE DEF t
        <3>2. QED BY <1>1, <2>5, <3>1, StepsRoute DEF RunStates
    <2>7. /\ s.input.approval \in BOOLEAN /\ s.input.research \in BOOLEAN
          /\ d.steps = <<>> \/ ~(s.input.approval \/ s.input.research)
        <3>1. s.input \in Payloads
            BY <1>1 DEF RunStates, States
        <3>2. s.input.approval \in BOOLEAN /\ s.input.research \in BOOLEAN
            BY <3>1 DEF Payloads
        <3>3. ~(d.steps # <<>> /\ (s.input.approval \/ s.input.research))
            BY DEF MayLoop
        <3>4. QED BY <3>2, <3>3
    <2>8. m # None
        OBVIOUS
    <2> HIDE DEF walk, g, h, s, t, n, m, d
    <2>9. n \notin {"executor", "tool_execution"}
        BY <1>2, <2>6, <2>8 DEF StepRoutes, n
    <2>10. last(n) \in 1..len
        BY <2>2, <2>5, LastPlaceIn DEF Places
    <2>11. CASE t.next = None
        <3>1. m = Following(walk, n)
            BY <1>4, <2>3, <2>5, <2>11
        <3>2. m \in Nodes(walk) /\ last(n) < last(m)
            BY <2>2, <2>5, <2>8, <3>1, FollowingIsLater
        <3>3. QED BY <2>2, <2>4, <2>5, <2>9, <2>10, <3>2 DEF h, g
    <2>12. CASE t.next # None
        <3>1. m \notin Nodes(walk) \ {"executor", "tool_execution"}
            <4>1. n \in {"validator", "approval", "router"}
                BY <2>5, <2>6, <2>9, <2>12 DEF StepRoutes, StepHandlers, n
            <4>2. m \in {"fallback", "validation", "executor", "tool_execution"}
                  \/ (m = "approval" /\ s.input.approval)
                  \/ (m = "research" /\ s.input.research /\ n = "router")
                BY <1>2, <2>6, <2>12, <4>1 DEF StepRoutes, n
            <4>3. CASE m \in {"fallback", "validation", "executor", "tool_execution"}
                BY <2>5, <4>3 DEF StepHandlers
            <4>4. CASE m = "approval" /\ s.input.approval
                BY <2>3, <2>7, <4>4
            <4>5. CASE m = "research" /\ s.input.research /\ n = "router"
                BY <2>3, <2>5, <2>7, <4>5
            <4>6. QED BY <4>2, <4>3, <4>4, <4>5
        <3>2. QED BY <2>2, <2>4, <2>5, <2>9, <2>10, <3>1 DEF h, g
    <2>13. QED BY <2>11, <2>12
<1>7. QED BY <1>1, <1>5, <1>6

\* A run whose input cannot send it back never comes back to a node, in a named
\* graph, in a template and in any list of steps; nor does the operator's.
THEOREM RunsForward == Spec => RunsGoForward
<1>1. ASSUME FlowsInv, Next, NEW e \in Executions, at[e] = "walk", at'[e] = "walk",
             flow'[e] # flow[e], ~MayLoop(flow[e])
      PROVE  Rank(flow[e]) < Rank(flow'[e])
    <2>1. /\ flow \in [Executions -> {NoFlow} \cup FlowRecords]
          /\ at \in [Executions -> Stages] /\ Sound(flow[e])
        <3>1. Attempts
            BY <1>1 DEF FlowsInv
        <3>2. RunOK(at[e], flow[e], tries[e], acts[e], jobs[e])
            BY <3>1 DEF Attempts
        <3>3. QED BY <1>1, <3>1, <3>2 DEF Attempts, RunOK
    <2>2. PICK x \in Executions : Submit(x) \/ Claim(x) \/ Walk(x)
        <3>1. CASE \E d \in Editors : UpdateConfig(d)
            BY <1>1, <3>1 DEF UpdateConfig, ReadDefinition, WriteDefinition
        <3>2. CASE OperatorNext
            BY <1>1, <3>2 DEF OperatorNext, Approve, SaveApproval, Resume, WalkOn
        <3>3. CASE \E x \in Executions : Submit(x) \/ Run(x) \/ WorkerDies(x)
            BY <1>1, <3>3 DEF Run, Raise, Truncate, Write, PublishTool, WorkerDies
        <3>4. QED BY <1>1, <3>1, <3>2, <3>3 DEF Next
    <2>3. x = e
        <3>1. CASE Submit(x)
            BY <1>1, <2>1, <3>1 DEF Submit
        <3>2. CASE Claim(x)
            BY <1>1, <2>1, <3>2 DEF Claim
        <3>3. CASE Walk(x)
            BY <1>1, <2>1, <3>3 DEF Walk
        <3>4. QED BY <2>2, <3>1, <3>2, <3>3
    <2>4. Walk(e)
        BY <1>1, <2>2, <2>3 DEF Submit, Claim
    <2> DEFINE f == flow[e]
               g == Walked(f)
    <2>5. /\ ~TurnRaises(GraphOf(f), f.def, f.state)
          /\ IF Next_(g) = None THEN Goto(e, "save") ELSE flow' = [flow EXCEPT ![e] = Onward(g)]
        BY <2>4 DEF Walk
    <2>6. Next_(g) # None /\ flow'[e] = Onward(g)
        <3> HIDE DEF g, f
        <3>1. QED BY <1>1, <2>1, <2>5 DEF Goto
    <2>7. Rank(f) < Rank(Onward(g))
        BY <1>1, <2>1, <2>5, <2>6, TurnsForward
    <2> HIDE DEF g
    <2>8. Rank(flow'[e]) = Rank(Onward(g))
        BY <2>6
    <2>9. QED BY <2>7, <2>8
<1>2. ASSUME FlowsInv, Next, operator.stage = "walk", operator'.stage = "walk",
             operator' # operator, ~MayLoop(operator.flow)
      PROVE  Rank(operator.flow) < Rank(operator'.flow)
    <2> DEFINE f == operator.flow
               g == Walked(f)
    <2>1. Sound(f) /\ operator = [stage |-> "walk", of |-> operator.of, flow |-> f]
        BY <1>2 DEF FlowsInv, Approving
    <2>2. WalkOn
        <3>1. CASE \E d \in Editors : UpdateConfig(d)
            BY <1>2, <3>1 DEF UpdateConfig, ReadDefinition, WriteDefinition, approving
        <3>2. CASE \E e \in Executions : Submit(e) \/ Run(e) \/ WorkerDies(e)
            BY <1>2, <3>2 DEF Submit, Run, Claim, Walk, Raise, Truncate, Write, PublishTool,
                WorkerDies, approving
        <3>3. CASE OperatorNext
            BY <1>2, <3>3 DEF OperatorNext, Approve, SaveApproval, Resume
        <3>4. QED BY <1>2, <3>1, <3>2, <3>3 DEF Next
    <2>3. /\ ~TurnRaises(GraphOf(f), f.def, f.state) /\ Next_(g) # None
          /\ operator' = [operator EXCEPT !.flow = Onward(g)]
        <3>1. CASE Stage("raised") \/ Stage("tool raised")
            BY <1>2, <2>1, <3>1 DEF Stage
        <3>2. CASE operator' = [operator EXCEPT !.stage = "done", !.flow = g]
            <4> HIDE DEF g, f
            <4>1. QED BY <1>2, <2>1, <3>2
        <3>3. CASE /\ ~TurnRaises(GraphOf(f), f.def, f.state) /\ Next_(g) # None
                   /\ operator' = [operator EXCEPT !.flow = Onward(g)]
            BY <3>3
        <3>4. QED BY <2>2, <3>1, <3>2, <3>3 DEF WalkOn
    <2>4. Rank(f) < Rank(Onward(g))
        BY <1>2, <2>1, <2>3, TurnsForward
    <2>5. operator'.flow = Onward(g)
        <3> HIDE DEF g, f
        <3>1. QED BY <2>1, <2>3
    <2> HIDE DEF g
    <2>6. QED BY <2>4, <2>5
<1>3. ASSUME FlowsInv, [Next]_vars
      PROVE  [ /\ \A e \in Executions :
                    at[e] = "walk" /\ at'[e] = "walk" /\ flow'[e] # flow[e] /\ ~MayLoop(flow[e]) =>
                        Rank(flow[e]) < Rank(flow'[e])
               /\ operator.stage = "walk" /\ operator'.stage = "walk"
                  /\ operator' # operator /\ ~MayLoop(operator.flow) =>
                        Rank(operator.flow) < Rank(operator'.flow) ]_vars
    <2>1. CASE Next
        BY <1>1, <1>2, <1>3, <2>1
    <2>2. QED BY <1>3, <2>1
<1>4. QED BY <1>3, FlowsInvariant, PTL DEF Spec, RunsGoForward

----------------------------------------------------------------------------
(* Updates of the definition *)

\* Some other update of the field is done, or some update that read too early.
Undone(d) ==
    \E f \in Editors \ {d} :
        editor[f].stage = "done" /\ (Edit[f].field = Edit[d].field \/ d \notin before[f])

\* What an editor read has lost no more updates than the definition had then.
ReadsKept ==
    /\ before \in [Editors -> SUBSET Editors]
    /\ \A w \in Editors : editor[w].stage = "read" =>
        \A d \in before[w] :
            /\ editor[d].stage = "done"
            /\ editor[w].read[Edit[d].field] # Edit[d].value => Undone(d)

\* An update that was undone stays so.
LEMMA UndoneStays ==
    ASSUME Edited, ReadsKept, NEW w \in Editors, UpdateConfig(w), NEW d \in Editors, Undone(d)
    PROVE  Undone(d)'
<1>1. PICK f \in Editors \ {d} :
        editor[f].stage = "done" /\ (Edit[f].field = Edit[d].field \/ d \notin before[f])
    BY DEF Undone
<1>2. f # w
    BY <1>1 DEF UpdateConfig, ReadDefinition, WriteDefinition
<1>3. editor'[f] = editor[f] /\ before'[f] = before[f]
    BY <1>2 DEF UpdateConfig, ReadDefinition, WriteDefinition, Edited, ReadsKept
<1>4. QED BY <1>1, <1>3 DEF Undone

\* An update is undone only by an editor of the same field, or by one that read
\* the definition before it was done: of update_workflow_config in engine.py, for
\* any number of editors.
THEOREM NoSequentialEditLost == Spec => []SequentialEditsKept
<1> DEFINE Inv == Edited /\ ReadsKept /\ SequentialEditsKept
<1>1. ASSUME Init PROVE Inv
    <2>1. Edited
        BY <1>1, DefinitionsAreRecords DEF Init, Edited
    <2>2. ReadsKept /\ SequentialEditsKept
        BY <1>1 DEF Init, ReadsKept, SequentialEditsKept
    <2>3. QED BY <2>1, <2>2
<1>2. ASSUME Inv, FlowsInv', NEW w \in Editors, UpdateConfig(w) PROVE Inv'
    <2>1. Edited'
        BY <1>2 DEF FlowsInv
    <2>2. \A d \in Editors : Undone(d) => Undone(d)'
        BY <1>2, UndoneStays
    <2>3. \A d \in Editors :
            editor[d].stage = "done" /\ definition[Edit[d].field] # Edit[d].value => Undone(d)
        BY <1>2 DEF SequentialEditsKept, Undone
    <2>4. CASE ReadDefinition(w)
        <3>1. /\ editor[w].stage = "new"
              /\ editor' = [editor EXCEPT ![w] = [stage |-> "read", read |-> definition]]
              /\ before' = [before EXCEPT ![w] = {f \in Editors : editor[f].stage = "done"}]
              /\ definition' = definition
            BY <2>4 DEF ReadDefinition
        <3>2. \A d \in Editors \ {w} : editor'[d] = editor[d] /\ before'[d] = before[d]
            BY <1>2, <3>1 DEF Edited, ReadsKept
        <3>3. /\ editor'[w].stage = "read" /\ editor'[w].read = definition
              /\ before'[w] = {f \in Editors : editor[f].stage = "done"}
            BY <1>2, <3>1 DEF Edited, ReadsKept
        <3>4. SequentialEditsKept'
            <4>1. \A d \in Editors :
                    editor'[d].stage = "done" /\ definition'[Edit[d].field] # Edit[d].value =>
                        Undone(d)'
                BY <2>2, <2>3, <3>1, <3>2, <3>3
            <4>2. QED BY <4>1 DEF SequentialEditsKept, Undone
        <3>5. ReadsKept'
            <4>1. before' \in [Editors -> SUBSET Editors]
                BY <1>2, <3>1 DEF ReadsKept
            <4>2. ASSUME NEW v \in Editors, editor'[v].stage = "read", NEW d \in before'[v]
                  PROVE  /\ editor'[d].stage = "done"
                         /\ editor'[v].read[Edit[d].field] # Edit[d].value => Undone(d)'
                <5>1. d \in Editors
                    BY <4>1, <4>2
                <5>2. CASE v = w
                    <6>1. editor[d].stage = "done" /\ d # w
                        BY <3>1, <3>3, <4>2, <5>2
                    <6>2. QED BY <2>2, <2>3, <3>2, <3>3, <5>1, <5>2, <6>1
                <5>3. CASE v # w
                    <6>1. editor[v].stage = "read" /\ d \in before[v]
                        BY <3>2, <4>2, <5>3
                    <6>2. /\ editor[d].stage = "done"
                          /\ editor[v].read[Edit[d].field] # Edit[d].value => Undone(d)
                        BY <1>2, <6>1 DEF ReadsKept
                    <6>3. d # w
                        BY <3>1, <6>2
                    <6>4. QED BY <2>2, <3>2, <5>1, <5>3, <6>2, <6>3
                <5>4. QED BY <5>2, <5>3
            <4>3. QED BY <4>1, <4>2 DEF ReadsKept
        <3>6. QED BY <2>1, <3>4, <3>5
    <2>5. CASE WriteDefinition(w)
        <3> DEFINE r == editor[w].read
        <3>1. /\ editor[w].stage = "read"
              /\ definition' = [r EXCEPT ![Edit[w].field] = Edit[w].value]
              /\ editor' = [editor EXCEPT ![w] = [stage |-> "done", read |-> None]]
              /\ before' = before
            BY <2>5 DEF WriteDefinition
        <3>2. \A d \in Editors \ {w} : editor'[d] = editor[d]
            BY <1>2, <3>1 DEF Edited
        <3>3. editor'[w].stage = "done"
            BY <1>2, <3>1 DEF Edited
        <3>4. r \in AllDefinitions
            BY <1>2, <3>1 DEF Edited
        <3>5. \A d \in Editors : Edit[d].field \in DOMAIN r
            BY <3>4, EditsAreFields DEF AllDefinitions
        <3> HIDE DEF r
        <3>6. \A d \in Editors : definition'[Edit[d].field] =
                    (IF Edit[d].field = Edit[w].field THEN Edit[w].value ELSE r[Edit[d].field])
            BY <3>1, <3>5
        <3>7. SequentialEditsKept'
            <4>1. ASSUME NEW d \in Editors, editor'[d].stage = "done",
                         definition'[Edit[d].field] # Edit[d].value
                  PROVE  Undone(d)'
                <5>1. d # w
                    BY <3>6, <4>1
                <5>2. editor[d].stage = "done"
                    BY <3>2, <4>1, <5>1
                <5>3. CASE Edit[d].field = Edit[w].field \/ d \notin before[w]
                    BY <3>1, <3>3, <5>1, <5>3 DEF Undone
                <5>4. CASE Edit[d].field # Edit[w].field /\ d \in before[w]
                    <6>1. r[Edit[d].field] # Edit[d].value
                        BY <3>6, <4>1, <5>4
                    <6>2. Undone(d)
                        BY <1>2, <3>1, <5>4, <6>1 DEF ReadsKept, r
                    <6>3. QED BY <2>2, <6>2
                <5>5. QED BY <5>3, <5>4
            <4>2. QED BY <4>1 DEF SequentialEditsKept, Undone
        <3>8. ReadsKept'
            <4>1. ASSUME NEW v \in Editors, editor'[v].stage = "read", NEW d \in before'[v]
                  PROVE  /\ editor'[d].stage = "done"
                         /\ editor'[v].read[Edit[d].field] # Edit[d].value => Undone(d)'
                <5>1. v # w
                    BY <3>3, <4>1
                <5>2. editor[v].stage = "read" /\ d \in before[v] /\ editor'[v] = editor[v]
                    BY <3>1, <3>2, <4>1, <5>1
                <5>3. /\ editor[d].stage = "done" /\ d \in Editors
                      /\ editor[v].read[Edit[d].field] # Edit[d].value => Undone(d)
                    BY <1>2, <5>2 DEF ReadsKept
                <5>4. editor'[d].stage = "done"
                    BY <3>2, <3>3, <5>3
                <5>5. QED BY <2>2, <5>2, <5>3, <5>4
            <4>2. QED BY <1>2, <3>1, <4>1 DEF ReadsKept
        <3>9. QED BY <2>1, <3>7, <3>8
    <2>6. QED BY <1>2, <2>4, <2>5 DEF UpdateConfig
<1>3. ASSUME Inv, UNCHANGED editing PROVE Inv'
    BY <1>3 DEF editing, Edited, ReadsKept, SequentialEditsKept, Undone
<1>4. ASSUME Inv, FlowsInv', [Next]_vars PROVE Inv'
    <2>1. CASE \E w \in Editors : UpdateConfig(w)
        BY <1>2, <1>4, <2>1
    <2>2. CASE \E e \in Executions : Submit(e) \/ Run(e) \/ WorkerDies(e)
        <3>1. UNCHANGED editing
            BY <2>2 DEF Submit, Run, Claim, Walk, Raise, Truncate, Write, PublishTool, WorkerDies
        <3>2. QED BY <1>3, <1>4, <3>1
    <2>3. CASE OperatorNext
        <3>1. UNCHANGED editing
            BY <2>3 DEF OperatorNext, Approve, SaveApproval, Resume, WalkOn
        <3>2. QED BY <1>3, <1>4, <3>1
    <2>4. CASE UNCHANGED vars
        BY <1>3, <1>4, <2>4 DEF vars
    <2>5. QED BY <1>4, <2>1, <2>2, <2>3, <2>4 DEF Next
<1>5. Inv => SequentialEditsKept
    OBVIOUS
<1> HIDE DEF Inv
<1>6. QED BY <1>1, <1>4, <1>5, FlowsInvariant, PTL DEF Spec

=============================================================================
