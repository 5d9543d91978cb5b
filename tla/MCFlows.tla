------------------------------ MODULE MCFlows ------------------------------
(* Small instances of Flows for TLC. *)
EXTENDS Flows

CONSTANTS e1, e2, d1, d2

TwoExecutions == {e1, e2}
TwoEditors == {d1, d2}
Def(graph, type, steps) == [graph |-> graph, type |-> type, steps |-> steps]
\* Two named graphs, and steps that loop; an edit brings in a template.
SomeDefinitions ==
    {Def("customer_support", "automation", <<>>),
     Def("lead_generation", "automation", <<>>),
     Def(None, "sales", <<"validator", "approval", "executor">>)}
\* One editor changes the graph, the other drops or sets the steps.
TwoEdits == [d \in TwoEditors |->
    IF d = d1 THEN [field |-> "graph", value |-> "sales"]
    ELSE [field |-> "steps", value |-> <<"retriever", "validator", "retriever", "executor">>]]
SomeInputs == [e \in TwoExecutions |->
    IF e = e2 THEN {Input(FALSE, "none", FALSE)}
    ELSE {Text, Input(FALSE, "name", TRUE), Input(TRUE, "request", FALSE),
          [Input(TRUE, "request", FALSE) EXCEPT !.approved = TRUE]}]
=============================================================================
