---------------------------- MODULE MCToolCalls ----------------------------
(* A small instance of ToolCalls for TLC. *)
EXTENDS ToolCalls

CONSTANTS c1, c2, c3, s1

ThreeCalls == {c1, c2, c3}
OneSetter == {s1}
\* One call inline or in a child process, one in a container, one in a child
\* process.  (An async call takes the steps of an inline one that ends in time.)
SomeModes == [c \in ThreeCalls |->
    CASE c = c1 -> {"inline", "process"} [] c = c2 -> {"container"} [] OTHER -> {"process"}]
\* The store may raise to one call and to the setter.
OneOfEach == {c1, s1}
SetBoth == [s \in OneSetter |-> [limit |-> 1, cpuLimit |-> 2]]
=============================================================================
