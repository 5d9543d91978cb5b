----------------------------- MODULE MCLLMCalls -----------------------------
(* A small instance of LLMCalls for TLC. *)
EXTENDS LLMCalls

CONSTANTS c1, c2, c3

ThreeCalls == {c1, c2, c3}
TwoKeys == {"", "execution"}
\* Two calls of one execution and one without; preferences of the middle of
\* the order, of none, and of a name nobody knows.
SomeKeys == [c \in ThreeCalls |-> IF c = c3 THEN "" ELSE "execution"]
SomePreferred == [c \in ThreeCalls |->
    CASE c = c1 -> "grok" [] c = c2 -> "anthropic" [] OTHER -> "other"]

Default == [explicit |-> FALSE, known |-> Provider, configured |-> {"openai", "gemini"},
            testMode |-> FALSE, shared |-> TRUE]
SomeSetups == {
    Default,
    [Default EXCEPT !.configured = {}],
    [Default EXCEPT !.explicit = TRUE, !.known = {"anthropic", "gemini"}, !.configured = {"gemini"},
                    !.shared = FALSE, !.testMode = TRUE]}
=============================================================================
