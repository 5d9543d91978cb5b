------------------------------ MODULE MCAlerts ------------------------------
(* A small instance of Alerts for TLC. *)
EXTENDS Alerts

CONSTANTS b1, b2, r1, r2

TwoBurials == {b1, b2}
OneName == [b \in TwoBurials |-> "run_workflow"]
TwoRequests == {r1, r2}
TwoChannels == <<"slack", "email">>
=============================================================================
