--------------------------- MODULE MCAgentRuntime ---------------------------
(* Instances of AgentRuntime for TLC. *)
EXTENDS AgentRuntime

CONSTANTS s1, e1, e2

OneSession == {s1}
OneEvent   == {e1}
TwoEvents  == {e1, e2}
=============================================================================
