-------------------------- MODULE MCHarnessGateway --------------------------
(* An instance of HarnessGateway for TLC: one conversation that grows, is
   continued or is told differently. *)
EXTENDS HarnessGateway

CONSTANTS u, v, a

Conversation == {<<u>>, <<u, a, v>>}
TurnEvents   == {"item/tool/call", "completed", "interrupted", "failed"}
=============================================================================
