--------------------------- MODULE MCAgentServer ---------------------------
(***************************************************************************)
(* An instance of AgentServer for TLC.  In some behaviours a Server owns   *)
(* the loop, with two tasks or with a list that repeats a name; in the     *)
(* others (phase "none") there is no Server, and callers register, start,  *)
(* stop and delete as they like.                                           *)
(***************************************************************************)
EXTENDS AgentServer

CONSTANTS n1, n2

TwoNames   == {n1, n2}
SomeCounts == {-1, 1}
SomeLists  == {<<n1, n2>>, <<n1, n2, n1>>}

BareLoopInit ==
    /\ Init
    /\ tasks = <<>> /\ phase = "none" /\ registered = 0
    /\ starting = FALSE /\ started = FALSE /\ stopping = FALSE
    /\ serving = FALSE /\ listening = FALSE /\ requests = 0
    /\ shutdown = "none" /\ httpDown = FALSE /\ loopAsked = FALSE /\ loopDown = FALSE
    /\ closed = 0

BareLoopNext == phase = "none" /\ CallerStep /\ UNCHANGED serverVars

ProcessSpec ==
    /\ ServerInit \/ BareLoopInit
    /\ [][ServerNext \/ BareLoopNext]_allVars
    /\ ServerFairness
=============================================================================
