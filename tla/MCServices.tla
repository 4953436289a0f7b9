----------------------------- MODULE MCServices -----------------------------
(***************************************************************************)
(* Six services that do not share state, checked side by side: the first   *)
(* state chooses which of them runs, the others stay in their initial      *)
(* states.  Only the market runtime is given fairness.                     *)
(***************************************************************************)
EXTENDS MarketRuntime, RunHistory, MessageStreams, ChatWake, LoginSessions, EventSamples

VARIABLE part

Parts == {"market", "history", "streams", "chat", "logins", "samples"}

ServicesInit ==
    /\ part \in Parts
    /\ MarketInit /\ HistoryInit /\ LoginInit /\ SamplesInit
    /\ BoardInit /\ StreamsInit /\ ChatInit

MarketPart ==
    /\ part = "market" /\ MarketNext
    /\ UNCHANGED <<historyVars, boardVars, streamVars, chatVars, loginVars, sampleVars>>

HistoryPart ==
    /\ part = "history" /\ HistoryNext
    /\ UNCHANGED <<marketVars, boardVars, streamVars, chatVars, loginVars, sampleVars>>

StreamsPart ==
    /\ part = "streams" /\ StreamsNext
    /\ UNCHANGED <<marketVars, historyVars, chatVars, loginVars, sampleVars>>

ChatPart ==
    /\ part = "chat" /\ ChatNext
    /\ UNCHANGED <<marketVars, historyVars, streamVars, loginVars, sampleVars>>

LoginsPart ==
    /\ part = "logins" /\ LoginNext
    /\ UNCHANGED <<marketVars, historyVars, boardVars, streamVars, chatVars, sampleVars>>

SamplesPart ==
    /\ part = "samples" /\ SamplesNext
    /\ UNCHANGED <<marketVars, historyVars, boardVars, streamVars, chatVars, loginVars>>

ServicesNext ==
    /\ MarketPart \/ HistoryPart \/ StreamsPart \/ ChatPart \/ LoginsPart \/ SamplesPart
    /\ UNCHANGED part

vars == <<part, marketVars, historyVars, boardVars, streamVars, chatVars, loginVars, sampleVars>>

ServicesSpec ==
    /\ ServicesInit
    /\ [][ServicesNext]_vars
    /\ MarketFairness

-----------------------------------------------------------------------------
(* What TLC need not explore *)

\* Nothing is claimed of a page behind an excuse: its streams are not followed.
NoExcuse == excused = {}

\* Browsers are interchangeable, and so are the slots for requests: one of the
\* browsers starts the first login, and a slot is used when it is the first one or
\* the first one is taken.
FirstClient == CHOOSE b \in Clients : TRUE
FirstHandler == CHOOSE h \in Handlers : TRUE

FirstLoginIsTheFirstClients == startedBy = <<>> \/ startedBy[1] = FirstClient

SlotsInOrder ==
    \A h \in Handlers \ {FirstHandler} :
        handler[h] = Idle /\ handler'[h] # Idle => handler[FirstHandler] # Idle
=============================================================================
