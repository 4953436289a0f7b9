--------------------------- MODULE HarnessGateway ---------------------------
(***************************************************************************)
(* The two CLI harnesses behind the LLM gateway: trackRequests admits a    *)
(* request and cancels it at shutdown, dispatchGenerate hands it to Claude *)
(* Code or to Codex, releaseClaudeSession retires the sessions of a        *)
(* conversation, and Close stops both harnesses when the last request has  *)
(* left.  ClaudeSessions and CodexAppServer are composed step for step.    *)
(*                                                                         *)
(* The two keep no state in common, so a behaviour has requests for one of *)
(* them: `type' is the type of the provider that is asked.                 *)
(***************************************************************************)
EXTENDS ClaudeSessions, CodexAppServer

VARIABLES
    type,   \* provider.Type
    phase   \* "open", "stopping" (s.stopping), "waited", "sessions", "codex", "closed"

gatewayVars == <<type, phase>>
harnessVars == <<claudeVars, codexVars, gatewayVars>>

HarnessInit ==
    /\ ClaudeInit
    /\ CodexInit
    /\ type \in {"claude_code", "codex"}
    /\ phase = "open"

\* trackRequests: refused once s.stopping is set.
Admit ==
    /\ phase = "open"
    /\ \/ /\ type = "claude_code"
          /\ \E c \in Callers, k \in Keys, r \in Requests :
               \E n \in Continuations(r) : CallClaude(c, k, r, n)
          /\ UNCHANGED <<codexVars, gatewayVars>>
       \/ /\ type = "codex"
          /\ \E c \in Clients, k \in Credentials : CallCodex(c, k)
          /\ UNCHANGED <<claudeVars, gatewayVars>>

\* releaseClaudeSession is a request of its own; it removes the directories
\* before it answers.
ReleaseClaudeSession ==
    /\ phase = "open"
    /\ \E K \in SUBSET Keys : RemoveConversation(K)
    /\ UNCHANGED <<codexVars, gatewayVars>>

-----------------------------------------------------------------------------
(* Close *)

Requested == \/ \E c \in Callers : ~At(c, "idle")
             \/ \E c \in Clients : ~Doing(c, "idle")
             \/ doomed # {}

BeginShutdown ==
    /\ phase = "open"
    /\ phase' = "stopping"
    /\ UNCHANGED <<claudeVars, codexVars, type>>

\* Mutant: requests are not waited for.
WaitForNothing ==
    /\ phase = "stopping"
    /\ phase' = "waited"
    /\ UNCHANGED <<claudeVars, codexVars, type>>

WaitForRequests ==
    /\ phase = "stopping"
    /\ ~Requested
    /\ phase' = "waited"
    /\ UNCHANGED <<claudeVars, codexVars, type>>

\* claudeSessions.Stop
StopSessions ==
    /\ phase = "waited"
    /\ \/ /\ StopCollector
          /\ UNCHANGED phase
       \/ /\ ~collecting /\ doomed = {}
          /\ RemoveAll
          /\ phase' = "sessions"
    /\ UNCHANGED <<codexVars, type>>

\* codex.Close, when every directory has been removed, and the end of the process
CloseCodex ==
    \/ /\ phase = "sessions" /\ doomed = {}
       /\ phase' = "codex"
       /\ CancelBase
       /\ UNCHANGED <<claudeVars, type>>
    \/ /\ phase = "codex"
       /\ TakeProcesses
       /\ UNCHANGED <<claudeVars, gatewayVars>>
    \/ /\ phase = "codex"
       /\ CodexClosed
       /\ phase' = "closed"
       /\ UNCHANGED <<claudeVars, type>>

Close == WaitForRequests \/ StopSessions \/ CloseCodex

-----------------------------------------------------------------------------
HarnessNext ==
    \/ Admit
    \/ ReleaseClaudeSession
    \/ ClaudeStep /\ UNCHANGED <<codexVars, gatewayVars>>
    \/ CodexStep /\ UNCHANGED <<claudeVars, gatewayVars>>
    \/ BeginShutdown
    \/ Close

HarnessSpec == HarnessInit /\ [][HarnessNext]_harnessVars

\* Goroutines run and a stopped process exits.  Nothing is assumed of the CLIs.  Their
\* answers are waited for no longer than providerTimeout (that a wait for a gate ends
\* is not put down to it); but what is written to an app-server that does not read is
\* waited for without end, so no step is asked of a request that such a process holds.
FairHarnessSpec ==
    /\ HarnessSpec
    /\ \A c \in Callers :
         WF_harnessVars(CallStep(c) /\ UNCHANGED <<codexVars, gatewayVars>>)
    /\ WF_harnessVars((\E s \in Sids : RemoveDirectory(s)) /\ UNCHANGED <<codexVars, gatewayVars>>)
    /\ \A c \in Clients :
         WF_harnessVars((LockStep(c) \/ (Heard(c) /\ ClientStep(c)))
                        /\ UNCHANGED <<claudeVars, gatewayVars>>)
    /\ \A p \in Pids :
         WF_harnessVars((ProcessKilled(p) \/ RemoveHome(p)) /\ UNCHANGED <<claudeVars, gatewayVars>>)
    /\ WF_harnessVars(Close)

-----------------------------------------------------------------------------
(* Properties. *)

\* gateway.go Close: when it returns no session directory is left and no
\* app-server of the pool runs or has its home, and nothing was closed under a
\* request.
CloseLeavesNothing ==
    /\ phase \notin {"open", "stopping"} => ~\E c \in Callers : ~At(c, "idle")
    /\ phase \notin {"open", "stopping"} => ~\E c \in Clients : ~Doing(c, "idle")
    /\ phase = "closed" => /\ \A s \in Sids : ~session[s].directory
                           /\ \A p \in waitFor : process[p].life = "gone"

\* What the harnesses start, they also end: during the service and at its close.
NothingIsLeftBehind == ProcessesAreAccountedFor /\ CloseLeavesNothing

\* An app-server holds its requests: it runs, somebody uses or starts it, and it reads
\* nothing of what is written to it.
Holds(p) == /\ process[p].life = "up" /\ process[p].deaf
            /\ Users(p) # {} \/ Starting(p)

\* A shutdown that has begun ends, so every request that was admitted has ended:
\* nobody waits for ever for a gate, for c.mu or for a process, and a caller
\* whose session was replaced does not look for another for ever.  The one thing that
\* may keep it is an app-server that from some time on holds a request for ever:
\* codexProcess.write has no deadline, and Close stops the pool only after the requests.
ShutdownEnds ==
    ([]<>~\E p \in Pids : Holds(p)) => (phase = "stopping" ~> phase = "closed")
=============================================================================
