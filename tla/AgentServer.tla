---------------------------- MODULE AgentServer ----------------------------
(***************************************************************************)
(* The process lifecycle of agent_server/internal/server: NewServer puts   *)
(* the background tasks on an EventLoop, Start runs the loop and the HTTP  *)
(* server, and one shutdown, whoever begins it, stops both and then closes *)
(* the resources (the AgentRuntime) they use.  The loop is module          *)
(* EventLoop, step for step; only the Server calls it.                     *)
(*                                                                         *)
(* net/http is external: it accepts requests while the listener is open    *)
(* and its Shutdown returns when no request is being handled.              *)
(***************************************************************************)
EXTENDS EventLoop, Sequences

CONSTANTS TaskLists,    \* lists of background tasks a caller may pass, by name
          NumResources, \* len(s.resources)
          MaxRequests   \* bound on the requests handled at a time

ASSUME AgentServerAssumption ==
    /\ TaskLists \subseteq Seq(Names)
    /\ NumResources \in Nat /\ MaxRequests \in Nat
    /\ -1 \in Counts    \* background tasks are resident

VARIABLES
    tasks,      \* the tasks NewServer was called with
    phase,      \* NewServer: "registering", "rollback", "failed", "ready"
    registered, \* number of tasks it has registered
    starting,   \* Start holds s.mu and waits for the loop
    started, stopping,  \* s.started, s.stopping
    serving,    \* http.Serve has not returned
    listening,  \* the listener is open
    requests,   \* requests being handled
    shutdown,   \* shutdownOnce and finishShutdown: "none", "begun", "stopping", "done"
    httpDown, loopAsked, loopDown,  \* its two goroutines
    closed      \* resources closed so far

newVars      == <<tasks, phase, registered>>
startVars    == <<starting, started, serving>>
shutdownVars == <<shutdown, httpDown, loopAsked, loopDown, closed>>
serverVars   == <<newVars, startVars, shutdownVars, stopping, listening, requests>>
allVars      == <<vars, serverVars>>

ServerInit ==
    /\ Init
    /\ tasks \in TaskLists
    /\ phase = "registering" /\ registered = 0
    /\ starting = FALSE /\ started = FALSE /\ stopping = FALSE
    /\ serving = FALSE /\ listening = FALSE /\ requests = 0
    /\ shutdown = "none" /\ httpDown = FALSE /\ loopAsked = FALSE /\ loopDown = FALSE
    /\ closed = 0

-----------------------------------------------------------------------------
(* NewServer *)

RegisterTask ==
    /\ phase = "registering" /\ registered < Len(tasks)
    /\ RegisterEvent(tasks[registered + 1], -1)
    /\ registered' = registered + 1
    /\ UNCHANGED <<tasks, phase, startVars, shutdownVars, stopping, listening, requests>>

\* RegisterEvent refuses the next task.
RegisterTaskFails ==
    /\ phase = "registering" /\ registered < Len(tasks)
    /\ events[tasks[registered + 1]] # None
    /\ phase' = "rollback"
    /\ UNCHANGED <<vars, tasks, registered, startVars, shutdownVars, stopping, listening, requests>>

\* Registered tasks are deleted in the order in which they were registered.
Rollback ==
    /\ phase = "rollback"
    /\ \E i \in 1..registered :
         /\ DelEvent(tasks[i])
         /\ \A j \in 1..(i - 1) : events[tasks[j]] = None
    /\ UNCHANGED serverVars

\* Mutant: the first registered task is taken for the last.
RollbackDoneEarly ==
    /\ phase = "rollback"
    /\ events[tasks[1]] = None
    /\ phase' = "failed"
    /\ UNCHANGED <<vars, tasks, registered, startVars, shutdownVars, stopping, listening, requests>>

RollbackDone ==
    /\ phase = "rollback"
    /\ \A i \in 1..registered : events[tasks[i]] = None
    /\ phase' = "failed"
    /\ UNCHANGED <<vars, tasks, registered, startVars, shutdownVars, stopping, listening, requests>>

ServerReady ==
    /\ phase = "registering" /\ registered = Len(tasks)
    /\ phase' = "ready"
    /\ UNCHANGED <<vars, tasks, registered, startVars, shutdownVars, stopping, listening, requests>>

-----------------------------------------------------------------------------
(* Start *)

\* Start takes s.mu, and keeps it while loop.Start waits for ready.
StartLoop ==
    /\ phase = "ready" /\ ~stopping /\ ~started /\ ~starting
    /\ Start
    /\ starting' = TRUE
    /\ UNCHANGED <<newVars, started, serving, shutdownVars, stopping, listening, requests>>

StartServing ==
    /\ starting /\ ready = starts
    /\ starting' = FALSE /\ started' = TRUE
    /\ serving' = TRUE /\ listening' = TRUE
    /\ UNCHANGED <<vars, newVars, shutdownVars, stopping, requests>>

-----------------------------------------------------------------------------
(* net/http, external *)

Request ==
    /\ listening /\ serving /\ requests < MaxRequests
    /\ requests' = requests + 1
    /\ UNCHANGED <<vars, newVars, startVars, shutdownVars, stopping, listening>>

RequestEnds ==
    /\ requests > 0
    /\ requests' = requests - 1
    /\ UNCHANGED <<vars, newVars, startVars, shutdownVars, stopping, listening>>

\* Serve returns: an error of the listener, or the shutdown.
ServeReturns ==
    /\ serving
    /\ serving' = FALSE
    /\ UNCHANGED <<vars, newVars, starting, started, shutdownVars, stopping, listening, requests>>

-----------------------------------------------------------------------------
(* Shutdown *)

\* shutdownOnce: the first caller needs s.mu to set stopping.
BeginShutdown ==
    /\ phase = "ready" /\ shutdown = "none" /\ ~starting
    /\ stopping' = TRUE
    /\ shutdown' = "begun"
    /\ UNCHANGED <<vars, newVars, startVars, httpDown, loopAsked, loopDown, closed,
                   listening, requests>>

\* Mutant: the test of stopping is the wrong way round.
ServeFailureWhenStopping == started /\ ~serving /\ stopping /\ BeginShutdown

\* The listener failed: the serving goroutine begins the shutdown itself.
ServeFailureShutsDown == started /\ ~serving /\ BeginShutdown

\* The listener is closed and the resources are told to quiesce.
CloseListener ==
    /\ shutdown = "begun"
    /\ listening' = FALSE
    /\ shutdown' = "stopping"
    /\ UNCHANGED <<vars, newVars, startVars, httpDown, loopAsked, loopDown, closed, stopping,
                   requests>>

HTTPShutdown ==
    /\ shutdown = "stopping" /\ ~httpDown
    /\ requests = 0
    /\ httpDown' = TRUE
    /\ UNCHANGED <<vars, newVars, startVars, shutdown, loopAsked, loopDown, closed, stopping,
                   listening, requests>>

StopLoop ==
    /\ shutdown = "stopping" /\ ~loopAsked
    /\ Stop
    /\ loopAsked' = TRUE
    /\ UNCHANGED <<newVars, startVars, shutdown, httpDown, loopDown, closed, stopping,
                   listening, requests>>

\* Mutant: the answer of Stop is not waited for.
LoopStoppedAtOnce ==
    /\ loopAsked /\ ~loopDown
    /\ loopDown' = TRUE
    /\ UNCHANGED <<vars, newVars, startVars, shutdown, httpDown, loopAsked, closed, stopping,
                   listening, requests>>

LoopStopped ==
    /\ loopAsked /\ ~loopDown
    /\ state = "stopped"
    /\ loopDown' = TRUE
    /\ UNCHANGED <<vars, newVars, startVars, shutdown, httpDown, loopAsked, closed, stopping,
                   listening, requests>>

CloseResource ==
    /\ shutdown = "stopping" /\ httpDown /\ loopDown
    /\ closed < NumResources
    /\ closed' = closed + 1
    /\ UNCHANGED <<vars, newVars, startVars, shutdown, httpDown, loopAsked, loopDown, stopping,
                   listening, requests>>

ShutdownDone ==
    /\ shutdown = "stopping" /\ httpDown /\ loopDown
    /\ closed = NumResources
    /\ shutdown' = "done"
    /\ UNCHANGED <<vars, newVars, startVars, httpDown, loopAsked, loopDown, closed, stopping,
                   listening, requests>>

-----------------------------------------------------------------------------
NewServer == RegisterTask \/ RegisterTaskFails \/ Rollback \/ RollbackDone \/ ServerReady

FinishShutdown == CloseListener \/ HTTPShutdown \/ StopLoop \/ LoopStopped \/ CloseResource
                  \/ ShutdownDone

\* The steps of the loop's own goroutines.
LoopStep ==
    /\ \/ CallerSignalsWake
       \/ SchedulerStep
       \/ HourPasses
       \/ \E o \in Objects : Tick(o) \/ TaskReturns(o) \/ WorkerSignalsWake(o)
    /\ UNCHANGED serverVars

ServerNext ==
    \/ NewServer
    \/ StartLoop
    \/ StartServing
    \/ Request
    \/ RequestEnds
    \/ ServeReturns
    \/ BeginShutdown
    \/ FinishShutdown
    \/ LoopStep

ServerSpec == ServerInit /\ [][ServerNext]_allVars

\* Goroutines get to run, time passes, callbacks and requests watch their context
\* or have timeouts of their own.  The hour is nothing to rely on.
ServerFairness ==
    /\ WF_allVars(CallerSignalsWake /\ UNCHANGED serverVars)
    /\ WF_allVars(SchedulerStep /\ UNCHANGED serverVars)
    /\ \A o \in Objects :
         /\ WF_allVars(Tick(o) /\ UNCHANGED serverVars)
         /\ WF_allVars(TaskReturns(o) /\ UNCHANGED serverVars)
         /\ WF_allVars(WorkerSignalsWake(o) /\ UNCHANGED serverVars)
    /\ WF_allVars(RequestEnds)
    /\ WF_allVars(NewServer) /\ WF_allVars(StartServing)
    /\ WF_allVars(ServeFailureShutsDown) /\ WF_allVars(FinishShutdown)

-----------------------------------------------------------------------------
(* Properties. *)

\* spec.md 2.2: no resource is closed before every request and every callback
\* that may use it has ended, also when Shutdown gave up waiting; and the loop
\* cannot be started again behind the closed resources.
ResourcesOutliveTheirUsers ==
    closed > 0 =>
        /\ requests = 0 /\ ~listening
        /\ state = "stopped" /\ \A o \in Objects : active[o] = 0

\* spec.md 2.2: when a task cannot be registered, NewServer fails and leaves no
\* task on the loop.
FailedServerLeavesNoTask == phase = "failed" => Registered = {}

\* What a Server takes it gives back, and not too early.
ServerIsSound == ResourcesOutliveTheirUsers /\ FailedServerLeavesNoTask

\* A shutdown that has begun ends with every resource closed, and a Server
\* whose listener has failed begins one by itself.
ShutdownCompletes ==
    stopping \/ (started /\ ~serving) ~> shutdown = "done" /\ closed = NumResources
=============================================================================
