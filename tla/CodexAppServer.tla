--------------------------- MODULE CodexAppServer ---------------------------
(***************************************************************************)
(* The pool of Codex processes of webharness/codex_app_server.go: one      *)
(* `codex app-server' per credential, each request on a thread of its own, *)
(* and the turn collect reads until it completes.                          *)
(*                                                                         *)
(* c.mu is held while a process is started and shakes hands, and by every  *)
(* other operation on the pool for the length of one action.  The          *)
(* app-server is external: it may answer, err, stay silent until the idle  *)
(* timeout, say too much in one line, stop reading its input, or die at    *)
(* any time.  Text deltas and the alive channel only postpone the timeout  *)
(* and are left out.                                                       *)
(***************************************************************************)
EXTENDS Integers, Sequences, FiniteSets

CONSTANTS Clients,      \* requests that may be handled at a time
          Credentials,  \* keys of the pool
          MaxProcesses, \* bound on the processes that are there at a time
          EventCap,     \* capacity of codexThread.events
          Notifications, \* what the app-server may say of a turn
          MaxCalls      \* bound on the tool calls of a turn

\* The notifications that decide; turn/completed comes with a status.
Terminal == {"completed", "interrupted", "failed"}
Events == {"item/tool/call", "item/completed", "thread/tokenUsage/updated", "error"} \union Terminal

ASSUME CodexAssumption ==
    /\ Notifications \subseteq Events
    /\ MaxProcesses \in Nat /\ MaxCalls \in Nat
    /\ EventCap \in Nat \ {0}

VARIABLES
    processes,  \* c.processes: credential -> process, 0 if none
    process,    \* the codexProcess objects
    mutex,      \* the client that holds c.mu across actions, if any
    clients,    \* the callers of Complete
    base,       \* c.ctx: "live", "canceled" (Close begun), "taken" (the map emptied), "closed"
    waitFor     \* the processes Close waits for

codexVars == <<processes, process, mutex, clients, base, waitFor>>

Pids == 1..MaxProcesses

\* life: "none", "up", "dead" (it has exited), "gone" (home removed, p.exited closed).
\* failed: p.failure is set.  deaf: its stdin is full and it reads no more of it.
NoProcess == [life |-> "none", stopped |-> FALSE, failed |-> FALSE, deaf |-> FALSE, active |-> 0]

\* events to answered belong to collect; made and over are the turn as the
\* app-server knows it, its tool calls and whether it has ended.
Off == [pc |-> "idle", credential |-> CHOOSE k \in Credentials : TRUE, process |-> 0,
        events |-> <<>>, calls |-> 0, content |-> FALSE, fatal |-> FALSE, answered |-> FALSE,
        made |-> 0, over |-> FALSE]

CodexInit ==
    /\ processes = [k \in Credentials |-> 0]
    /\ process = [p \in Pids |-> NoProcess]
    /\ mutex = {}
    /\ clients = [c \in Clients |-> Off]
    /\ base = "live"
    /\ waitFor = {}

Doing(c, p) == clients[c].pc = p
ProcessOf(c) == process[clients[c].process]
Pooled(p) == \E k \in Credentials : processes[k] = p

\* Processes that can be started: nobody refers to them.
Unborn == {p \in Pids : process[p].life \in {"none", "gone"} /\ process[p].active = 0 /\ ~Pooled(p)
                        /\ \A c \in Clients : clients[c].process # p}

-----------------------------------------------------------------------------
(* acquire, startCodexProcess, release *)

CallCodex(c, k) ==
    /\ Doing(c, "idle")
    /\ clients' = [clients EXCEPT ![c] = [Off EXCEPT !.pc = "acquire", !.credential = k]]
    /\ UNCHANGED <<processes, process, mutex, base, waitFor>>

\* What an acquire may take out of the pool: every process that has exited,
\* and of the unused ones those that have been idle for long.
Evictable ==
    {E \in SUBSET {p \in Pids : Pooled(p)} :
        /\ \A p \in E : process[p].life = "gone" \/ process[p].active = 0
        /\ \A p \in Pids : Pooled(p) /\ process[p].life = "gone" => p \in E}

Without(E) == [k \in Credentials |-> IF processes[k] \in E THEN 0 ELSE processes[k]]
Stopped(E) == [p \in Pids |-> [process[p] EXCEPT !.stopped = @ \/ p \in E]]

\* The credential has a process in the pool.
Join(c) ==
    LET k == clients[c].credential
    IN  /\ Doing(c, "acquire") /\ mutex = {} /\ base = "live"
        /\ \E E \in Evictable :
             /\ Without(E)[k] # 0
             /\ processes' = Without(E)
             /\ process' = [Stopped(E) EXCEPT ![Without(E)[k]].active = @ + 1]
             /\ clients' = [clients EXCEPT ![c].pc = "thread", ![c].process = Without(E)[k]]
        /\ UNCHANGED <<mutex, base, waitFor>>

\* It has none: one is started, and c.mu stays locked.
Launch(c) ==
    LET p == CHOOSE n \in Unborn : TRUE
    IN  /\ Doing(c, "acquire") /\ mutex = {} /\ base = "live" /\ Unborn # {}
        /\ \E E \in Evictable :
             /\ Without(E)[clients[c].credential] = 0
             /\ processes' = Without(E)
             /\ process' = [Stopped(E) EXCEPT ![p] = [NoProcess EXCEPT !.life = "up"]]
        /\ mutex' = {c}
        /\ clients' = [clients EXCEPT ![c].pc = "handshake", ![c].process = p]
        /\ UNCHANGED <<base, waitFor>>

\* No login, the pool is closed, or the executable does not start.
AcquireFails(c) ==
    /\ Doing(c, "acquire") /\ mutex = {}
    /\ clients' = [clients EXCEPT ![c] = Off]
    /\ UNCHANGED <<processes, process, mutex, base, waitFor>>

HandshakeDone(c) ==
    LET p == clients[c].process
    IN  /\ Doing(c, "handshake") /\ process[p].life = "up"
        /\ processes' = [processes EXCEPT ![clients[c].credential] = p]
        /\ process' = [process EXCEPT ![p].active = 1]
        /\ mutex' = {}
        /\ clients' = [clients EXCEPT ![c].pc = "thread"]
        /\ UNCHANGED <<base, waitFor>>

\* Mutant: the process that would not shake hands is left alone.
HandshakeForgets(c) ==
    /\ Doing(c, "handshake")
    /\ mutex' = {}
    /\ clients' = [clients EXCEPT ![c] = Off]
    /\ UNCHANGED <<processes, process, base, waitFor>>

\* An error, a timeout or an exit: the process is stopped ...
HandshakeFails(c) ==
    /\ Doing(c, "handshake")
    /\ process' = [process EXCEPT ![clients[c].process].stopped = TRUE]
    /\ clients' = [clients EXCEPT ![c].pc = "reap"]
    /\ UNCHANGED <<processes, mutex, base, waitFor>>

\* ... and waited for.
Reap(c) ==
    /\ Doing(c, "reap") /\ ProcessOf(c).life = "gone"
    /\ mutex' = {}
    /\ clients' = [clients EXCEPT ![c] = Off]
    /\ UNCHANGED <<processes, process, base, waitFor>>

\* The deferred release, after the thread has been forgotten.
ReleaseProcess(c) ==
    /\ Doing(c, "release") /\ mutex = {}
    /\ process' = [process EXCEPT ![clients[c].process].active = @ - 1]
    /\ clients' = [clients EXCEPT ![c] = Off]
    /\ UNCHANGED <<processes, mutex, base, waitFor>>

-----------------------------------------------------------------------------
(* generate and collect *)

\* generate returns; nothing of the turn is kept but the process to release.
Ends(c) == clients' = [clients EXCEPT ![c] = [Off EXCEPT !.pc = "release", !.process = clients[c].process]]

poolVars == <<processes, process, mutex, base, waitFor>>

\* thread/start is answered and the thread's channels are registered.
StartThread(c) ==
    /\ Doing(c, "thread") /\ ProcessOf(c).life = "up"
    /\ clients' = [clients EXCEPT ![c].pc = "turn"]
    /\ UNCHANGED poolVars

\* thread/inject_items and turn/start are answered.
StartTurn(c) ==
    /\ Doing(c, "turn") /\ ProcessOf(c).life = "up"
    /\ clients' = [clients EXCEPT ![c].pc = "collect"]
    /\ UNCHANGED poolVars

\* A call is answered with an error, or not at all: the idle timeout, the end of
\* the request's context or of the process ends the wait.
RPCFails(c) ==
    /\ clients[c].pc \in {"thread", "turn"}
    /\ Ends(c)
    /\ UNCHANGED poolVars

\* The app-server says something about the turn; dispatch puts it into the
\* thread's channel, or drops it when the channel is full.
AppServerSays(c, e) ==
    LET call == clients[c]
    IN  /\ call.pc \in {"turn", "collect"} /\ ProcessOf(c).life = "up" /\ ~call.over
        /\ e = "item/tool/call" => call.made < MaxCalls
        /\ e = "interrupted" => call.calls > 0
        /\ clients' = [clients EXCEPT ![c].made = IF e = "item/tool/call" THEN @ + 1 ELSE @,
                                      ![c].over = e \in Terminal,
                                      ![c].events = IF Len(@) < EventCap THEN Append(@, e) ELSE @]
        /\ UNCHANGED poolVars

\* collect takes an event that does not end the turn.  The first tool call
\* interrupts it.
TakeEvent(c) ==
    LET e == Head(clients[c].events)
    IN  /\ Doing(c, "collect") /\ clients[c].events # <<>>
        /\ e \notin Terminal
        /\ clients' = [clients EXCEPT
             ![c].events = Tail(@),
             ![c].calls = IF e = "item/tool/call" THEN @ + 1 ELSE @,
             ![c].content = @ \/ e = "item/completed",
             ![c].fatal = @ \/ e = "error"]
        /\ UNCHANGED poolVars

\* turn/completed: codexResponse, or an error.
TurnCompletes(c) ==
    LET call == clients[c]
        e == Head(call.events)
        good == /\ ~call.fatal
                /\ e = "completed" \/ (e = "interrupted" /\ call.calls > 0)
                /\ call.calls > 0 \/ call.content
    IN  /\ Doing(c, "collect") /\ call.events # <<>>
        /\ e \in Terminal
        /\ \/ good /\ clients' = [clients EXCEPT ![c].pc = "release", ![c].answered = TRUE]
           \/ Ends(c)
        /\ UNCHANGED poolVars

\* A malformed event, silence for the idle timeout, the end of the request's
\* context or of the process.
CollectFails(c) ==
    /\ Doing(c, "collect")
    /\ Ends(c)
    /\ UNCHANGED poolVars

-----------------------------------------------------------------------------
(* Processes, external, and the goroutine that waits for each *)

othersOfProcess == <<processes, mutex, clients, base, waitFor>>

\* A line of its output is too long: rpcLineWriter fails the process and stops it,
\* whoever uses it; it is up, and may be joined, until it is killed.
AppServerOverflows(p) ==
    /\ process[p].life = "up" /\ ~process[p].failed /\ base # "closed"
    /\ process' = [process EXCEPT ![p].failed = TRUE, ![p].stopped = TRUE]
    /\ UNCHANGED othersOfProcess

\* It stops reading its input: from now on p.stdin.Write blocks, without a deadline
\* and without regard to any context, until the process is gone.
AppServerStopsReading(p) ==
    /\ process[p].life = "up" /\ ~process[p].deaf /\ base # "closed"
    /\ process' = [process EXCEPT ![p].deaf = TRUE]
    /\ UNCHANGED othersOfProcess

ProcessExits(p) ==
    /\ process[p].life = "up" /\ base # "closed"
    /\ process' = [process EXCEPT ![p].life = "dead", ![p].deaf = FALSE]
    /\ UNCHANGED othersOfProcess

\* Killed because it was stopped or the pool was closed.
ProcessKilled(p) == (process[p].stopped \/ base # "live") /\ ProcessExits(p)

RemoveHome(p) ==
    /\ process[p].life = "dead" /\ base # "closed"
    /\ process' = [process EXCEPT ![p].life = "gone", ![p].failed = TRUE]
    /\ UNCHANGED othersOfProcess

-----------------------------------------------------------------------------
(* Close *)

CancelBase ==
    /\ base = "live"
    /\ base' = "canceled"
    /\ UNCHANGED <<processes, process, mutex, clients, waitFor>>

TakeProcesses ==
    /\ base = "canceled" /\ mutex = {}
    /\ base' = "taken"
    /\ waitFor' = {p \in Pids : Pooled(p)}
    /\ processes' = [k \in Credentials |-> 0]
    /\ UNCHANGED <<process, mutex, clients>>

CodexClosed ==
    /\ base = "taken"
    /\ \A p \in waitFor : process[p].life = "gone"
    /\ base' = "closed"
    /\ UNCHANGED <<processes, process, mutex, clients, waitFor>>

-----------------------------------------------------------------------------
\* Steps that wait for c.mu, and the others of a request's goroutine.
LockStep(c) == Join(c) \/ Launch(c) \/ AcquireFails(c) \/ ReleaseProcess(c)
ClientStep(c) ==
    \/ HandshakeDone(c) \/ HandshakeFails(c) \/ Reap(c)
    \/ StartThread(c) \/ StartTurn(c) \/ RPCFails(c)
    \/ TakeEvent(c) \/ TurnCompletes(c) \/ CollectFails(c)

\* Nothing the request's goroutine writes blocks it: p.write waits in stdin.Write, or
\* for p.writeMu, while the app-server is up and does not read.
Heard(c) == \A p \in Pids : process[p].life = "up" /\ process[p].deaf => clients[c].process # p

CodexStep ==
    \/ \E c \in Clients : LockStep(c) \/ ClientStep(c) \/ \E e \in Notifications : AppServerSays(c, e)
    \/ \E p \in Pids : \/ AppServerOverflows(p) \/ AppServerStopsReading(p)
                       \/ ProcessExits(p) \/ RemoveHome(p)

-----------------------------------------------------------------------------
(* Properties. *)

Users(p) == {c \in Clients : clients[c].process = p /\ clients[c].pc \in {"thread", "turn", "collect", "release"}}
Starting(p) == \E c \in Clients : clients[c].process = p /\ clients[c].pc \in {"handshake", "reap"}

\* codex_app_server.go: no client, no failure of another request and no eviction stops
\* a process in use (only its own output that overflows does, and is recorded as its
\* failure), its users are counted exactly, whoever joined, failed or left meanwhile, and
\* a process that runs outside the pool has been told to stop (or it would run until the end).
ProcessesAreAccountedFor ==
    \A p \in Pids :
        /\ process[p].active = Cardinality(Users(p))
        /\ Users(p) # {} /\ process[p].life = "up" /\ process[p].stopped => process[p].failed
        /\ process[p].life = "up" => Pooled(p) \/ Starting(p) \/ process[p].stopped \/ base # "live"
=============================================================================
