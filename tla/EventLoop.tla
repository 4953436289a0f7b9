----------------------------- MODULE EventLoop -----------------------------
(***************************************************************************)
(* The scheduler of the Agent Server, agent_server/internal/eventloop.     *)
(* One goroutine (run) dispatches the due events, arms a timer for the     *)
(* next deadline and then blocks on the timer and on `wake`, a channel of  *)
(* capacity one.  Callers register, delete and stop; each dispatched event *)
(* runs in a worker goroutine.  Everything under el.mu is one step; the    *)
(* signalWake that follows an unlock is a step of its own, so the          *)
(* scheduler may look at the events, or block, in between.                 *)
(*                                                                         *)
(* Time is abstracted to what the scheduler tells apart: whether nextRun   *)
(* has passed.  An event object is one RegisterEvent; a name that is used  *)
(* again gets a new object.  Wait and IsEmpty only read.                   *)
(***************************************************************************)
EXTENDS Integers, FiniteSets

CONSTANTS Names,      \* event names
          Counts,     \* counts callers register with; -1 is a resident task
          MaxObjects, \* bound on the registrations
          MaxStarts,  \* bound on the calls of Start
          MaxSignals  \* bound on outstanding signalWake calls: of the callers, and of the
                      \* workers of each object

Objects == 1..MaxObjects
None    == 0

ASSUME EventLoopAssumption ==
    /\ Counts \subseteq (Nat \ {0}) \cup {-1}
    /\ MaxObjects \in Nat /\ MaxStarts \in Nat /\ MaxSignals \in Nat \ {0}

VARIABLES
    state,    \* el.state
    wake,     \* a token is in el.wake
    events, finished,   \* el.events and el.finished, by name
    ev,       \* the event objects
    created,  \* objects 1..created exist
    active,   \* goroutines inside the callback of each object
    runs,     \* callbacks started of each object with a finite count
    pc,       \* where run() is: "gone", "dispatch", "select", "draining"
    armed,    \* in "select": objects whose nextRun the timer accounts for
    starts,   \* calls of Start that went through
    ready,    \* Starts whose ready channel is closed
    callerSignals,  \* callers between an unlock and their signalWake
    workerSignals   \* the same of the workers of each object; workers.Wait waits
                    \* for these too

loopVars   == <<pc, armed, starts, ready>>
signalVars == <<callerSignals, workerSignals>>
vars == <<state, wake, events, finished, ev, created, active, runs, loopVars, signalVars>>

\* An event that has not been registered yet.
Blank == [name |-> None, count |-> 0, remaining |-> 0, due |-> FALSE, running |-> FALSE,
          deleting |-> FALSE, canceled |-> FALSE, done |-> FALSE, result |-> "none"]

Init ==
    /\ state = "stopped" /\ wake = FALSE
    /\ events = [n \in Names |-> None] /\ finished = [n \in Names |-> None]
    /\ ev = [o \in Objects |-> Blank] /\ created = 0
    /\ active = [o \in Objects |-> 0] /\ runs = [o \in Objects |-> 0]
    /\ pc = "gone" /\ armed = {} /\ starts = 0 /\ ready = 0
    /\ callerSignals = 0 /\ workerSignals = [o \in Objects |-> 0]

Registered == {o \in Objects : \E n \in Names : events[n] = o}

-----------------------------------------------------------------------------
(* Callers. *)

CallerSignals ==
    /\ callerSignals < MaxSignals
    /\ callerSignals' = callerSignals + 1

\* Mutant: the scheduler is not told.
RegisterQuietly(n, count) ==
    LET o == created + 1 IN
    /\ state # "stopping" /\ events[n] = None
    /\ o \in Objects
    /\ created' = o
    /\ ev' = [ev EXCEPT ![o] = [Blank EXCEPT !.name = n, !.count = count, !.remaining = count]]
    /\ events' = [events EXCEPT ![n] = o]
    /\ finished' = [finished EXCEPT ![n] = None]
    /\ UNCHANGED <<state, wake, active, runs, loopVars, signalVars>>

\* Mutant: a name is taken only while its callback runs.
RegisterOverIdle(n, count) ==
    LET o == created + 1 IN
    /\ state # "stopping"
    /\ events[n] # None => ~ev[events[n]].running
    /\ o \in Objects
    /\ created' = o
    /\ ev' = [ev EXCEPT ![o] = [Blank EXCEPT !.name = n, !.count = count, !.remaining = count]]
    /\ events' = [events EXCEPT ![n] = o]
    /\ finished' = [finished EXCEPT ![n] = None]
    /\ CallerSignals
    /\ UNCHANGED <<state, wake, active, runs, loopVars, workerSignals>>

RegisterEvent(n, count) ==
    LET o == created + 1 IN
    /\ state # "stopping"
    /\ events[n] = None
    /\ o \in Objects
    /\ created' = o
    /\ ev' = [ev EXCEPT ![o] = [Blank EXCEPT !.name = n, !.count = count, !.remaining = count]]
    /\ events' = [events EXCEPT ![n] = o]
    /\ finished' = [finished EXCEPT ![n] = None]
    /\ CallerSignals
    /\ UNCHANGED <<state, wake, active, runs, loopVars, workerSignals>>

\* The wake channel is drained: run() looks at the events first anyway.
Start ==
    /\ state = "stopped"
    /\ starts < MaxStarts
    /\ wake' = FALSE
    /\ state' = "running"
    /\ starts' = starts + 1
    /\ pc' = "dispatch"
    /\ UNCHANGED <<events, finished, ev, created, active, runs, armed, ready, signalVars>>

\* The events of S terminate with a result: done is closed, and they move from
\* events to finished.  `objects` are the event objects after the other
\* assignments of the same critical section.
Terminate(S, result, objects) ==
    /\ ev' = [o \in Objects |-> IF o \in S
                                THEN [objects[o] EXCEPT !.done = TRUE, !.result = result]
                                ELSE objects[o]]
    /\ events' = [n \in Names |-> IF events[n] \in S THEN None ELSE events[n]]
    /\ finished' = [n \in Names |-> IF events[n] \in S THEN events[n] ELSE finished[n]]

\* ev.cancel() for those of S that have one.
Cancel(S) ==
    [o \in Objects |-> IF o \in S /\ ev[o].running THEN [ev[o] EXCEPT !.canceled = TRUE]
                                                   ELSE ev[o]]

\* Mutant: Stop does not wake the scheduler.
StopQuietly ==
    /\ state' = IF state = "running" THEN "stopping" ELSE state
    /\ Terminate({o \in Registered : ~ev[o].running}, "loop stopped", Cancel(Registered))
    /\ UNCHANGED <<wake, created, active, runs, loopVars, signalVars>>

\* Stop up to its wait for stopDone.  A loop that is not running has no
\* running event, so both branches terminate exactly the idle events.
Stop ==
    /\ \/ /\ state = "stopped"
          /\ Terminate(Registered, "loop stopped", ev)
          /\ UNCHANGED <<state, callerSignals>>
       \/ /\ state = "running"
          /\ state' = "stopping"
          /\ Terminate({o \in Registered : ~ev[o].running}, "loop stopped", Cancel(Registered))
          /\ CallerSignals
       \/ /\ state = "stopping"
          /\ CallerSignals
          /\ UNCHANGED <<state, ev, events, finished>>
    /\ UNCHANGED <<wake, created, active, runs, loopVars, workerSignals>>

DelEvent(n) ==
    LET o       == events[n]
        marked  == [Cancel({o}) EXCEPT ![o].deleting = TRUE]
    IN /\ o # None
       /\ Terminate(IF ev[o].running THEN {} ELSE {o}, "deleted", marked)
       /\ CallerSignals
       /\ UNCHANGED <<state, wake, created, active, runs, loopVars, workerSignals>>

-----------------------------------------------------------------------------
(* signalWake: a full channel already says what the token would. *)

CallerSignalsWake ==
    /\ callerSignals > 0
    /\ callerSignals' = callerSignals - 1
    /\ wake' = TRUE
    /\ UNCHANGED <<state, events, finished, ev, created, active, runs, loopVars, workerSignals>>

\* Also the worker's deferred workers.Done().
WorkerSignalsWake(o) ==
    /\ workerSignals[o] > 0
    /\ workerSignals' = [workerSignals EXCEPT ![o] = @ - 1]
    /\ wake' = TRUE
    /\ UNCHANGED <<state, events, finished, ev, created, active, runs, loopVars, callerSignals>>

-----------------------------------------------------------------------------
(* The scheduler goroutine. *)

\* The clock passes nextRun.
Tick(o) ==
    /\ o \in Registered /\ ~ev[o].due
    /\ ev' = [ev EXCEPT ![o].due = TRUE]
    /\ UNCHANGED <<state, wake, events, finished, created, active, runs, loopVars, signalVars>>

\* Mutant: an event whose callback still runs is a candidate too.
CandidatesWithRunning == {o \in Registered : ~ev[o].deleting /\ ev[o].remaining # 0}

\* The events dispatchDue considers.
Candidates ==
    {o \in Registered : ~ev[o].deleting /\ ev[o].remaining # 0 /\ ~ev[o].running}

\* Mutant: the last execution is not counted.
DispatchedTooOften(e) ==
    [e EXCEPT !.remaining = IF @ > 1 THEN @ - 1 ELSE @,
              !.running = TRUE, !.due = FALSE, !.canceled = FALSE]

\* ev.remaining-- unless it is -1.
Dispatched(e) ==
    [e EXCEPT !.remaining = IF @ > 0 THEN @ - 1 ELSE @,
              !.running = TRUE, !.due = FALSE, !.canceled = FALSE]

\* One dispatchDue: a worker for every due event, a deadline for the others.
DispatchDue ==
    LET due == {o \in Candidates : ev[o].due} IN
    /\ pc = "dispatch" /\ state = "running"
    /\ ev' = [o \in Objects |-> IF o \in due THEN Dispatched(ev[o]) ELSE ev[o]]
    /\ active' = [o \in Objects |-> IF o \in due THEN active[o] + 1 ELSE active[o]]
    /\ runs' = [o \in Objects |-> IF o \in due /\ ev[o].count # -1 THEN runs[o] + 1 ELSE runs[o]]
    /\ armed' = Candidates \ due
    /\ ready' = starts
    /\ pc' = "select"
    /\ UNCHANGED <<state, wake, events, finished, created, starts, signalVars>>

\* dispatchDue says that the loop has been stopped.
SeesStop ==
    /\ pc = "dispatch" /\ state # "running"
    /\ ready' = starts
    /\ pc' = "draining"
    /\ UNCHANGED <<state, wake, events, finished, ev, created, active, runs, armed, starts,
                   signalVars>>

TakesToken ==
    /\ pc = "select" /\ wake
    /\ wake' = FALSE
    /\ pc' = "dispatch" /\ armed' = {}
    /\ UNCHANGED <<state, events, finished, ev, created, active, runs, starts, ready,
                   signalVars>>

\* The deadline was the earliest nextRun of the armed events.
TimerFires ==
    /\ pc = "select"
    /\ \E o \in armed : ev[o].due
    /\ pc' = "dispatch" /\ armed' = {}
    /\ UNCHANGED <<state, wake, events, finished, ev, created, active, runs, starts,
                   ready, signalVars>>

\* The deadline is never more than an hour away.
HourPasses ==
    /\ pc = "select"
    /\ pc' = "dispatch" /\ armed' = {}
    /\ UNCHANGED <<state, wake, events, finished, ev, created, active, runs, starts,
                   ready, signalVars>>

\* Mutant: stopped as soon as no event is marked running.
DrainedOfRunning ==
    /\ pc = "draining"
    /\ \A o \in Objects : ~ev[o].running
    /\ state' = "stopped" /\ pc' = "gone"
    /\ UNCHANGED <<wake, events, finished, ev, created, active, runs, armed, starts, ready,
                   signalVars>>

\* workers.Wait returns, and stopDone is closed.
Drained ==
    /\ pc = "draining"
    /\ \A o \in Objects : active[o] = 0 /\ workerSignals[o] = 0
    /\ state' = "stopped" /\ pc' = "gone"
    /\ UNCHANGED <<wake, events, finished, ev, created, active, runs, armed, starts, ready,
                   signalVars>>

-----------------------------------------------------------------------------
(* The workers. *)

Terminal(e) == e.deleting \/ e.remaining = 0 \/ state # "running"

EndResult(e) ==
    IF e.deleting THEN "deleted" ELSE IF state # "running" THEN "loop stopped" ELSE "returned"

\* Mutant: the scheduler is woken only when the event has terminated.
TaskReturnsQuietly(o) ==
    LET e == [ev[o] EXCEPT !.running = FALSE, !.canceled = FALSE, !.result = "returned"] IN
    /\ active[o] > 0
    /\ workerSignals[o] < MaxSignals
    /\ active' = [active EXCEPT ![o] = @ - 1]
    /\ Terminate(IF Terminal(e) THEN {o} ELSE {}, EndResult(e), [ev EXCEPT ![o] = e])
    /\ workerSignals' = [workerSignals EXCEPT ![o] = IF Terminal(e) THEN @ + 1 ELSE @]
    /\ UNCHANGED <<state, wake, created, runs, loopVars, callerSignals>>

\* The callback returns, with an error, a panic or nil; the rest of execute.
TaskReturns(o) ==
    LET e == [ev[o] EXCEPT !.running = FALSE, !.canceled = FALSE, !.result = "returned"] IN
    /\ active[o] > 0
    /\ workerSignals[o] < MaxSignals
    /\ active' = [active EXCEPT ![o] = @ - 1]
    /\ Terminate(IF Terminal(e) THEN {o} ELSE {}, EndResult(e), [ev EXCEPT ![o] = e])
    /\ workerSignals' = [workerSignals EXCEPT ![o] = @ + 1]
    /\ UNCHANGED <<state, wake, created, runs, loopVars, callerSignals>>

-----------------------------------------------------------------------------
CallerStep ==
    \/ \E n \in Names, count \in Counts : RegisterEvent(n, count)
    \/ Start
    \/ Stop
    \/ \E n \in Names : DelEvent(n)

SchedulerStep == DispatchDue \/ SeesStop \/ TakesToken \/ TimerFires \/ Drained

Next ==
    \/ CallerStep
    \/ CallerSignalsWake
    \/ SchedulerStep
    \/ HourPasses
    \/ \E o \in Objects : Tick(o) \/ TaskReturns(o) \/ WorkerSignalsWake(o)

Spec == Init /\ [][Next]_vars

-----------------------------------------------------------------------------
(* Properties. *)

EventType ==
    [name : Names \cup {None}, count : Counts \cup {0}, remaining : Int, due : BOOLEAN,
     running : BOOLEAN, deleting : BOOLEAN, canceled : BOOLEAN, done : BOOLEAN,
     result : {"none", "returned", "deleted", "loop stopped"}]

\* Types; the scheduler goroutine exists exactly while the loop is not stopped.
TypeOK ==
    /\ state \in {"stopped", "running", "stopping"} /\ wake \in BOOLEAN
    /\ events \in [Names -> Objects \cup {None}] /\ finished \in [Names -> Objects \cup {None}]
    /\ ev \in [Objects -> EventType] /\ created \in 0..MaxObjects
    /\ active \in [Objects -> Nat] /\ runs \in [Objects -> Nat]
    /\ pc \in {"gone", "dispatch", "select", "draining"} /\ armed \in SUBSET Objects
    /\ starts \in 0..MaxStarts /\ ready \in 0..starts
    /\ callerSignals \in 0..MaxSignals /\ workerSignals \in [Objects -> 0..MaxSignals]
    /\ pc = "gone" <=> state = "stopped"

\* No wake-up is lost: while run() blocks and no token is there or on its way,
\* the loop has not been stopped and the timer accounts for every event that
\* is to be dispatched.
NoLostWakeup ==
    pc = "select" /\ ~wake /\ callerSignals = 0 /\ (\A o \in Objects : workerSignals[o] = 0) =>
        state = "running" /\ Candidates \subseteq armed

\* spec.md 2.1: callbacks registered under one name never overlap, also when
\* the name is deleted and registered again while the old callback runs.
NoOverlap ==
    \A o1, o2 \in Objects :
        active[o1] > 0 /\ active[o2] > 0 /\ ev[o1].name = ev[o2].name =>
            o1 = o2 /\ active[o1] = 1

\* An event that has not terminated is the one its name leads to, so DelEvent,
\* Stop and Wait reach it; and once it has terminated no callback of it runs.
UndoneIsReachable ==
    \A o \in 1..created :
        /\ ev[o].done \/ events[ev[o].name] = o
        /\ ev[o].done => active[o] = 0 /\ events[ev[o].name] # o

\* spec.md 2.1: a positive count is the exact number of executions, unless the
\* event is deleted or the loop stopped.
CountIsExact ==
    \A o \in 1..created :
        ev[o].count # -1 =>
            /\ runs[o] + ev[o].remaining = ev[o].count
            /\ ev[o].done /\ ev[o].result = "returned" => runs[o] = ev[o].count

\* spec.md 2.1: only when every callback has left is the loop stopped, and can
\* a second one be started.
StoppedIsQuiet ==
    state = "stopped" =>
        \A o \in Objects : active[o] = 0 /\ workerSignals[o] = 0 /\ ~ev[o].running

\* All of the above: at every moment the scheduler will notice what it has to
\* do, and events, callbacks and counts agree.
LoopIsSound ==
    TypeOK /\ NoLostWakeup /\ NoOverlap /\ UndoneIsReachable /\ CountIsExact /\ StoppedIsQuiet

\* Stop always completes, however it meets starts, registrations and callbacks.
StopCompletes == state = "stopping" ~> state = "stopped"

\* An event that may run is dispatched or terminated, without the hour.
DueIsDispatched ==
    \A o \in Objects : state = "running" /\ o \in Candidates ~>
                       ev[o].running \/ ev[o].done

\* Whoever waits, for Stop or for an event, is answered.
LoopMakesProgress == StopCompletes /\ DueIsDispatched
=============================================================================
