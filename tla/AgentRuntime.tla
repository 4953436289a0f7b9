---------------------------- MODULE AgentRuntime ----------------------------
(***************************************************************************)
(* The Session / Run / Event lifecycle of agent_server/internal/agent.     *)
(*                                                                         *)
(* SQLite holds the durable part (sessions, runs, events, event_log,       *)
(* pending_triggers); the process holds `active` (one entry per Run        *)
(* goroutine), the latched persistence fault and the closed flag.  Every   *)
(* handler runs under AgentRuntime.mu and inside one transaction, so it is *)
(* one action.  What interleaves with the handlers is the Run goroutine    *)
(* (its own writes, its end, and finishActive are separate steps), the     *)
(* background event rounds, a crash and the recovery at the next boot.     *)
(* A handler that fails, or whose request is canceled, before its commit   *)
(* changes nothing; the failure that also latches a fault is LatchFault.   *)
(*                                                                         *)
(* A Session is identified with the trading account it is bound to:        *)
(* sessions.account_id is UNIQUE and a deleted row is never removed, so an *)
(* account is bound to at most one Session for ever.                       *)
(***************************************************************************)
EXTENDS Integers, Sequences, FiniteSets

CONSTANTS Sessions,            \* trading accounts / Sessions
          Events,              \* Event ids (random, hence used at most once)
          Mention,             \* payload of a chat_mention trigger
          NoSession,           \* owner of an Event that has no row in events
          MaxRun,              \* bound: run ids 1..MaxRun per Session
          MaxTriggersPerRun,   \* events.MaxTriggersPerRun
          MaxActiveEvents,     \* events.maxActiveEvents
          MaxManualRunRetries  \* maxManualRunRetries

ASSUME ConstantsAssumption ==
    /\ MaxRun \in Nat
    /\ MaxTriggersPerRun \in Nat \ {0}
    /\ MaxActiveEvents \in Nat
    /\ MaxManualRunRetries \in Nat
    /\ IsFiniteSet(Events)
    /\ Mention \notin Events
    /\ NoSession \notin Sessions

VARIABLES
    status,      \* sessions.status ("none": no row)
    current,     \* sessions.current_run_id
    restart,     \* what sessions.restart_context keeps of the last stop
    informed,    \* last session_restart Run whose initial_context_json is set
    runs,        \* runs: one row per run id (NoRun: no row)
    owner,       \* events.owner_session_id (NoSession: no row)
    logged,      \* event_log: outcomes recorded per Event
    pending,     \* pending_triggers in id order
    active,      \* r.active: run id of the Session's goroutine (0: no entry)
    canceled,    \* Sessions whose goroutine's context has been canceled
    phase,       \* what it does: its trigger until its context is saved, then
                 \* "working" ("none": no goroutine)
    up, closed, fault  \* process alive; r.closed; r.persistenceErr # nil

processVars == <<up, closed, fault>>
goVars      == <<active, canceled, phase>>
memoryVars  == <<goVars, processVars>>
eventVars   == <<owner, logged, pending>>
vars == <<status, current, restart, informed, runs, eventVars, memoryVars>>

RunIds   == 1..MaxRun
Payloads == Events \cup {Mention}
Terminal == {"completed", "failed", "interrupted"}
Outcomes == {"fired", "expired", "deleted_by_agent", "deleted_by_user",
             "cleared_by_stop", "cleared_by_delete"}
RunKinds == {"session_start", "session_restart", "event",
             "manual_retry", "server_recovery"}

\* retryOf = 0: NULL.
NoRun == [status |-> "none", triggers |-> <<>>, retryOf |-> 0, attempt |-> 0]

NewRun(triggers, retryOf, attempt) ==
    [status |-> "running", triggers |-> triggers, retryOf |-> retryOf,
     attempt |-> attempt]

Ended(r, outcome) ==
    [status |-> outcome, triggers |-> r.triggers, retryOf |-> r.retryOf,
     attempt |-> r.attempt]

\* restart_context: the Run that was stopped and what the stop cleared.
NoContext == [run |-> 0, events |-> {}, pending |-> <<>>]

Init ==
    /\ status = [s \in Sessions |-> "none"]
    /\ current = [s \in Sessions |-> 0]
    /\ restart = [s \in Sessions |-> NoContext]
    /\ informed = [s \in Sessions |-> 0]
    /\ runs = [s \in Sessions |-> [i \in RunIds |-> NoRun]]
    /\ owner = [e \in Events |-> NoSession]
    /\ logged = [e \in Events |-> {}]
    /\ pending = [s \in Sessions |-> <<>>]
    /\ active = [s \in Sessions |-> 0]
    /\ canceled = {}
    /\ phase = [s \in Sessions |-> "none"]
    /\ up = TRUE /\ closed = FALSE /\ fault = FALSE

-----------------------------------------------------------------------------
(* Helpers. *)

Healthy == up /\ ~closed /\ ~fault

\* Active Events of a Session.
EventsOf(s) == {e \in Events : owner[e] = s}

\* Bound: the Session may get one more run id.
HasRunId(s) == current[s] < MaxRun

RunIsRunning(s, i) == i \in RunIds /\ runs[s][i].status = "running"

\* All orders in which the members of S can be listed.
Listings(S) ==
    {q \in [1..Cardinality(S) -> S] : \A i, j \in DOMAIN q : q[i] = q[j] => i = j}

\* The rows PendingPayloadsTx hands to the next Run, and the rows left.
BatchSize(q) == IF Len(q) < MaxTriggersPerRun THEN Len(q) ELSE MaxTriggersPerRun
Batch(q)     == SubSeq(q, 1, BatchSize(q))
\* Mutant: the last row of the batch is not deleted.
RemainderOffByOne(q) == SubSeq(q, BatchSize(q), Len(q))
Remainder(q) == SubSeq(q, BatchSize(q) + 1, Len(q))

\* INSERT INTO runs (status running) and current_run_id + 1, for each of S.
InsertRuns(S, triggers, retryOf, attempt) ==
    /\ current' = [s \in Sessions |-> IF s \in S THEN current[s] + 1 ELSE current[s]]
    /\ runs' = [s \in Sessions |->
                  IF s \in S
                  THEN [runs[s] EXCEPT ![current[s] + 1] =
                          NewRun(triggers[s], retryOf, attempt)]
                  ELSE runs[s]]

NoTriggers == [s \in Sessions |-> <<>>]

\* r.active[s] = &activeRun{...}; go runAgent(trigger), for the Runs inserted.
Launch(S, trigger) ==
    /\ active' = [s \in Sessions |-> IF s \in S THEN current[s] + 1 ELSE active[s]]
    /\ canceled' = canceled \ S
    /\ phase' = [s \in Sessions |-> IF s \in S THEN trigger ELSE phase[s]]

\* active.cancel() for every entry of r.active.
CancelAll == canceled' = {s \in Sessions : active[s] # 0}

\* UPDATE runs SET status WHERE status = 'running'.
SetRunStatus(s, i, outcome) == runs' = [runs EXCEPT ![s][i] = Ended(@, outcome)]

\* Mutant: the DELETE of the active row is forgotten.
LogOnly(E, outcome) ==
    /\ owner' = owner
    /\ logged' = [e \in Events |->
                    IF e \in E THEN logged[e] \cup {outcome} ELSE logged[e]]

\* RemoveRecordTx for a set of Events: rows deleted, one log row each.
RemoveRecords(E, outcome) ==
    /\ owner' = [e \in Events |-> IF e \in E THEN NoSession ELSE owner[e]]
    /\ logged' = [e \in Events |->
                    IF e \in E THEN logged[e] \cup {outcome} ELSE logged[e]]

-----------------------------------------------------------------------------
(* USER requests. *)

CreateSession(s) ==
    /\ Healthy
    /\ status[s] = "none"
    /\ status' = [status EXCEPT ![s] = "stopped"]
    /\ UNCHANGED <<current, restart, informed, runs, eventVars, memoryVars>>

\* Refused while a canceled goroutine of an earlier Run is still in r.active.
StartSession(s) ==
    /\ Healthy
    /\ status[s] = "stopped"
    /\ active[s] = 0
    /\ HasRunId(s)
    /\ status' = [status EXCEPT ![s] = "running"]
    /\ InsertRuns({s}, NoTriggers, 0, 0)
    /\ Launch({s}, IF current[s] = 0 THEN "session_start" ELSE "session_restart")
    /\ UNCHANGED <<restart, informed, eventVars, processVars>>

\* Mutant: a repeated stop recomputes the context.
RecomputedContext(s) ==
    IF current[s] = 0 THEN NoContext
    ELSE [run |-> current[s], events |-> EventsOf(s), pending |-> pending[s]]

\* The restart_context that a stop of Session s leaves: restartContextFor when
\* it was running, the saved one otherwise.
RestartContextFor(s) ==
    IF status[s] # "running" \/ current[s] = 0 THEN restart[s]
    ELSE IF /\ runs[s][current[s]].status = "completed"
            /\ EventsOf(s) = {} /\ pending[s] = <<>>
    THEN NoContext
    ELSE [run |-> current[s], events |-> EventsOf(s), pending |-> pending[s]]

\* Stop and delete: clear Events and queue, interrupt the current Run, save
\* the restart context of a running Session, cancel the goroutine.
ChangeSessionState(s, deleting) ==
    /\ Healthy
    /\ status[s] # "none"
    /\ status[s] = "deleted" => deleting
    /\ status' = [status EXCEPT ![s] = IF deleting THEN "deleted" ELSE "stopped"]
    /\ restart' = [restart EXCEPT ![s] = RestartContextFor(s)]
    /\ IF status[s] = "running" /\ RunIsRunning(s, current[s])
       THEN SetRunStatus(s, current[s], "interrupted")
       ELSE runs' = runs
    /\ RemoveRecords(EventsOf(s), IF deleting THEN "cleared_by_delete"
                                              ELSE "cleared_by_stop")
    /\ pending' = [pending EXCEPT ![s] = <<>>]
    /\ canceled' = IF active[s] # 0 THEN canceled \cup {s} ELSE canceled
    /\ UNCHANGED <<current, informed, active, phase, processVars>>

StopSession(s)   == ChangeSessionState(s, FALSE)
DeleteSession(s) == ChangeSessionState(s, TRUE)

\* Mutant: any failed Run may be retried, and the limit is not looked at.
RetryAnyRun(s, i) ==
    /\ Healthy
    /\ active[s] = 0
    /\ status[s] = "running"
    /\ runs[s][i].status = "failed"
    /\ HasRunId(s)
    /\ InsertRuns({s}, NoTriggers, i, runs[s][i].attempt + 1)
    /\ Launch({s}, "manual_retry")
    /\ UNCHANGED <<status, restart, informed, eventVars, processVars>>

\* Manual retry of the latest Run, which must have failed.
RetryRun(s, i) ==
    /\ Healthy
    /\ active[s] = 0
    /\ status[s] = "running"
    /\ runs[s][i].status = "failed"
    /\ current[s] = i
    /\ runs[s][i].attempt < MaxManualRunRetries
    /\ HasRunId(s)
    /\ InsertRuns({s}, NoTriggers,
                  IF runs[s][i].retryOf # 0 THEN runs[s][i].retryOf ELSE i,
                  runs[s][i].attempt + 1)
    /\ Launch({s}, "manual_retry")
    /\ UNCHANGED <<status, restart, informed, eventVars, processVars>>

DeleteEventByUser(s, e) ==
    /\ Healthy
    /\ owner[e] = s
    /\ RemoveRecords({e}, "deleted_by_user")
    /\ UNCHANGED <<status, current, restart, informed, runs, pending, memoryVars>>

-----------------------------------------------------------------------------
(* The Run goroutine of Session s, which is in r.active with id active[s]. *)

Driven(s) == up /\ active[s] # 0

\* runAgent up to persistInitialContext: the wake-up message is composed, with
\* restart_context for a session_restart Run.
RunBrief(s) ==
    /\ Driven(s)
    /\ phase[s] # "working"
    /\ RunIsRunning(s, active[s])
    /\ phase' = [phase EXCEPT ![s] = "working"]
    /\ informed' = IF phase[s] = "session_restart"
                   THEN [informed EXCEPT ![s] = active[s]] ELSE informed
    /\ UNCHANGED <<status, current, restart, runs, eventVars, active, canceled,
                   processVars>>

\* Mutant: the late write of a goroutine whose Run was stopped is accepted.
EventToolUnchecked(s) == Driven(s) /\ Healthy /\ phase[s] = "working"

\* Guard of eventToolTransaction: the Run must still be running in the tx.
EventToolAllowed(s) ==
    /\ Driven(s) /\ Healthy
    /\ RunIsRunning(s, active[s])
    /\ phase[s] = "working"

\* An id is never used again: owner and log are both empty for a fresh one.
CreateEventForRun(s, e) ==
    /\ EventToolAllowed(s)
    /\ owner[e] = NoSession /\ logged[e] = {}
    /\ Cardinality(EventsOf(s)) < MaxActiveEvents
    /\ owner' = [owner EXCEPT ![e] = s]
    /\ UNCHANGED <<status, current, restart, informed, runs, logged, pending, memoryVars>>

DeleteEventForRun(s, e) ==
    /\ EventToolAllowed(s)
    /\ owner[e] = s
    /\ RemoveRecords({e}, "deleted_by_agent")
    /\ UNCHANGED <<status, current, restart, informed, runs, pending, memoryVars>>

\* completeFinalizedRun.
RunComplete(s) ==
    /\ Driven(s) /\ Healthy
    /\ RunIsRunning(s, active[s])
    /\ phase[s] = "working"
    /\ SetRunStatus(s, active[s], "completed")
    /\ UNCHANGED <<status, current, restart, informed, eventVars, memoryVars>>

\* Mutant: UPDATE runs without "AND status = 'running'".
RunFailUnguarded(s) ==
    /\ Driven(s)
    /\ SetRunStatus(s, active[s], "failed")
    /\ UNCHANGED <<status, current, restart, informed, eventVars, memoryVars>>

\* failRun: a model or gateway failure, a panic, a persistence error.  It does
\* not look at r.closed or r.persistenceErr.
RunFail(s) ==
    /\ Driven(s)
    /\ RunIsRunning(s, active[s])
    /\ SetRunStatus(s, active[s], "failed")
    /\ UNCHANGED <<status, current, restart, informed, eventVars, memoryVars>>

\* Mutant: only a completed Run hands over to the queue.
DispatchesAfterSuccess(s) ==
    /\ Healthy /\ status[s] = "running" /\ pending[s] # <<>>
    /\ runs[s][active[s]].status = "completed"

\* dispatchPendingLocked starts a Run for s once its entry has left r.active.
Dispatches(s) == Healthy /\ status[s] = "running" /\ pending[s] # <<>>

\* Mutant: the goroutine keeps waiting when its Run was interrupted.
LeavesOnOwnEnd(s) == runs[s][active[s]].status \in {"completed", "failed"}

\* The goroutine returns when its Run is terminal or its context canceled.
Leaves(s) == ~RunIsRunning(s, active[s]) \/ s \in canceled

\* finishActive; the next batch of triggers starts at once.
RunFinish(s) ==
    /\ Driven(s)
    /\ Leaves(s)
    /\ IF Dispatches(s)
       THEN /\ HasRunId(s)
            /\ InsertRuns({s}, [t \in Sessions |-> Batch(pending[t])], 0, 0)
            /\ pending' = [pending EXCEPT ![s] = Remainder(@)]
            /\ Launch({s}, "event")
       ELSE /\ active' = [active EXCEPT ![s] = 0]
            /\ canceled' = canceled \ {s}
            /\ phase' = [phase EXCEPT ![s] = "none"]
            /\ UNCHANGED <<current, runs, pending>>
    /\ UNCHANGED <<status, restart, informed, owner, logged, processVars>>

-----------------------------------------------------------------------------
(* Background tasks.  A round claims Events and admits idle Sessions in one  *)
(* transaction; finished = FALSE is the round whose commit succeeded but     *)
(* whose history stage could not be finished: nothing is launched.           *)

\* Mutant: a round that could not finish its stage latches no fault.
EndRoundQuietly(S, finished) ==
    IF finished THEN Launch(S, "event") /\ UNCHANGED fault
                ELSE UNCHANGED <<goVars, fault>>

\* After the commit: launch the Runs, or latch the fault and launch nothing.
EndRound(S, finished) ==
    IF finished
    THEN Launch(S, "event") /\ UNCHANGED fault
    ELSE CancelAll /\ fault' = TRUE /\ UNCHANGED <<active, phase>>

\* The round's effect once the triggers `arrived` have been appended.
AdmitFired(S, arrived, finished) ==
    LET queue  == [s \in Sessions |-> pending[s] \o arrived[s]]
        starts == {s \in S : /\ active[s] = 0
                             /\ status[s] = "running"
                             /\ queue[s] # <<>>}
    IN /\ \A s \in starts : HasRunId(s)
       /\ InsertRuns(starts, [s \in Sessions |-> Batch(queue[s])], 0, 0)
       /\ pending' = [s \in Sessions |-> IF s \in starts THEN Remainder(queue[s])
                                                         ELSE queue[s]]
       /\ EndRound(starts, finished)
       /\ UNCHANGED <<status, restart, informed, up, closed>>

\* Every way to list the fired Events of each Session in claim order.
Arrivals(F) ==
    {a \in [Sessions -> UNION {Listings(E) : E \in SUBSET F}] :
        \A s \in Sessions : a[s] \in Listings(F \cap EventsOf(s))}

\* LocalEventTask expires X before it fires timers; PriceEventTask and
\* PositionEventTask fire F and expire nothing.
EventRound(X, F, finished) ==
    /\ Healthy
    /\ X \cap F = {}
    /\ X \cup F # {}
    /\ \A e \in X \cup F : owner[e] # NoSession
    /\ owner' = [e \in Events |-> IF e \in X \cup F THEN NoSession ELSE owner[e]]
    /\ logged' = [e \in Events |->
                    IF e \in X THEN logged[e] \cup {"expired"}
                    ELSE IF e \in F THEN logged[e] \cup {"fired"}
                    ELSE logged[e]]
    /\ \E a \in Arrivals(F) :
         AdmitFired({s \in Sessions : EventsOf(s) \cap F # {}}, a, finished)

\* ChatWakeTask with new mentions for an idle Session (a busy one reads its
\* mentions inside the Run).
ChatWake(s, finished) ==
    /\ Healthy
    /\ status[s] = "running"
    /\ active[s] = 0
    /\ AdmitFired({s}, [t \in Sessions |-> IF t = s THEN <<Mention>> ELSE <<>>],
                  finished)
    /\ UNCHANGED <<owner, logged>>

-----------------------------------------------------------------------------
(* Faults, shutdown, crash and recovery. *)

\* latchPersistenceFault after a failed SQLite or shard operation.
LatchFault ==
    /\ up /\ ~fault
    /\ fault' = TRUE
    /\ CancelAll
    /\ UNCHANGED <<status, current, restart, informed, runs, eventVars, active, phase, up, closed>>

\* Quiesce: admission closed, every active Run interrupted and canceled; for
\* the Sessions in `unsaved` the interruption could not be persisted.
Quiesce(unsaved) ==
    /\ up /\ ~closed
    /\ \A s \in unsaved : active[s] # 0
    /\ closed' = TRUE
    /\ fault' = (fault \/ unsaved # {})
    /\ runs' = [s \in Sessions |->
                  IF s \notin unsaved /\ RunIsRunning(s, active[s])
                  THEN [runs[s] EXCEPT ![active[s]] = Ended(@, "interrupted")]
                  ELSE runs[s]]
    /\ CancelAll
    /\ UNCHANGED <<status, current, restart, informed, eventVars, active, phase, up>>

\* Close: the process ends once every Run goroutine has left.
Exit ==
    /\ up /\ closed
    /\ \A s \in Sessions : active[s] = 0
    /\ up' = FALSE /\ closed' = FALSE /\ fault' = FALSE
    /\ UNCHANGED <<status, current, restart, informed, runs, eventVars, goVars>>

Crash ==
    /\ up
    /\ up' = FALSE /\ closed' = FALSE /\ fault' = FALSE
    /\ active' = [s \in Sessions |-> 0]
    /\ canceled' = {}
    /\ phase' = [s \in Sessions |-> "none"]
    /\ UNCHANGED <<status, current, restart, informed, runs, eventVars>>

\* recoverPersistedRuntime: every running Run becomes interrupted, and every
\* running Session gets a server_recovery Run.  finished = FALSE: committed,
\* but the history stage failed and the process gives up.
Boot(finished) ==
    LET starts == {s \in Sessions : status[s] = "running"}
        Interrupted(r) == IF r.status = "running" THEN Ended(r, "interrupted") ELSE r
    IN /\ ~up
       /\ \A s \in starts : HasRunId(s)
       /\ current' = [s \in Sessions |-> IF s \in starts THEN current[s] + 1
                                                         ELSE current[s]]
       /\ runs' = [s \in Sessions |-> [i \in RunIds |->
                     IF s \in starts /\ i = current[s] + 1
                     THEN NewRun(<<>>, 0, 0)
                     ELSE Interrupted(runs[s][i])]]
       /\ up' = finished
       /\ IF finished THEN Launch(starts, "server_recovery") ELSE UNCHANGED goVars
       /\ UNCHANGED <<status, restart, informed, eventVars, closed, fault>>

-----------------------------------------------------------------------------
UserRequest ==
    \E s \in Sessions :
        \/ CreateSession(s)
        \/ StartSession(s)
        \/ StopSession(s)
        \/ DeleteSession(s)
        \/ \E i \in RunIds : RetryRun(s, i)
        \/ \E e \in Events : DeleteEventByUser(s, e)

RunStep(s) ==
    \/ RunBrief(s)
    \/ \E e \in Events : CreateEventForRun(s, e) \/ DeleteEventForRun(s, e)
    \/ RunComplete(s)
    \/ RunFail(s)
    \/ RunFinish(s)

Background ==
    \E finished \in BOOLEAN :
        \/ \E X, F \in SUBSET Events : EventRound(X, F, finished)
        \/ \E s \in Sessions : ChatWake(s, finished)

ProcessStep ==
    \/ LatchFault
    \/ \E unsaved \in SUBSET Sessions : Quiesce(unsaved)
    \/ Exit
    \/ Crash
    \/ \E finished \in BOOLEAN : Boot(finished)

Next ==
    \/ UserRequest
    \/ \E s \in Sessions : RunStep(s)
    \/ Background
    \/ ProcessStep

Spec == Init /\ [][Next]_vars

\* The Run goroutine is never abandoned: the loop, retry and finalization
\* budgets and the request timeouts end the Run, and finishActive is deferred.
Fairness ==
    \A s \in Sessions : /\ WF_vars(RunBrief(s))
                        /\ WF_vars(RunComplete(s) \/ RunFail(s))
                        /\ WF_vars(RunFinish(s))

FairSpec == Spec /\ Fairness
-----------------------------------------------------------------------------
(* Properties. *)

Run == [status : {"none", "running"} \cup Terminal, triggers : Seq(Payloads),
        retryOf : 0..MaxRun, attempt : 0..MaxManualRunRetries]

\* Every variable stays in its column's or field's type.
TypeOK ==
    /\ status \in [Sessions -> {"none", "stopped", "running", "deleted"}]
    /\ current \in [Sessions -> 0..MaxRun]
    /\ restart \in [Sessions -> [run : 0..MaxRun, events : SUBSET Events,
                                 pending : Seq(Payloads)]]
    /\ informed \in [Sessions -> 0..MaxRun]
    /\ runs \in [Sessions -> [RunIds -> Run]]
    /\ owner \in [Events -> Sessions \cup {NoSession}]
    /\ logged \in [Events -> SUBSET Outcomes]
    /\ pending \in [Sessions -> Seq(Payloads)]
    /\ active \in [Sessions -> 0..MaxRun]
    /\ canceled \in SUBSET Sessions
    /\ phase \in [Sessions -> RunKinds \cup {"none", "working"}]
    /\ up \in BOOLEAN /\ closed \in BOOLEAN /\ fault \in BOOLEAN

\* A Run row that says running is the Session's current Run, and as long as no
\* persistence fault is latched the process that is up has a goroutine for
\* it that nobody canceled: no Run is left "running" with nobody to end it.
RunningRunIsDriven ==
    \A s \in Sessions, i \in RunIds :
        runs[s][i].status = "running" =>
            /\ i = current[s]
            /\ up /\ ~fault => active[s] = i /\ s \notin canceled

\* A Session that is not running has no active Event, no queued trigger and no
\* running Run, whatever its late goroutine or a background round still does.
StoppedSessionIsQuiet ==
    \A s \in Sessions : status[s] # "running" =>
        /\ EventsOf(s) = {}
        /\ pending[s] = <<>>
        /\ \A i \in RunIds : runs[s][i].status # "running"

\* A running Session that has no Run in flight has nothing queued: a trigger
\* never waits for another one to arrive before it is served.
NoStrandedTrigger ==
    \A s \in Sessions :
        Healthy /\ status[s] = "running" /\ active[s] = 0 => pending[s] = <<>>

\* Triggers of the Session's Runs in run order: what has been handed over.
Delivered(s) ==
    LET upTo[i \in 0..MaxRun] ==
            IF i = 0 THEN <<>> ELSE upTo[i - 1] \o runs[s][i].triggers
    IN upTo[MaxRun]

Stream(s) == Delivered(s) \o pending[s]

\* Where a Session's triggers can be: its queue (place 0) and its Runs.
Place(s, i) == IF i = 0 THEN pending[s] ELSE runs[s][i].triggers

\* Each Event reaches at most one outcome (spec.md 63.4), and only a fired one
\* is a trigger, of one Session, in one place: no two Runs, batches or rows of
\* the queue ever hold the same Event.
EventsAreOneShot ==
    /\ \A e \in Events :
         /\ \A o, p \in logged[e] : o = p
         /\ owner[e] # NoSession => logged[e] = {}
    /\ \A s \in Sessions, i \in 0..MaxRun : \A m \in DOMAIN Place(s, i) :
         LET e == Place(s, i)[m] IN
         e # Mention =>
            /\ logged[e] = {"fired"}
            /\ \A t \in Sessions, j \in 0..MaxRun : \A n \in DOMAIN Place(t, j) :
                 Place(t, j)[n] = e => s = t /\ i = j /\ m = n

\* A manual retry chain is an unbroken line of failed Runs back to the Run it
\* retries, and no longer than the limit.
RetryChainIsContiguous ==
    \A s \in Sessions, i \in RunIds :
        LET r == runs[s][i] IN
        r.attempt > 0 =>
            /\ r.attempt <= MaxManualRunRetries
            /\ r.retryOf = i - r.attempt
            /\ \A j \in r.retryOf..(i - 1) : runs[s][j].status = "failed"

\* The Session's trigger queue behaves as TriggerQueue says: arrival order,
\* bounded batches, nothing lost or handed over twice, across faults, crashes
\* and recoveries; only a stop or delete cuts what was not handed over.
Queue == INSTANCE TriggerQueue WITH
            stream <- [s \in Sessions |-> Stream(s)],
            taken  <- [s \in Sessions |-> Len(Delivered(s))],
            open   <- [s \in Sessions |-> status[s] = "running"]

TriggerQueueSpec == Queue!QueueSpec

\* A Run row is inserted once as running, ends once, and after that nothing in
\* it changes ("the previous Run's terminal state is never modified").
RunRowsAreWriteOnce ==
    [][\A s \in Sessions, i \in RunIds :
         LET old == runs[s][i]
             new == runs'[s][i]
         IN \/ new = old
            \/ old = NoRun /\ new.status = "running" /\ i = current[s] + 1
            \/ /\ old.status = "running" /\ new.status \in Terminal
               /\ new = Ended(old, new.status)]_vars

\* Stop is idempotent: only stopping a running Session writes restart_context.
RepeatedStopKeepsContext ==
    [][\A s \in Sessions : status[s] # "running" => restart'[s] = restart[s]]_vars

\* What a Run row or a restart_context says is written when it happens, and
\* no late goroutine, repeated stop or recovery writes it again.
RecordsAreWriteOnce == RunRowsAreWriteOnce /\ RepeatedStopKeepsContext

\* spec.md 63.8: what a stop cleared survives until a session_restart Run
\* after it has received it.
RestartFactsReachARun ==
    [][\A s \in Sessions :
         \/ restart[s].events = {} /\ restart[s].pending = <<>>
         \/ restart'[s] = restart[s]
         \/ informed[s] > restart[s].run]_vars

\* A queued trigger is eventually handed to a Run or cleared, unless the
\* process goes down or faults or the bound on run ids is reached.
TriggersAreServed ==
    \A s \in Sessions : \A e \in Events :
        (\E n \in DOMAIN pending[s] : pending[s][n] = e)
          ~> \/ ~(\E n \in DOMAIN pending[s] : pending[s][n] = e)
             \/ ~Healthy
             \/ ~HasRunId(s)

\* After a stop the canceled goroutine leaves, so that the Session can be
\* started again (until then startSession answers SESSION_RUN_ACTIVE).
StoppedSessionIsReleased ==
    \A s \in Sessions : status[s] = "stopped" /\ active[s] # 0 ~> active[s] = 0

\* Neither a queued trigger nor a caller who wants to start the Session again
\* waits for ever.
SessionsMakeProgress == TriggersAreServed /\ StoppedSessionIsReleased
=============================================================================
