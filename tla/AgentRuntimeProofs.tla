------------------------- MODULE AgentRuntimeProofs -------------------------
(***************************************************************************)
(* Theorems about AgentRuntime, for every number of Sessions, Events and   *)
(* Runs and every value of the limits.                                     *)
(***************************************************************************)
EXTENDS AgentRuntime, SequenceTheorems, FiniteSetTheorems, WellFoundedInduction, TLAPS

\* The batch handed to a Run and the rows that stay queued are sequences of
\* the same payloads (PendingPayloadsTx and the DELETE ... LIMIT after it).
LEMMA BatchType ==
    ASSUME NEW T, NEW q \in Seq(T)
    PROVE  Batch(q) \in Seq(T) /\ Remainder(q) \in Seq(T)
<1>1. BatchSize(q) \in Nat /\ BatchSize(q) <= Len(q)
    BY ConstantsAssumption DEF BatchSize
<1>2. \A i \in 1..Len(q) : q[i] \in T
    OBVIOUS
<1>3. SubSeq(q, 1, BatchSize(q)) \in Seq(T)
    BY <1>1, <1>2, SubSeqProperties
<1>4. SubSeq(q, BatchSize(q) + 1, Len(q)) \in Seq(T)
    <2>1. CASE BatchSize(q) = Len(q)
        BY <2>1, <1>1, SubSeqProperties
    <2>2. CASE BatchSize(q) < Len(q)
        BY <2>2, <1>1, <1>2, SubSeqProperties
    <2> QED BY <2>1, <2>2, <1>1
<1> QED BY <1>3, <1>4 DEF Batch, Remainder

\* What InsertRuns leaves in the two tables it writes.
LEMMA InsertRunsType ==
    ASSUME TypeOK, NEW S \in SUBSET Sessions, \A s \in S : HasRunId(s),
           NEW triggers \in [Sessions -> Seq(Payloads)],
           NEW retryOf \in 0..MaxRun, NEW attempt \in 0..MaxManualRunRetries,
           InsertRuns(S, triggers, retryOf, attempt)
    PROVE  /\ current' \in [Sessions -> 0..MaxRun]
           /\ runs' \in [Sessions -> [RunIds -> Run]]
<1>1. current' \in [Sessions -> 0..MaxRun]
    BY ConstantsAssumption DEF TypeOK, InsertRuns, HasRunId
<1>2. ASSUME NEW s \in Sessions
      PROVE  runs'[s] \in [RunIds -> Run]
    <2>1. CASE s \in S
        <3>1. current[s] + 1 \in RunIds
            BY <2>1, ConstantsAssumption DEF TypeOK, HasRunId, RunIds
        <3>2. NewRun(triggers[s], retryOf, attempt) \in Run
            BY DEF Run, NewRun
        <3> QED BY <2>1, <3>1, <3>2 DEF InsertRuns, TypeOK
    <2>2. CASE s \notin S
        BY <2>2 DEF InsertRuns, TypeOK
    <2> QED BY <2>1, <2>2
<1>3. runs' = [s \in Sessions |-> runs'[s]]
    BY DEF InsertRuns
<1> QED BY <1>1, <1>2, <1>3

\* What launchRunLocked leaves in r.active for the Runs it starts.
LEMMA LaunchType ==
    ASSUME TypeOK, NEW S \in SUBSET Sessions, \A s \in S : HasRunId(s),
           NEW trigger \in RunKinds, Launch(S, trigger)
    PROVE  /\ active' \in [Sessions -> 0..MaxRun]
           /\ canceled' \in SUBSET Sessions
           /\ phase' \in [Sessions -> RunKinds \cup {"none", "working"}]
<1>1. active' \in [Sessions -> 0..MaxRun]
    BY ConstantsAssumption DEF TypeOK, Launch, HasRunId
<1>2. canceled' \in SUBSET Sessions
    BY DEF TypeOK, Launch
<1>3. phase' \in [Sessions -> RunKinds \cup {"none", "working"}]
    BY DEF TypeOK, Launch
<1> QED BY <1>1, <1>2, <1>3

\* A Run row that persistTerminalRun has ended is still a Run row.
LEMMA EndedType ==
    ASSUME NEW r \in Run, NEW outcome \in Terminal
    PROVE  Ended(r, outcome) \in Run
BY DEF Run, Ended

\* The conditional UPDATE of runs.status keeps the table well typed.
LEMMA SetRunStatusType ==
    ASSUME TypeOK, NEW s \in Sessions, NEW i \in RunIds,
           NEW outcome \in Terminal, SetRunStatus(s, i, outcome)
    PROVE  runs' \in [Sessions -> [RunIds -> Run]]
<1>1. Ended(runs[s][i], outcome) \in Run
    BY EndedType DEF TypeOK
<1> QED BY <1>1 DEF TypeOK, SetRunStatus

\* RemoveRecordTx takes records away and adds none.
LEMMA RemoveRecordsType ==
    ASSUME TypeOK, NEW E, NEW outcome \in Outcomes, RemoveRecords(E, outcome)
    PROVE  /\ owner' \in [Events -> Sessions \cup {NoSession}]
           /\ logged' \in [Events -> SUBSET Outcomes]
BY DEF TypeOK, RemoveRecords

\* The row of a Run id that has not been used.
LEMMA NoRunType == NoRun \in Run
BY ConstantsAssumption DEF NoRun, Run

USE DEF vars, memoryVars, processVars, goVars, eventVars

\* The queued payloads and the payloads of a Run are always lists of known
\* Events and mentions; listing a set of Events gives such a list.
LEMMA ListingType ==
    ASSUME NEW S \in SUBSET Events, NEW q \in Listings(S)
    PROVE  q \in Seq(Payloads)
<1>0. Cardinality(S) \in Nat
    BY ConstantsAssumption, FS_Subset, FS_CardinalityType
<1>1. q \in [1..Cardinality(S) -> Payloads]
    BY DEF Listings, Payloads
<1> QED BY <1>0, <1>1

\* A fresh database and process are well typed.
LEMMA TypeInit == Init => TypeOK
<1> SUFFICES ASSUME Init PROVE TypeOK
    OBVIOUS
<1>1. runs \in [Sessions -> [RunIds -> Run]]
    BY NoRunType DEF Init
<1>2. restart \in [Sessions -> [run : 0..MaxRun, events : SUBSET Events,
                                pending : Seq(Payloads)]]
    BY ConstantsAssumption DEF Init, NoContext
<1>3. /\ status \in [Sessions -> {"none", "stopped", "running", "deleted"}]
      /\ current \in [Sessions -> 0..MaxRun] /\ informed \in [Sessions -> 0..MaxRun]
      /\ active \in [Sessions -> 0..MaxRun]
      /\ phase \in [Sessions -> RunKinds \cup {"none", "working"}]
    BY ConstantsAssumption DEF Init
<1>4. /\ owner \in [Events -> Sessions \cup {NoSession}]
      /\ logged \in [Events -> SUBSET Outcomes]
      /\ pending \in [Sessions -> Seq(Payloads)]
      /\ canceled \in SUBSET Sessions
    BY DEF Init
<1>5. up \in BOOLEAN /\ closed \in BOOLEAN /\ fault \in BOOLEAN
    BY DEF Init
<1> QED BY <1>1, <1>2, <1>3, <1>4, <1>5 DEF TypeOK

\* The HTTP handlers (create, start, stop, delete, retry, delete Event) keep
\* the types.
LEMMA TypeUserRequest ==
    ASSUME TypeOK, UserRequest
    PROVE  TypeOK'
<1> PICK s \in Sessions :
        \/ CreateSession(s) \/ StartSession(s)
        \/ StopSession(s) \/ DeleteSession(s)
        \/ \E i \in RunIds : RetryRun(s, i)
        \/ \E e \in Events : DeleteEventByUser(s, e)
    BY DEF UserRequest
<1>0. NoTriggers \in [Sessions -> Seq(Payloads)] /\ {s} \in SUBSET Sessions
    BY DEF NoTriggers
<1>1. CASE CreateSession(s)
    BY <1>1 DEF CreateSession, TypeOK
<1>2. CASE StartSession(s)
    <2>1. current' \in [Sessions -> 0..MaxRun] /\ runs' \in [Sessions -> [RunIds -> Run]]
        <3>1. /\ InsertRuns({s}, NoTriggers, 0, 0) /\ HasRunId(s)
              /\ 0 \in 0..MaxRun /\ 0 \in 0..MaxManualRunRetries
            BY <1>2, ConstantsAssumption DEF StartSession
        <3> QED BY <3>1, <1>0, InsertRunsType
    <2>2. /\ active' \in [Sessions -> 0..MaxRun] /\ canceled' \in SUBSET Sessions
          /\ phase' \in [Sessions -> RunKinds \cup {"none", "working"}]
        BY <1>2, <1>0, LaunchType DEF StartSession, RunKinds
    <2> QED BY <2>1, <2>2, <1>2 DEF StartSession, TypeOK
<1>3. ASSUME NEW deleting \in BOOLEAN, ChangeSessionState(s, deleting)
      PROVE  TypeOK'
    <2>1. RestartContextFor(s) \in [run : 0..MaxRun, events : SUBSET Events,
                                    pending : Seq(Payloads)]
        BY ConstantsAssumption DEF RestartContextFor, NoContext, EventsOf, TypeOK
    <2>2. runs' \in [Sessions -> [RunIds -> Run]]
        BY <1>3, SetRunStatusType DEF ChangeSessionState, RunIsRunning, Terminal, TypeOK
    <2>3. owner' \in [Events -> Sessions \cup {NoSession}] /\ logged' \in [Events -> SUBSET Outcomes]
        <3>1. CASE deleting
            BY <3>1, <1>3, RemoveRecordsType DEF ChangeSessionState, Outcomes
        <3>2. CASE ~deleting
            BY <3>2, <1>3, RemoveRecordsType DEF ChangeSessionState, Outcomes
        <3> QED BY <3>1, <3>2
    <2>4. /\ status' \in [Sessions -> {"none", "stopped", "running", "deleted"}]
          /\ restart' \in [Sessions -> [run : 0..MaxRun, events : SUBSET Events,
                                        pending : Seq(Payloads)]]
        BY <1>3, <2>1 DEF ChangeSessionState, TypeOK
    <2>5. pending' \in [Sessions -> Seq(Payloads)] /\ canceled' \in SUBSET Sessions
        BY <1>3 DEF ChangeSessionState, TypeOK
    <2>6. UNCHANGED <<current, informed, active, phase, up, closed, fault>>
        BY <1>3 DEF ChangeSessionState
    <2> QED BY <2>2, <2>3, <2>4, <2>5, <2>6 DEF TypeOK
<1>4. ASSUME NEW i \in RunIds, RetryRun(s, i)
      PROVE  TypeOK'
    <2> DEFINE of == IF runs[s][i].retryOf # 0 THEN runs[s][i].retryOf ELSE i
    <2>1. of \in 0..MaxRun /\ runs[s][i].attempt + 1 \in 0..MaxManualRunRetries
        <3>1. runs[s][i] \in Run
            BY DEF TypeOK
        <3>2. runs[s][i].retryOf \in 0..MaxRun /\ runs[s][i].attempt \in 0..MaxManualRunRetries
            BY <3>1 DEF Run
        <3> QED BY <3>2, <1>4, ConstantsAssumption DEF RetryRun, RunIds
    <2>2. current' \in [Sessions -> 0..MaxRun] /\ runs' \in [Sessions -> [RunIds -> Run]]
        <3> HIDE DEF of
        <3>1. InsertRuns({s}, NoTriggers, of, runs[s][i].attempt + 1) /\ HasRunId(s)
            BY <1>4 DEF RetryRun, of
        <3> QED BY <3>1, <2>1, <1>0, InsertRunsType
    <2>3. /\ active' \in [Sessions -> 0..MaxRun] /\ canceled' \in SUBSET Sessions
          /\ phase' \in [Sessions -> RunKinds \cup {"none", "working"}]
        BY <1>4, <1>0, LaunchType DEF RetryRun, RunKinds
    <2> QED BY <2>2, <2>3, <1>4 DEF RetryRun, TypeOK
<1>5. ASSUME NEW e \in Events, DeleteEventByUser(s, e)
      PROVE  TypeOK'
    BY <1>5, RemoveRecordsType DEF DeleteEventByUser, Outcomes, TypeOK
<1> QED BY <1>1, <1>2, <1>3, <1>4, <1>5 DEF StopSession, DeleteSession

\* The steps of a Run goroutine, from its initial context to finishActive,
\* keep the types.
LEMMA TypeRunStep ==
    ASSUME TypeOK, NEW s \in Sessions, RunStep(s)
    PROVE  TypeOK'
<1>1. CASE RunBrief(s)
    BY <1>1 DEF RunBrief, TypeOK
<1>2. ASSUME NEW e \in Events, CreateEventForRun(s, e)
      PROVE  TypeOK'
    BY <1>2 DEF CreateEventForRun, TypeOK
<1>3. ASSUME NEW e \in Events, DeleteEventForRun(s, e)
      PROVE  TypeOK'
    BY <1>3, RemoveRecordsType DEF DeleteEventForRun, Outcomes, TypeOK
<1>4. CASE RunComplete(s)
    <2>1. runs' \in [Sessions -> [RunIds -> Run]]
        BY <1>4, SetRunStatusType DEF RunComplete, RunIsRunning, Terminal
    <2> QED BY <1>4, <2>1 DEF RunComplete, TypeOK
<1>5. CASE RunFail(s)
    <2>1. runs' \in [Sessions -> [RunIds -> Run]]
        BY <1>5, SetRunStatusType DEF RunFail, RunIsRunning, Terminal
    <2> QED BY <1>5, <2>1 DEF RunFail, TypeOK
<1>6. CASE RunFinish(s)
    <2>1. CASE Dispatches(s)
        <3> DEFINE batch == [t \in Sessions |-> Batch(pending[t])]
        <3>1. batch \in [Sessions -> Seq(Payloads)] /\ {s} \in SUBSET Sessions
            BY BatchType DEF TypeOK
        <3>2. /\ InsertRuns({s}, batch, 0, 0) /\ HasRunId(s)
              /\ 0 \in 0..MaxRun /\ 0 \in 0..MaxManualRunRetries
            BY <1>6, <2>1, ConstantsAssumption DEF RunFinish
        <3>3. current' \in [Sessions -> 0..MaxRun] /\ runs' \in [Sessions -> [RunIds -> Run]]
            <4> HIDE DEF batch
            <4> QED BY <3>1, <3>2, InsertRunsType
        <3>4. /\ active' \in [Sessions -> 0..MaxRun] /\ canceled' \in SUBSET Sessions
              /\ phase' \in [Sessions -> RunKinds \cup {"none", "working"}]
            BY <1>6, <2>1, <3>1, LaunchType DEF RunFinish, RunKinds
        <3>5. pending' \in [Sessions -> Seq(Payloads)]
            <4>1. pending \in [Sessions -> Seq(Payloads)] /\ Remainder(pending[s]) \in Seq(Payloads)
                BY BatchType DEF TypeOK
            <4>2. pending' = [pending EXCEPT ![s] = Remainder(pending[s])]
                BY <1>6, <2>1 DEF RunFinish
            <4> QED BY <4>1, <4>2
        <3> QED BY <1>6, <3>3, <3>4, <3>5 DEF RunFinish, TypeOK
    <2>2. CASE ~Dispatches(s)
        <3>1. /\ active' = [active EXCEPT ![s] = 0] /\ canceled' = canceled \ {s}
              /\ phase' = [phase EXCEPT ![s] = "none"]
              /\ UNCHANGED <<status, current, restart, informed, runs, owner, logged,
                             pending, up, closed, fault>>
            BY <1>6, <2>2 DEF RunFinish
        <3> QED BY <3>1, ConstantsAssumption DEF TypeOK
    <2> QED BY <2>1, <2>2
<1> QED BY <1>1, <1>2, <1>3, <1>4, <1>5, <1>6 DEF RunStep

\* A round appends to the queues, and starts Runs with a batch each.
LEMMA TypeAdmitFired ==
    ASSUME TypeOK, NEW S \in SUBSET Sessions, NEW finished \in BOOLEAN,
           NEW arrived \in [Sessions -> Seq(Payloads)],
           AdmitFired(S, arrived, finished),
           owner' \in [Events -> Sessions \cup {NoSession}],
           logged' \in [Events -> SUBSET Outcomes]
    PROVE  TypeOK'
<1> DEFINE queue  == [s \in Sessions |-> pending[s] \o arrived[s]]
           starts == {s \in S : /\ active[s] = 0 /\ status[s] = "running"
                                /\ queue[s] # <<>>}
           batch  == [s \in Sessions |-> Batch(queue[s])]
<1>1. queue \in [Sessions -> Seq(Payloads)]
    BY DEF TypeOK
<1>2. batch \in [Sessions -> Seq(Payloads)] /\ starts \in SUBSET Sessions
    BY <1>1, BatchType
<1>3. /\ InsertRuns(starts, batch, 0, 0) /\ \A s \in starts : HasRunId(s)
      /\ 0 \in 0..MaxRun /\ 0 \in 0..MaxManualRunRetries
    <2>1. InsertRuns(starts, batch, 0, 0)
        BY Zenon DEF AdmitFired
    <2>2. \A s \in starts : HasRunId(s)
        BY Zenon DEF AdmitFired
    <2>3. 0 \in 0..MaxRun /\ 0 \in 0..MaxManualRunRetries
        BY ConstantsAssumption
    <2> QED BY <2>1, <2>2, <2>3, Zenon
<1>4. pending' \in [Sessions -> Seq(Payloads)]
    <2>1. pending' = [s \in Sessions |-> IF s \in starts THEN Remainder(queue[s]) ELSE queue[s]]
        BY DEF AdmitFired
    <2> HIDE DEF queue, starts
    <2> QED BY <2>1, <1>1, BatchType
<1>5. EndRound(starts, finished) /\ UNCHANGED <<status, restart, informed, up, closed>>
    BY DEF AdmitFired
<1> HIDE DEF queue, starts, batch
<1>6. current' \in [Sessions -> 0..MaxRun] /\ runs' \in [Sessions -> [RunIds -> Run]]
    BY <1>2, <1>3, InsertRunsType
<1>7. /\ active' \in [Sessions -> 0..MaxRun] /\ canceled' \in SUBSET Sessions
      /\ phase' \in [Sessions -> RunKinds \cup {"none", "working"}]
      /\ fault' \in BOOLEAN
    <2>1. CASE finished
        <3>1. Launch(starts, "event") /\ fault' = fault
            BY <1>5, <2>1 DEF EndRound
        <3>2. "event" \in RunKinds
            BY DEF RunKinds
        <3> QED BY <3>1, <3>2, <1>2, <1>3, LaunchType DEF TypeOK
    <2>2. CASE ~finished
        BY <1>5, <2>2 DEF EndRound, CancelAll, TypeOK
    <2> QED BY <2>1, <2>2
<1> QED BY <1>4, <1>5, <1>6, <1>7 DEF TypeOK

\* What a round's triggers add to the queues is lists of payloads.
LEMMA ArrivalsType ==
    ASSUME NEW F \in SUBSET Events, NEW a \in Arrivals(F)
    PROVE  a \in [Sessions -> Seq(Payloads)]
<1>1. \A s \in Sessions : a[s] \in Seq(Payloads)
    BY ListingType DEF Arrivals, EventsOf
<1>2. a = [s \in Sessions |-> a[s]]
    BY DEF Arrivals
<1> QED BY <1>1, <1>2

\* The Event rounds and the chat poll keep the types.
LEMMA TypeBackground ==
    ASSUME TypeOK, Background
    PROVE  TypeOK'
<1> PICK finished \in BOOLEAN :
        \/ \E X, F \in SUBSET Events : EventRound(X, F, finished)
        \/ \E s \in Sessions : ChatWake(s, finished)
    BY DEF Background
<1>1. ASSUME NEW X \in SUBSET Events, NEW F \in SUBSET Events,
             EventRound(X, F, finished)
      PROVE  TypeOK'
    <2>1. PICK a \in Arrivals(F) :
              AdmitFired({s \in Sessions : EventsOf(s) \cap F # {}}, a, finished)
        BY <1>1 DEF EventRound
    <2>2. owner' \in [Events -> Sessions \cup {NoSession}]
        BY <1>1 DEF EventRound, TypeOK
    <2>3. logged' \in [Events -> SUBSET Outcomes]
        BY <1>1 DEF EventRound, TypeOK, Outcomes
    <2> QED BY <2>1, <2>2, <2>3, ArrivalsType, TypeAdmitFired
<1>2. ASSUME NEW s \in Sessions, ChatWake(s, finished)
      PROVE  TypeOK'
    <2> DEFINE a == [t \in Sessions |-> IF t = s THEN <<Mention>> ELSE <<>>]
    <2>1. a \in [Sessions -> Seq(Payloads)] /\ {s} \in SUBSET Sessions
        BY DEF Payloads
    <2>2. /\ AdmitFired({s}, a, finished)
          /\ owner' \in [Events -> Sessions \cup {NoSession}]
          /\ logged' \in [Events -> SUBSET Outcomes]
        BY <1>2 DEF ChatWake, TypeOK
    <2> HIDE DEF a
    <2> QED BY <2>1, <2>2, TypeAdmitFired
<1> QED BY <1>1, <1>2

\* Persistence faults, shutdown, crash and OpenAgentRuntime keep the types.
LEMMA TypeProcessStep ==
    ASSUME TypeOK, ProcessStep
    PROVE  TypeOK'
<1>1. CASE LatchFault
    BY <1>1 DEF LatchFault, CancelAll, TypeOK
<1>2. ASSUME NEW unsaved \in SUBSET Sessions, Quiesce(unsaved)
      PROVE  TypeOK'
    <2>1. ASSUME NEW s \in Sessions
          PROVE  runs'[s] \in [RunIds -> Run]
        <3>1. CASE s \notin unsaved /\ RunIsRunning(s, active[s])
            <4>1. active[s] \in RunIds /\ runs[s] \in [RunIds -> Run]
                BY <3>1 DEF RunIsRunning, TypeOK
            <4>2. Ended(runs[s][active[s]], "interrupted") \in Run
                BY <4>1, EndedType DEF Terminal
            <4> QED BY <1>2, <3>1, <4>1, <4>2 DEF Quiesce
        <3>2. CASE ~(s \notin unsaved /\ RunIsRunning(s, active[s]))
            BY <1>2, <3>2 DEF Quiesce, TypeOK
        <3> QED BY <3>1, <3>2
    <2>2. runs' = [s \in Sessions |-> runs'[s]]
        BY <1>2 DEF Quiesce
    <2>3. runs' \in [Sessions -> [RunIds -> Run]]
        BY <2>1, <2>2
    <2> QED BY <1>2, <2>3 DEF Quiesce, CancelAll, TypeOK
<1>3. CASE Exit
    BY <1>3 DEF Exit, TypeOK
<1>4. CASE Crash
    <2>1. active' \in [Sessions -> 0..MaxRun]
        BY <1>4, ConstantsAssumption DEF Crash
    <2>2. phase' \in [Sessions -> RunKinds \cup {"none", "working"}] /\ canceled' \in SUBSET Sessions
        BY <1>4 DEF Crash
    <2>3. up' \in BOOLEAN /\ closed' \in BOOLEAN /\ fault' \in BOOLEAN
        BY <1>4 DEF Crash
    <2>4. UNCHANGED <<status, current, restart, informed, runs, owner, logged, pending>>
        BY <1>4 DEF Crash
    <2> QED BY <2>1, <2>2, <2>3, <2>4 DEF TypeOK
<1>5. ASSUME NEW finished \in BOOLEAN, Boot(finished)
      PROVE  TypeOK'
    <2> DEFINE starts == {s \in Sessions : status[s] = "running"}
    <2>1. \A s \in starts : HasRunId(s)
        BY <1>5 DEF Boot
    <2>2. current' \in [Sessions -> 0..MaxRun]
        BY <1>5, <2>1, ConstantsAssumption DEF Boot, HasRunId, TypeOK
    <2>3. ASSUME NEW s \in Sessions, NEW i \in RunIds
          PROVE  runs'[s][i] \in Run
        <3>1. NewRun(<<>>, 0, 0) \in Run
            BY ConstantsAssumption DEF NewRun, Run
        <3>2. runs[s][i] \in Run /\ Ended(runs[s][i], "interrupted") \in Run
            BY EndedType DEF TypeOK, Terminal
        <3> QED BY <1>5, <3>1, <3>2 DEF Boot
    <2>4. runs' = [s \in Sessions |-> [i \in RunIds |-> runs'[s][i]]]
        BY <1>5 DEF Boot
    <2>5. runs' \in [Sessions -> [RunIds -> Run]]
        BY <2>3, <2>4
    <2>6. /\ active' \in [Sessions -> 0..MaxRun] /\ canceled' \in SUBSET Sessions
          /\ phase' \in [Sessions -> RunKinds \cup {"none", "working"}]
        <3>1. CASE finished
            <4>1. Launch(starts, "server_recovery") /\ starts \in SUBSET Sessions
                BY <1>5, <3>1 DEF Boot
            <4>2. "server_recovery" \in RunKinds
                BY DEF RunKinds
            <4> HIDE DEF starts
            <4> QED BY <4>1, <4>2, <2>1, LaunchType
        <3>2. CASE ~finished
            BY <1>5, <3>2 DEF Boot, TypeOK
        <3> QED BY <3>1, <3>2
    <2>7. /\ UNCHANGED <<status, restart, informed, owner, logged, pending, closed, fault>>
          /\ up' = finished
        BY <1>5 DEF Boot
    <2> QED BY <2>2, <2>5, <2>6, <2>7 DEF TypeOK
<1> QED BY <1>1, <1>2, <1>3, <1>4, <1>5 DEF ProcessStep

\* Every step of the runtime keeps the types.
LEMMA TypeNext == TypeOK /\ [Next]_vars => TypeOK'
<1> SUFFICES ASSUME TypeOK, [Next]_vars PROVE TypeOK'
    OBVIOUS
<1>1. CASE UNCHANGED vars
    BY <1>1 DEF TypeOK
<1> QED BY <1>1, TypeUserRequest, TypeRunStep, TypeBackground, TypeProcessStep DEF Next

\* Every variable keeps its type in every reachable state.
THEOREM TypeCorrect == Spec => []TypeOK
BY TypeInit, TypeNext, PTL DEF Spec

-----------------------------------------------------------------------------
(* The lifecycle invariant. *)

\* r.active only ever holds the Session's latest Run, and only in a process
\* that is up.
ActiveIsCurrent ==
    \A s \in Sessions : active[s] # 0 => up /\ active[s] = current[s]

\* There is no Run row beyond sessions.current_run_id.
RowsEndAtCurrent ==
    \A s \in Sessions, i \in RunIds :
        i > current[s] => runs[s][i].status = "none"

\* Inductive: the three safety invariants need each other (a Run is driven only
\* if a stopped Session has none, and a stopped Session stays quiet only if the
\* goroutine that could write for it has lost its running row), and the two
\* facts above tie the process's map to the table.
Lifecycle ==
    /\ TypeOK
    /\ ActiveIsCurrent
    /\ RowsEndAtCurrent
    /\ RunningRunIsDriven
    /\ StoppedSessionIsQuiet
    /\ NoStrandedTrigger

\* The status column after InsertRuns.
LEMMA InsertRunsStatus ==
    ASSUME TypeOK, NEW S \in SUBSET Sessions, \A s \in S : HasRunId(s),
           NEW triggers, NEW retryOf, NEW attempt,
           InsertRuns(S, triggers, retryOf, attempt)
    PROVE  \A s \in Sessions, i \in RunIds :
             runs'[s][i].status = IF s \in S /\ i = current[s] + 1
                                  THEN "running" ELSE runs[s][i].status
<1> TAKE s \in Sessions, i \in RunIds
<1>0. runs[s] \in [RunIds -> Run] /\ current[s] \in 0..MaxRun
    BY DEF TypeOK
<1>1. CASE s \in S
    <2>1. runs'[s] = [runs[s] EXCEPT ![current[s] + 1] =
                        NewRun(triggers[s], retryOf, attempt)]
        BY <1>1 DEF InsertRuns
    <2>2. NewRun(triggers[s], retryOf, attempt).status = "running"
        BY DEF NewRun
    <2> QED BY <1>0, <1>1, <2>1, <2>2
<1>2. CASE s \notin S
    BY <1>2 DEF InsertRuns
<1> QED BY <1>1, <1>2

\* The status column after SetRunStatus.
LEMMA SetRunStatusStatus ==
    ASSUME TypeOK, NEW s \in Sessions, NEW i \in RunIds, NEW outcome,
           SetRunStatus(s, i, outcome)
    PROVE  \A t \in Sessions, j \in RunIds :
             runs'[t][j].status = IF t = s /\ j = i THEN outcome
                                                    ELSE runs[t][j].status
<1>1. Ended(runs[s][i], outcome).status = outcome
    BY DEF Ended
<1>2. runs' = [runs EXCEPT ![s][i] = Ended(runs[s][i], outcome)]
    BY DEF SetRunStatus
<1> QED BY <1>1, <1>2 DEF TypeOK

\* Inserting and launching a Run for Sessions that have none running keeps the
\* goroutines and the Run rows together.
LEMMA LaunchDrives ==
    ASSUME Lifecycle, up, UNCHANGED <<up, fault>>,
           NEW S \in SUBSET Sessions, \A s \in S : HasRunId(s),
           \A s \in S, i \in RunIds : runs[s][i].status # "running",
           NEW triggers, NEW retryOf, NEW attempt, NEW trigger,
           InsertRuns(S, triggers, retryOf, attempt),
           Launch(S, trigger)
    PROVE  ActiveIsCurrent' /\ RowsEndAtCurrent' /\ RunningRunIsDriven'
<1>1. \A s \in Sessions, i \in RunIds :
             runs'[s][i].status = IF s \in S /\ i = current[s] + 1
                                  THEN "running" ELSE runs[s][i].status
    BY InsertRunsStatus DEF Lifecycle
<1>2. \A s \in Sessions : /\ current[s] \in 0..MaxRun
                          /\ active[s] \in 0..MaxRun
    BY DEF Lifecycle, TypeOK
<1>3. \A s \in Sessions :
        /\ current'[s] = IF s \in S THEN current[s] + 1 ELSE current[s]
        /\ active'[s] = IF s \in S THEN current[s] + 1 ELSE active[s]
        /\ s \in canceled' => s \in canceled /\ s \notin S
    BY DEF InsertRuns, Launch
<1>4. ActiveIsCurrent'
    BY <1>2, <1>3 DEF Lifecycle, ActiveIsCurrent
<1>5. RowsEndAtCurrent'
    BY <1>1, <1>2, <1>3, ConstantsAssumption DEF Lifecycle, RowsEndAtCurrent, RunIds
<1>6. RunningRunIsDriven'
    BY <1>1, <1>2, <1>3 DEF Lifecycle, RunningRunIsDriven, RunIds
<1> QED BY <1>4, <1>5, <1>6

\* Ending a running Run, whoever does it, breaks nothing that ties goroutines
\* to rows, as long as the goroutines stay.
LEMMA EndKeepsDriven ==
    ASSUME Lifecycle, UNCHANGED <<current, active, canceled, up, fault>>,
           NEW s \in Sessions, NEW i \in RunIds, NEW outcome \in Terminal,
           RunIsRunning(s, i), SetRunStatus(s, i, outcome)
    PROVE  ActiveIsCurrent' /\ RowsEndAtCurrent' /\ RunningRunIsDriven'
<1>1. \A t \in Sessions, j \in RunIds :
             runs'[t][j].status = IF t = s /\ j = i THEN outcome
                                                    ELSE runs[t][j].status
    BY SetRunStatusStatus DEF Lifecycle
<1>2. outcome # "running" /\ outcome # "none"
    BY DEF Terminal
<1>3. ActiveIsCurrent'
    BY DEF Lifecycle, ActiveIsCurrent
<1>4. RowsEndAtCurrent'
    BY <1>1 DEF Lifecycle, RowsEndAtCurrent, RunIsRunning
<1>5. RunningRunIsDriven'
    BY <1>1, <1>2 DEF Lifecycle, RunningRunIsDriven
<1> QED BY <1>3, <1>4, <1>5

\* A fresh database and process satisfy the lifecycle invariant.
LEMMA LifecycleInit == Init => Lifecycle
<1> SUFFICES ASSUME Init PROVE Lifecycle
    OBVIOUS
<1>1. TypeOK
    BY TypeInit
<1>2. \A s \in Sessions, i \in RunIds : runs[s][i].status = "none"
    BY DEF Init, NoRun
<1>3. ActiveIsCurrent /\ RowsEndAtCurrent /\ RunningRunIsDriven
    BY <1>2 DEF Init, ActiveIsCurrent, RowsEndAtCurrent, RunningRunIsDriven
<1>4. StoppedSessionIsQuiet
    BY <1>2, ConstantsAssumption DEF Init, StoppedSessionIsQuiet, EventsOf
<1>5. NoStrandedTrigger
    BY DEF Init, NoStrandedTrigger
<1> QED BY <1>1, <1>3, <1>4, <1>5 DEF Lifecycle

\* The user's requests keep the lifecycle invariant.
LEMMA LifecycleUserRequest ==
    ASSUME Lifecycle, UserRequest
    PROVE  Lifecycle'
<1>0. TypeOK'
    BY TypeUserRequest DEF Lifecycle
<1> PICK s \in Sessions :
        \/ CreateSession(s) \/ StartSession(s)
        \/ StopSession(s) \/ DeleteSession(s)
        \/ \E i \in RunIds : RetryRun(s, i)
        \/ \E e \in Events : DeleteEventByUser(s, e)
    BY DEF UserRequest
<1>a. /\ status \in [Sessions -> {"none", "stopped", "running", "deleted"}]
      /\ active \in [Sessions -> 0..MaxRun] /\ current \in [Sessions -> 0..MaxRun]
    BY DEF Lifecycle, TypeOK
<1>1. CASE CreateSession(s)
    <2>1. \A t \in Sessions : status'[t] = "running" <=> status[t] = "running"
        BY <1>1, <1>a DEF CreateSession
    <2>2. UNCHANGED <<current, runs, owner, pending, active, canceled, up, closed, fault>>
        BY <1>1 DEF CreateSession
    <2>3. ActiveIsCurrent' /\ RowsEndAtCurrent' /\ RunningRunIsDriven'
        BY <2>2 DEF Lifecycle, ActiveIsCurrent, RowsEndAtCurrent, RunningRunIsDriven
    <2>4. StoppedSessionIsQuiet' /\ NoStrandedTrigger'
        BY <2>1, <2>2 DEF Lifecycle, StoppedSessionIsQuiet, NoStrandedTrigger, EventsOf, Healthy
    <2> QED BY <1>0, <2>3, <2>4 DEF Lifecycle
<1>2. CASE StartSession(s)
    <2>1. /\ InsertRuns({s}, NoTriggers, 0, 0) /\ HasRunId(s) /\ up
          /\ Launch({s}, IF current[s] = 0 THEN "session_start" ELSE "session_restart")
          /\ UNCHANGED <<owner, pending, up, closed, fault>>
        BY <1>2 DEF StartSession, Healthy
    <2>2. \A i \in RunIds : runs[s][i].status # "running"
        BY <1>2 DEF StartSession, Lifecycle, StoppedSessionIsQuiet
    <2>3. ActiveIsCurrent' /\ RowsEndAtCurrent' /\ RunningRunIsDriven'
        BY <2>1, <2>2, LaunchDrives
    <2>4. \A t \in Sessions : /\ status'[t] = IF t = s THEN "running" ELSE status[t]
                              /\ active'[t] = IF t = s THEN current[s] + 1 ELSE active[t]
        BY <1>2, <1>a DEF StartSession, Launch
    <2>5. \A t \in Sessions : t # s => runs'[t] = runs[t]
        BY <2>1 DEF InsertRuns
    <2>6. StoppedSessionIsQuiet'
        BY <2>1, <2>4, <2>5 DEF Lifecycle, StoppedSessionIsQuiet, EventsOf
    <2>7. NoStrandedTrigger'
        BY <2>1, <2>4, <1>a DEF Lifecycle, NoStrandedTrigger, Healthy
    <2> QED BY <1>0, <2>3, <2>6, <2>7 DEF Lifecycle
<1>3. ASSUME NEW deleting \in BOOLEAN, ChangeSessionState(s, deleting)
      PROVE  Lifecycle'
    <2> DEFINE next == IF deleting THEN "deleted" ELSE "stopped"
    <2>1. \A t \in Sessions : status'[t] = IF t = s THEN next ELSE status[t]
        BY <1>3, <1>a DEF ChangeSessionState
    <2>1a. next # "running"
        OBVIOUS
    <2> HIDE DEF next
    <2>2. /\ UNCHANGED <<current, active, up, closed, fault>> /\ up /\ ~fault
          /\ canceled' \subseteq canceled \cup {s}
          /\ \A t \in Sessions : pending'[t] = IF t = s THEN <<>> ELSE pending[t]
        BY <1>3 DEF ChangeSessionState, Healthy, Lifecycle, TypeOK
    <2>3. \A e \in Events : owner'[e] = IF owner[e] = s THEN NoSession ELSE owner[e]
        BY <1>3 DEF ChangeSessionState, RemoveRecords, EventsOf
    <2>4. \A t \in Sessions, i \in RunIds :
            /\ runs'[t][i].status = "running" => t # s /\ runs[t][i].status = "running"
            /\ runs[t][i].status = "none" => runs'[t][i].status = "none"
        <3>1. CASE status[s] = "running" /\ RunIsRunning(s, current[s])
            <4>1. SetRunStatus(s, current[s], "interrupted") /\ current[s] \in RunIds
                BY <1>3, <3>1 DEF ChangeSessionState, RunIsRunning
            <4>2. \A t \in Sessions, j \in RunIds :
                     runs'[t][j].status = IF t = s /\ j = current[s] THEN "interrupted"
                                                                     ELSE runs[t][j].status
                BY <4>1, SetRunStatusStatus DEF Lifecycle
            <4> QED BY <3>1, <4>2 DEF Lifecycle, RunningRunIsDriven, RunIsRunning
        <3>2. CASE ~(status[s] = "running" /\ RunIsRunning(s, current[s]))
            <4>1. runs' = runs
                BY <1>3, <3>2 DEF ChangeSessionState
            <4>2. \A i \in RunIds : runs[s][i].status # "running"
                BY <3>2 DEF Lifecycle, RunningRunIsDriven, StoppedSessionIsQuiet, RunIsRunning
            <4> QED BY <4>1, <4>2
        <3> QED BY <3>1, <3>2
    <2>5. ActiveIsCurrent'
        BY <2>2 DEF Lifecycle, ActiveIsCurrent
    <2>6. RowsEndAtCurrent'
        BY <2>2, <2>4 DEF Lifecycle, RowsEndAtCurrent
    <2>7. RunningRunIsDriven'
        BY <2>2, <2>4 DEF Lifecycle, RunningRunIsDriven
    <2>8. StoppedSessionIsQuiet'
        BY <2>1, <2>2, <2>3, <2>4, ConstantsAssumption
        DEF Lifecycle, StoppedSessionIsQuiet, EventsOf
    <2>9. NoStrandedTrigger'
        BY <2>1, <2>1a, <2>2 DEF Lifecycle, NoStrandedTrigger, Healthy
    <2> QED BY <1>0, <2>5, <2>6, <2>7, <2>8, <2>9 DEF Lifecycle
<1>4. ASSUME NEW i \in RunIds, RetryRun(s, i)
      PROVE  Lifecycle'
    <2> DEFINE of == IF runs[s][i].retryOf # 0 THEN runs[s][i].retryOf ELSE i
    <2>1. /\ InsertRuns({s}, NoTriggers, of, runs[s][i].attempt + 1)
          /\ HasRunId(s) /\ up /\ Launch({s}, "manual_retry")
          /\ UNCHANGED <<status, owner, pending, up, closed, fault>>
        BY <1>4 DEF RetryRun, Healthy
    <2>2. \A j \in RunIds : runs[s][j].status # "running"
        BY <1>4 DEF RetryRun, Lifecycle, RunningRunIsDriven
    <2> HIDE DEF of
    <2>3. ActiveIsCurrent' /\ RowsEndAtCurrent' /\ RunningRunIsDriven'
        BY <2>1, <2>2, LaunchDrives
    <2>4. /\ status[s] = "running"
          /\ \A t \in Sessions : /\ active'[t] = IF t = s THEN current[s] + 1 ELSE active[t]
                                 /\ t # s => runs'[t] = runs[t]
        BY <1>4, <2>1 DEF RetryRun, Launch, InsertRuns
    <2>5. StoppedSessionIsQuiet'
        BY <2>1, <2>4 DEF Lifecycle, StoppedSessionIsQuiet, EventsOf
    <2>6. NoStrandedTrigger'
        BY <2>1, <2>4, <1>a DEF Lifecycle, NoStrandedTrigger, Healthy
    <2> QED BY <1>0, <2>3, <2>5, <2>6 DEF Lifecycle
<1>5. ASSUME NEW e \in Events, DeleteEventByUser(s, e)
      PROVE  Lifecycle'
    <2>1. /\ UNCHANGED <<status, current, runs, pending, active, canceled, up, closed, fault>>
          /\ \A d \in Events : owner'[d] = NoSession \/ owner'[d] = owner[d]
        BY <1>5 DEF DeleteEventByUser, RemoveRecords
    <2>2. ActiveIsCurrent' /\ RowsEndAtCurrent' /\ RunningRunIsDriven' /\ NoStrandedTrigger'
        BY <2>1 DEF Lifecycle, ActiveIsCurrent, RowsEndAtCurrent, RunningRunIsDriven,
                    NoStrandedTrigger, Healthy
    <2>3. StoppedSessionIsQuiet'
        BY <2>1, ConstantsAssumption DEF Lifecycle, StoppedSessionIsQuiet, EventsOf
    <2> QED BY <1>0, <2>2, <2>3 DEF Lifecycle
<1> QED BY <1>1, <1>2, <1>3, <1>4, <1>5 DEF StopSession, DeleteSession

\* The Run goroutine keeps the lifecycle invariant, also when it is late.
LEMMA LifecycleRunStep ==
    ASSUME Lifecycle, NEW s \in Sessions, RunStep(s)
    PROVE  Lifecycle'
<1>0. TypeOK'
    BY TypeRunStep DEF Lifecycle
<1>a. /\ active \in [Sessions -> 0..MaxRun] /\ current \in [Sessions -> 0..MaxRun]
      /\ pending \in [Sessions -> Seq(Payloads)]
    BY DEF Lifecycle, TypeOK
<1>1. CASE RunBrief(s)
    <2>1. UNCHANGED <<status, current, runs, owner, pending, active, canceled, up, closed, fault>>
        BY <1>1 DEF RunBrief
    <2> QED BY <1>0, <2>1 DEF Lifecycle, ActiveIsCurrent, RowsEndAtCurrent,
            RunningRunIsDriven, StoppedSessionIsQuiet, NoStrandedTrigger, Healthy, EventsOf
<1>2. ASSUME NEW e \in Events, CreateEventForRun(s, e)
      PROVE  Lifecycle'
    <2>1. /\ UNCHANGED <<status, current, runs, pending, active, canceled, up, closed, fault>>
          /\ \A d \in Events : owner'[d] = IF d = e THEN s ELSE owner[d]
        BY <1>2 DEF CreateEventForRun, Lifecycle, TypeOK
    <2>2. status[s] = "running"
        BY <1>2 DEF CreateEventForRun, EventToolAllowed, RunIsRunning, Lifecycle,
                    StoppedSessionIsQuiet
    <2>3. ActiveIsCurrent' /\ RowsEndAtCurrent' /\ RunningRunIsDriven' /\ NoStrandedTrigger'
        BY <2>1 DEF Lifecycle, ActiveIsCurrent, RowsEndAtCurrent, RunningRunIsDriven,
                    NoStrandedTrigger, Healthy
    <2>4. StoppedSessionIsQuiet'
        BY <2>1, <2>2 DEF Lifecycle, StoppedSessionIsQuiet, EventsOf
    <2> QED BY <1>0, <2>3, <2>4 DEF Lifecycle
<1>3. ASSUME NEW e \in Events, DeleteEventForRun(s, e)
      PROVE  Lifecycle'
    <2>1. /\ UNCHANGED <<status, current, runs, pending, active, canceled, up, closed, fault>>
          /\ \A d \in Events : owner'[d] = NoSession \/ owner'[d] = owner[d]
        BY <1>3 DEF DeleteEventForRun, RemoveRecords
    <2>2. ActiveIsCurrent' /\ RowsEndAtCurrent' /\ RunningRunIsDriven' /\ NoStrandedTrigger'
        BY <2>1 DEF Lifecycle, ActiveIsCurrent, RowsEndAtCurrent, RunningRunIsDriven,
                    NoStrandedTrigger, Healthy
    <2>3. StoppedSessionIsQuiet'
        BY <2>1, ConstantsAssumption DEF Lifecycle, StoppedSessionIsQuiet, EventsOf
    <2> QED BY <1>0, <2>2, <2>3 DEF Lifecycle
<1>4. ASSUME NEW outcome \in Terminal, RunIsRunning(s, active[s]),
             SetRunStatus(s, active[s], outcome),
             UNCHANGED <<status, current, owner, pending, active, canceled, up, closed, fault>>
      PROVE  Lifecycle'
    <2>1. active[s] \in RunIds
        BY <1>4 DEF RunIsRunning
    <2>2. ActiveIsCurrent' /\ RowsEndAtCurrent' /\ RunningRunIsDriven'
        BY <1>4, <2>1, EndKeepsDriven
    <2>3. \A t \in Sessions, j \in RunIds :
             runs'[t][j].status = IF t = s /\ j = active[s] THEN outcome
                                                            ELSE runs[t][j].status
        BY <1>4, <2>1, SetRunStatusStatus DEF Lifecycle
    <2>4. StoppedSessionIsQuiet' /\ NoStrandedTrigger'
        BY <1>4, <2>3 DEF Lifecycle, StoppedSessionIsQuiet, NoStrandedTrigger, Healthy,
                          EventsOf, Terminal
    <2> QED BY <1>0, <2>2, <2>4 DEF Lifecycle
<1>5. CASE RunComplete(s)
    BY <1>4, <1>5 DEF RunComplete, Terminal
<1>6. CASE RunFail(s)
    BY <1>4, <1>6 DEF RunFail, Terminal
<1>7. CASE RunFinish(s)
    <2>0. UNCHANGED <<status, owner, up, closed, fault>> /\ up /\ active[s] # 0
        BY <1>7 DEF RunFinish, Driven
    <2>1. CASE Dispatches(s)
        <3> DEFINE batch == [t \in Sessions |-> Batch(pending[t])]
        <3>1. /\ InsertRuns({s}, batch, 0, 0) /\ HasRunId(s) /\ Launch({s}, "event")
              /\ pending' = [pending EXCEPT ![s] = Remainder(@)] /\ ~fault
              /\ status[s] = "running"
            BY <1>7, <2>1 DEF RunFinish, Dispatches, Healthy
        <3> HIDE DEF batch
        \* A running Run would be this goroutine's, and it would not be leaving.
        <3>2. \A i \in RunIds : runs[s][i].status # "running"
            BY <1>7, <2>0, <3>1 DEF RunFinish, Leaves, RunIsRunning, Lifecycle,
                                    RunningRunIsDriven
        <3>3. ActiveIsCurrent' /\ RowsEndAtCurrent' /\ RunningRunIsDriven'
            BY <2>0, <3>1, <3>2, LaunchDrives
        <3>4. \A t \in Sessions :
                /\ active'[t] = IF t = s THEN current[s] + 1 ELSE active[t]
                /\ t # s => runs'[t] = runs[t] /\ pending'[t] = pending[t]
            BY <3>1, <1>a DEF Launch, InsertRuns
        <3>5. StoppedSessionIsQuiet'
            BY <2>0, <3>1, <3>4 DEF Lifecycle, StoppedSessionIsQuiet, EventsOf
        <3>6. NoStrandedTrigger'
            BY <2>0, <3>4, <1>a DEF Lifecycle, NoStrandedTrigger, Healthy
        <3> QED BY <1>0, <3>3, <3>5, <3>6 DEF Lifecycle
    <2>2. CASE ~Dispatches(s)
        <3>1. /\ \A t \in Sessions : active'[t] = IF t = s THEN 0 ELSE active[t]
              /\ canceled' = canceled \ {s} /\ UNCHANGED <<current, runs, pending>>
            BY <1>7, <2>2, <1>a DEF RunFinish
        <3>2. \A i \in RunIds : ~fault => runs[s][i].status # "running"
            BY <1>7, <2>0 DEF RunFinish, Leaves, RunIsRunning, Lifecycle, RunningRunIsDriven
        <3>3. ActiveIsCurrent' /\ RowsEndAtCurrent' /\ RunningRunIsDriven'
            BY <2>0, <3>1, <3>2 DEF Lifecycle, ActiveIsCurrent, RowsEndAtCurrent,
                                    RunningRunIsDriven
        <3>4. StoppedSessionIsQuiet' /\ NoStrandedTrigger'
            BY <2>0, <2>2, <3>1 DEF Lifecycle, StoppedSessionIsQuiet, EventsOf,
                                    NoStrandedTrigger, Healthy, Dispatches
        <3> QED BY <1>0, <3>3, <3>4 DEF Lifecycle
    <2> QED BY <2>1, <2>2
<1> QED BY <1>1, <1>2, <1>3, <1>5, <1>6, <1>7 DEF RunStep

\* A background round whose triggers are all for running Sessions in S keeps
\* the lifecycle invariant: it starts every idle one or latches a fault.
LEMMA LifecycleAdmitFired ==
    ASSUME Lifecycle, Healthy, NEW S \in SUBSET Sessions, NEW finished \in BOOLEAN,
           NEW arrived \in [Sessions -> Seq(Payloads)],
           \A s \in S : status[s] = "running",
           \A s \in Sessions \ S : arrived[s] = <<>>,
           AdmitFired(S, arrived, finished),
           \A e \in Events : owner'[e] = NoSession \/ owner'[e] = owner[e],
           TypeOK'
    PROVE  Lifecycle'
<1> DEFINE queue  == [s \in Sessions |-> pending[s] \o arrived[s]]
           starts == {s \in S : /\ active[s] = 0 /\ status[s] = "running"
                                /\ queue[s] # <<>>}
           batch  == [s \in Sessions |-> Batch(queue[s])]
<1>1. InsertRuns(starts, batch, 0, 0)
    BY Zenon DEF AdmitFired
<1>2. \A s \in starts : HasRunId(s)
    BY Zenon DEF AdmitFired
<1>3. \A s \in Sessions : pending'[s] = IF s \in starts THEN Remainder(queue[s]) ELSE queue[s]
    BY DEF AdmitFired
<1>4. EndRound(starts, finished) /\ UNCHANGED <<status, up, closed>>
    BY DEF AdmitFired
<1>5. starts \in SUBSET Sessions
    OBVIOUS
<1>6. \A s \in starts : status[s] = "running" /\ active[s] = 0 /\ s \in S
    OBVIOUS
<1>7. \A s \in S : s \notin starts => active[s] # 0 \/ queue[s] = <<>>
    OBVIOUS
<1>8. \A s \in Sessions \ S : queue[s] = pending[s]
    <2>1. \A s \in Sessions : pending[s] \in Seq(Payloads)
        BY DEF Lifecycle, TypeOK
    <2>2. \A q \in Seq(Payloads) : q \o <<>> = q
        OBVIOUS
    <2> QED BY <2>1, <2>2
<1> HIDE DEF queue, starts, batch
<1>9. up /\ ~fault
    BY DEF Healthy
<1>10. \A s \in starts, i \in RunIds : runs[s][i].status # "running"
    <2> SUFFICES ASSUME NEW s \in starts, NEW i \in RunIds, runs[s][i].status = "running"
                 PROVE  FALSE
        OBVIOUS
    <2>1. active[s] = i
        BY <1>5, <1>9 DEF Lifecycle, RunningRunIsDriven
    <2> QED BY <2>1, <1>6, ConstantsAssumption DEF RunIds
<1>11. \A s \in Sessions, i \in RunIds :
             runs'[s][i].status = IF s \in starts /\ i = current[s] + 1
                                  THEN "running" ELSE runs[s][i].status
    BY <1>1, <1>2, <1>5, InsertRunsStatus DEF Lifecycle
<1>a. \A s \in Sessions : current[s] \in 0..MaxRun /\ active[s] \in 0..MaxRun
    BY DEF Lifecycle, TypeOK
<1>12. StoppedSessionIsQuiet'
    <2> SUFFICES ASSUME NEW s \in Sessions, status'[s] # "running"
                 PROVE  /\ EventsOf(s)' = {} /\ pending'[s] = <<>>
                        /\ \A i \in RunIds : runs'[s][i].status # "running"
        BY DEF StoppedSessionIsQuiet
    <2>1. status[s] # "running" /\ s \notin starts /\ s \in Sessions \ S
        BY <1>4, <1>6
    <2>2. EventsOf(s)' = {}
        BY <2>1, ConstantsAssumption DEF Lifecycle, StoppedSessionIsQuiet, EventsOf
    <2>3. pending'[s] = <<>>
        BY <2>1, <1>3, <1>8 DEF Lifecycle, StoppedSessionIsQuiet
    <2>4. \A i \in RunIds : runs'[s][i].status # "running"
        BY <2>1, <1>11 DEF Lifecycle, StoppedSessionIsQuiet
    <2> QED BY <2>2, <2>3, <2>4
<1>13. CASE finished
    <2>1. Launch(starts, "event") /\ UNCHANGED fault
        BY <1>4, <1>13 DEF EndRound
    <2>2. ActiveIsCurrent' /\ RowsEndAtCurrent' /\ RunningRunIsDriven'
        BY <2>1, <1>1, <1>2, <1>4, <1>5, <1>9, <1>10, LaunchDrives
    <2>3. \A s \in Sessions : active'[s] = IF s \in starts THEN current[s] + 1 ELSE active[s]
        BY <2>1 DEF Launch
    <2>4. NoStrandedTrigger'
        <3> SUFFICES ASSUME NEW s \in Sessions, status'[s] = "running", active'[s] = 0
                     PROVE  pending'[s] = <<>>
            BY DEF NoStrandedTrigger
        <3>1. s \notin starts /\ active[s] = 0
            BY <2>3, <1>a
        <3>2. CASE s \in S
            BY <3>1, <3>2, <1>3, <1>7
        <3>3. CASE s \notin S
            BY <3>1, <3>3, <1>3, <1>4, <1>8 DEF Lifecycle, NoStrandedTrigger
        <3> QED BY <3>2, <3>3
    <2> QED BY <2>2, <2>4, <1>12 DEF Lifecycle
<1>14. CASE ~finished
    <2>1. fault' = TRUE /\ UNCHANGED <<active, up>>
        BY <1>4, <1>14 DEF EndRound
    <2>2. NoStrandedTrigger'
        BY <2>1 DEF NoStrandedTrigger, Healthy
    <2>3. \A s \in Sessions : current'[s] = IF s \in starts THEN current[s] + 1 ELSE current[s]
        BY <1>1 DEF InsertRuns
    <2>4. ActiveIsCurrent'
        BY <2>1, <2>3, <1>5, <1>6 DEF Lifecycle, ActiveIsCurrent
    <2>5. RowsEndAtCurrent'
        BY <2>3, <1>11, <1>a, ConstantsAssumption DEF Lifecycle, RowsEndAtCurrent, RunIds
    <2>6. RunningRunIsDriven'
        BY <2>1, <2>3, <1>10, <1>11, <1>a DEF Lifecycle, RunningRunIsDriven
    <2> QED BY <2>2, <2>4, <2>5, <2>6, <1>12 DEF Lifecycle
<1> QED BY <1>13, <1>14

\* Nothing is listed for a Session none of whose Events fired.
LEMMA NoListing == \A q \in Listings({}) : q = <<>>
<1>1. Cardinality({}) = 0
    BY FS_EmptySet
<1>2. ASSUME NEW q \in [1..0 -> {}]
      PROVE  q = <<>>
    <2>1. 1..0 = {}
        OBVIOUS
    <2>2. q \in Seq({}) /\ Len(q) = 0
        BY <2>1
    <2> QED BY <2>2
<1> QED BY <1>1, <1>2 DEF Listings

\* Event rounds and chat wakes keep the lifecycle invariant.
LEMMA LifecycleBackground ==
    ASSUME Lifecycle, Background
    PROVE  Lifecycle'
<1>0. TypeOK'
    BY TypeBackground DEF Lifecycle
<1> PICK finished \in BOOLEAN :
        \/ \E X, F \in SUBSET Events : EventRound(X, F, finished)
        \/ \E s \in Sessions : ChatWake(s, finished)
    BY DEF Background
<1>1. ASSUME NEW X \in SUBSET Events, NEW F \in SUBSET Events,
             EventRound(X, F, finished)
      PROVE  Lifecycle'
    <2> DEFINE S == {s \in Sessions : EventsOf(s) \cap F # {}}
    <2>1. PICK a \in Arrivals(F) : AdmitFired(S, a, finished)
        BY <1>1 DEF EventRound
    <2>2. Healthy /\ \A e \in Events : owner'[e] = NoSession \/ owner'[e] = owner[e]
        BY <1>1 DEF EventRound
    <2>3. \A s \in S : status[s] = "running"
        BY DEF Lifecycle, StoppedSessionIsQuiet
    <2>4. \A s \in Sessions \ S : a[s] = <<>>
        <3> SUFFICES ASSUME NEW s \in Sessions \ S PROVE a[s] = <<>>
            OBVIOUS
        <3>1. F \cap EventsOf(s) = {}
            OBVIOUS
        <3>2. a[s] \in Listings(F \cap EventsOf(s))
            BY DEF Arrivals
        <3> QED BY <3>1, <3>2, NoListing
    <2>5. a \in [Sessions -> Seq(Payloads)] /\ S \in SUBSET Sessions
        BY ArrivalsType
    <2> HIDE DEF S
    <2> QED BY <1>0, <2>1, <2>2, <2>3, <2>4, <2>5, LifecycleAdmitFired
<1>2. ASSUME NEW s \in Sessions, ChatWake(s, finished)
      PROVE  Lifecycle'
    <2> DEFINE a == [t \in Sessions |-> IF t = s THEN <<Mention>> ELSE <<>>]
    <2>1. a \in [Sessions -> Seq(Payloads)] /\ {s} \in SUBSET Sessions
        BY DEF Payloads
    <2>2. \A t \in Sessions \ {s} : a[t] = <<>>
        OBVIOUS
    <2>3. /\ Healthy /\ status[s] = "running" /\ AdmitFired({s}, a, finished)
          /\ \A e \in Events : owner'[e] = NoSession \/ owner'[e] = owner[e]
        BY <1>2 DEF ChatWake
    <2> HIDE DEF a
    <2>4. \A t \in {s} : status[t] = "running"
        BY <2>3
    <2> QED BY <1>0, <2>1, <2>2, <2>3, <2>4, LifecycleAdmitFired
<1> QED BY <1>1, <1>2

\* Faults, shutdown, crash and recovery keep the lifecycle invariant.
LEMMA LifecycleProcessStep ==
    ASSUME Lifecycle, ProcessStep
    PROVE  Lifecycle'
<1>0. TypeOK'
    BY TypeProcessStep DEF Lifecycle
<1>a. \A s \in Sessions : current[s] \in 0..MaxRun /\ active[s] \in 0..MaxRun
    BY DEF Lifecycle, TypeOK
<1>1. CASE LatchFault
    <2>1. fault' = TRUE /\ UNCHANGED <<status, current, runs, owner, pending, active, up, closed>>
        BY <1>1 DEF LatchFault
    <2> QED BY <1>0, <2>1 DEF Lifecycle, ActiveIsCurrent, RowsEndAtCurrent,
            RunningRunIsDriven, StoppedSessionIsQuiet, EventsOf, NoStrandedTrigger, Healthy
<1>2. ASSUME NEW unsaved \in SUBSET Sessions, Quiesce(unsaved)
      PROVE  Lifecycle'
    <2>1. /\ closed' = TRUE /\ fault' = (fault \/ unsaved # {}) /\ up
          /\ UNCHANGED <<status, current, owner, pending, active, up>>
        BY <1>2 DEF Quiesce
    <2>2. ASSUME NEW s \in Sessions, NEW i \in RunIds
          PROVE  runs'[s][i].status = IF s \notin unsaved /\ RunIsRunning(s, active[s])
                                         /\ i = active[s]
                                      THEN "interrupted" ELSE runs[s][i].status
        <3>1. runs[s] \in [RunIds -> Run]
            BY DEF Lifecycle, TypeOK
        <3>2. CASE s \notin unsaved /\ RunIsRunning(s, active[s])
            <4>1. runs'[s] = [runs[s] EXCEPT ![active[s]] =
                                Ended(runs[s][active[s]], "interrupted")]
                BY <1>2, <3>2 DEF Quiesce
            <4>2. Ended(runs[s][active[s]], "interrupted").status = "interrupted"
                BY DEF Ended
            <4> QED BY <3>1, <3>2, <4>1, <4>2
        <3>3. CASE ~(s \notin unsaved /\ RunIsRunning(s, active[s]))
            <4>1. runs'[s] = runs[s]
                BY <1>2, <3>3 DEF Quiesce
            <4> QED BY <3>3, <4>1
        <3> QED BY <3>2, <3>3
    <2>3. ActiveIsCurrent'
        BY <2>1 DEF Lifecycle, ActiveIsCurrent
    <2>4. RowsEndAtCurrent'
        BY <2>1, <2>2 DEF Lifecycle, RowsEndAtCurrent, RunIsRunning
    <2>5. RunningRunIsDriven'
        <3> SUFFICES ASSUME NEW s \in Sessions, NEW i \in RunIds, runs'[s][i].status = "running"
                     PROVE  /\ i = current'[s]
                            /\ up' /\ ~fault' => active'[s] = i /\ s \notin canceled'
            BY DEF RunningRunIsDriven
        <3>1. runs[s][i].status = "running" /\ i = current[s]
            BY <2>2 DEF Lifecycle, RunningRunIsDriven
        <3>2. ~fault => active[s] = i
            BY <2>1, <3>1 DEF Lifecycle, RunningRunIsDriven
        <3>3. fault'
            BY <2>1, <2>2, <3>1, <3>2 DEF RunIsRunning
        <3> QED BY <2>1, <3>1, <3>3
    <2>6. StoppedSessionIsQuiet'
        BY <2>1, <2>2 DEF Lifecycle, StoppedSessionIsQuiet, EventsOf
    <2>7. NoStrandedTrigger'
        BY <2>1 DEF NoStrandedTrigger, Healthy
    <2> QED BY <1>0, <2>3, <2>4, <2>5, <2>6, <2>7 DEF Lifecycle
<1>3. ASSUME up' = FALSE, \A s \in Sessions : active'[s] = 0,
             UNCHANGED <<status, current, runs, owner, pending>>
      PROVE  Lifecycle'
    BY <1>0, <1>3 DEF Lifecycle, ActiveIsCurrent, RowsEndAtCurrent,
            RunningRunIsDriven, StoppedSessionIsQuiet, EventsOf, NoStrandedTrigger, Healthy
<1>4. CASE Exit
    BY <1>3, <1>4 DEF Exit
<1>5. CASE Crash
    BY <1>3, <1>5 DEF Crash
<1>6. ASSUME NEW finished \in BOOLEAN, Boot(finished)
      PROVE  Lifecycle'
    <2> DEFINE starts == {s \in Sessions : status[s] = "running"}
    <2>1. /\ ~up /\ up' = finished
          /\ \A s \in starts : HasRunId(s)
          /\ UNCHANGED <<status, owner, pending>>
          /\ \A s \in Sessions : current'[s] = IF s \in starts THEN current[s] + 1 ELSE current[s]
        BY <1>6 DEF Boot
    <2>2. ASSUME NEW s \in Sessions, NEW i \in RunIds
          PROVE  IF s \in starts /\ i = current[s] + 1
                 THEN runs'[s][i].status = "running"
                 ELSE /\ runs'[s][i].status # "running"
                      /\ runs[s][i].status = "none" => runs'[s][i].status = "none"
        <3>1. NewRun(<<>>, 0, 0).status = "running"
            BY DEF NewRun
        <3>2. Ended(runs[s][i], "interrupted").status = "interrupted"
            BY DEF Ended
        <3> QED BY <1>6, <3>1, <3>2 DEF Boot
    <2>3. \A s \in Sessions : active[s] = 0
        BY <2>1 DEF Lifecycle, ActiveIsCurrent
    <2>4. \A s \in Sessions :
            active'[s] = IF finished /\ s \in starts THEN current[s] + 1 ELSE 0
        BY <1>6, <2>3 DEF Boot, Launch
    <2>5. finished => \A s \in starts : s \notin canceled'
        BY <1>6 DEF Boot, Launch
    <2>6. ActiveIsCurrent'
        BY <2>1, <2>4 DEF ActiveIsCurrent
    <2>7. RowsEndAtCurrent'
        BY <2>1, <2>2, <1>a, ConstantsAssumption DEF Lifecycle, RowsEndAtCurrent, RunIds
    <2>8. RunningRunIsDriven'
        BY <2>1, <2>2, <2>4, <2>5 DEF RunningRunIsDriven
    <2>9. StoppedSessionIsQuiet'
        BY <2>1, <2>2 DEF Lifecycle, StoppedSessionIsQuiet, EventsOf
    <2>10. NoStrandedTrigger'
        <3> SUFFICES ASSUME NEW s \in Sessions, up', status'[s] = "running", active'[s] = 0
                     PROVE  FALSE
            BY DEF NoStrandedTrigger, Healthy
        <3>1. s \in starts /\ finished
            BY <2>1
        <3> QED BY <3>1, <2>4, <1>a
    <2> QED BY <1>0, <2>6, <2>7, <2>8, <2>9, <2>10 DEF Lifecycle
<1> QED BY <1>1, <1>2, <1>4, <1>5, <1>6 DEF ProcessStep

\* The lifecycle invariant is inductive: every step of the runtime keeps it.
LEMMA LifecycleNext == Lifecycle /\ [Next]_vars => Lifecycle'
<1> SUFFICES ASSUME Lifecycle, [Next]_vars PROVE Lifecycle'
    OBVIOUS
<1>1. CASE UNCHANGED vars
    <2>1. TypeOK'
        BY <1>1, TypeNext DEF Lifecycle
    <2> QED BY <1>1, <2>1 DEF Lifecycle, ActiveIsCurrent, RowsEndAtCurrent,
            RunningRunIsDriven, StoppedSessionIsQuiet, EventsOf, NoStrandedTrigger, Healthy
<1> QED BY <1>1, LifecycleUserRequest, LifecycleRunStep, LifecycleBackground,
           LifecycleProcessStep DEF Next

\* The inductive invariant that ties the in-memory goroutines (r.active) to the
\* Run rows, the Session states and the trigger queues of the database.
THEOREM LifecycleInvariant == Spec => []Lifecycle
BY LifecycleInit, LifecycleNext, PTL DEF Spec

\* A running Run is the Session's latest and, unless a persistence fault is
\* latched, has its goroutine: nothing else could end it.
THEOREM RunsAreDriven == Spec => []RunningRunIsDriven
<1>1. Lifecycle => RunningRunIsDriven
    BY DEF Lifecycle
<1> QED BY <1>1, LifecycleInvariant, PTL

\* Stop and delete leave nothing behind that could wake the Session, and
\* neither a late goroutine nor a round in flight brings anything back.
THEOREM StoppedSessionsAreQuiet == Spec => []StoppedSessionIsQuiet
<1>1. Lifecycle => StoppedSessionIsQuiet
    BY DEF Lifecycle
<1> QED BY <1>1, LifecycleInvariant, PTL

\* The handover in finishActive and the admission in the rounds together leave
\* no trigger waiting beside an idle Session.
THEOREM TriggersAreNotStranded == Spec => []NoStrandedTrigger
<1>1. Lifecycle => NoStrandedTrigger
    BY DEF Lifecycle
<1> QED BY <1>1, LifecycleInvariant, PTL

-----------------------------------------------------------------------------
(* Run rows. *)

\* The next Run of Session s retries its latest one, which failed: it is the
\* nth attempt at Run `of`.
Retries(s, of, n) ==
    /\ current[s] \in RunIds
    /\ runs[s][current[s]].status = "failed"
    /\ runs[s][current[s]].attempt < MaxManualRunRetries
    /\ n = runs[s][current[s]].attempt + 1
    /\ of = IF runs[s][current[s]].retryOf # 0 THEN runs[s][current[s]].retryOf ELSE current[s]

\* What a step may do to a Run row: nothing, end it, or insert the next one.
RowInserted(s, i) ==
    /\ i = current[s] + 1
    /\ \E q, of, n : /\ runs'[s][i] = NewRun(q, of, n)
                     /\ (of = 0 /\ n = 0) \/ Retries(s, of, n)
RowEnded(s, i) ==
    /\ runs[s][i].status = "running"
    /\ \E o \in Terminal : runs'[s][i] = Ended(runs[s][i], o)
RowChange(s, i) == runs'[s][i] = runs[s][i] \/ RowEnded(s, i) \/ RowInserted(s, i)

\* InsertRuns writes the rows after the current ones and no other.
LEMMA InsertRunsRows ==
    ASSUME TypeOK, NEW S \in SUBSET Sessions, NEW triggers, NEW retryOf, NEW attempt,
           InsertRuns(S, triggers, retryOf, attempt), NEW s \in Sessions, NEW i \in RunIds
    PROVE  runs'[s][i] = IF s \in S /\ i = current[s] + 1
                         THEN NewRun(triggers[s], retryOf, attempt) ELSE runs[s][i]
<1>0. runs[s] \in [RunIds -> Run]
    BY DEF TypeOK
<1>1. CASE s \in S
    <2> DEFINE row == NewRun(triggers[s], retryOf, attempt)
    <2>1. runs'[s] = [runs[s] EXCEPT ![current[s] + 1] = row]
        BY <1>1 DEF InsertRuns
    <2> HIDE DEF row
    <2>2. runs'[s][i] = IF i = current[s] + 1 THEN row ELSE runs[s][i]
        BY <1>0, <2>1
    <2> QED BY <1>1, <2>2 DEF row
<1>2. CASE s \notin S
    BY <1>2 DEF InsertRuns
<1> QED BY <1>1, <1>2

\* A Run that retries none.
LEMMA PlainInsert ==
    ASSUME TypeOK, NEW S \in SUBSET Sessions, NEW triggers, InsertRuns(S, triggers, 0, 0)
    PROVE  \A s \in Sessions, i \in RunIds : RowChange(s, i)
<1> SUFFICES ASSUME NEW s \in Sessions, NEW i \in RunIds PROVE RowChange(s, i)
    OBVIOUS
<1>1. runs'[s][i] = IF s \in S /\ i = current[s] + 1 THEN NewRun(triggers[s], 0, 0) ELSE runs[s][i]
    BY InsertRunsRows
<1> QED BY <1>1 DEF RowChange, RowInserted

\* SetRunStatus of a running row ends it.
LEMMA PlainEnd ==
    ASSUME TypeOK, NEW s \in Sessions, NEW i \in RunIds, NEW outcome \in Terminal, RunIsRunning(s, i),
           SetRunStatus(s, i, outcome)
    PROVE  \A t \in Sessions, j \in RunIds : RowChange(t, j)
<1>1. runs' = [runs EXCEPT ![s][i] = Ended(runs[s][i], outcome)]
    BY DEF SetRunStatus
<1>2. \A t \in Sessions, j \in RunIds :
        runs'[t][j] = IF t = s /\ j = i THEN Ended(runs[s][i], outcome) ELSE runs[t][j]
    BY <1>1 DEF TypeOK
<1> QED BY <1>2 DEF RowChange, RowEnded, RunIsRunning

LEMMA UserRequestRows ==
    ASSUME Lifecycle, UserRequest
    PROVE  \A s \in Sessions, i \in RunIds : RowChange(s, i)
<1>0. TypeOK
    BY DEF Lifecycle
<1> PICK s \in Sessions :
        \/ CreateSession(s) \/ StartSession(s)
        \/ StopSession(s) \/ DeleteSession(s)
        \/ \E i \in RunIds : RetryRun(s, i)
        \/ \E e \in Events : DeleteEventByUser(s, e)
    BY DEF UserRequest
<1>1. CASE CreateSession(s) \/ \E e \in Events : DeleteEventByUser(s, e)
    BY <1>1 DEF CreateSession, DeleteEventByUser, RowChange
<1>2. CASE StartSession(s)
    <2>1. InsertRuns({s}, NoTriggers, 0, 0) /\ {s} \in SUBSET Sessions
        BY <1>2 DEF StartSession
    <2> QED BY <1>0, <2>1, PlainInsert
<1>3. ASSUME NEW deleting \in BOOLEAN, ChangeSessionState(s, deleting)
      PROVE  \A t \in Sessions, i \in RunIds : RowChange(t, i)
    <2>1. CASE status[s] = "running" /\ RunIsRunning(s, current[s])
        <3>1. SetRunStatus(s, current[s], "interrupted") /\ current[s] \in RunIds /\ "interrupted" \in Terminal
            BY <1>3, <2>1 DEF ChangeSessionState, RunIsRunning, Terminal
        <3> QED BY <1>0, <2>1, <3>1, PlainEnd
    <2>2. CASE ~(status[s] = "running" /\ RunIsRunning(s, current[s]))
        BY <1>3, <2>2 DEF ChangeSessionState, RowChange
    <2> QED BY <2>1, <2>2
<1>4. ASSUME NEW j \in RunIds, RetryRun(s, j)
      PROVE  \A t \in Sessions, i \in RunIds : RowChange(t, i)
    <2> DEFINE of == IF runs[s][j].retryOf # 0 THEN runs[s][j].retryOf ELSE j
               n == runs[s][j].attempt + 1
    <2>1. InsertRuns({s}, NoTriggers, of, n) /\ {s} \in SUBSET Sessions
        BY <1>4 DEF RetryRun
    <2>2. Retries(s, of, n)
        BY <1>4 DEF RetryRun, Retries
    <2> HIDE DEF of, n
    <2>3. ASSUME NEW t \in Sessions, NEW i \in RunIds PROVE RowChange(t, i)
        <3>1. runs'[t][i] = IF t \in {s} /\ i = current[t] + 1 THEN NewRun(NoTriggers[t], of, n) ELSE runs[t][i]
            BY <1>0, <2>1, InsertRunsRows
        <3> QED BY <2>2, <3>1 DEF RowChange, RowInserted
    <2> QED BY <2>3
<1> QED BY <1>1, <1>2, <1>3, <1>4 DEF StopSession, DeleteSession

LEMMA RunStepRows ==
    ASSUME Lifecycle, NEW s \in Sessions, RunStep(s)
    PROVE  \A t \in Sessions, i \in RunIds : RowChange(t, i)
<1>0. TypeOK
    BY DEF Lifecycle
<1>1. CASE RunBrief(s) \/ \E e \in Events : CreateEventForRun(s, e) \/ DeleteEventForRun(s, e)
    BY <1>1 DEF RunBrief, CreateEventForRun, DeleteEventForRun, RowChange
<1>2. CASE RunComplete(s)
    <2>1. RunIsRunning(s, active[s]) /\ SetRunStatus(s, active[s], "completed") /\ active[s] \in RunIds /\ "completed" \in Terminal
        BY <1>2 DEF RunComplete, RunIsRunning, Terminal
    <2> QED BY <1>0, <2>1, PlainEnd
<1>3. CASE RunFail(s)
    <2>1. RunIsRunning(s, active[s]) /\ SetRunStatus(s, active[s], "failed") /\ active[s] \in RunIds /\ "failed" \in Terminal
        BY <1>3 DEF RunFail, RunIsRunning, Terminal
    <2> QED BY <1>0, <2>1, PlainEnd
<1>4. CASE RunFinish(s)
    <2>1. CASE Dispatches(s)
        <3> DEFINE batch == [t \in Sessions |-> Batch(pending[t])]
        <3>1. InsertRuns({s}, batch, 0, 0) /\ {s} \in SUBSET Sessions
            BY <1>4, <2>1 DEF RunFinish
        <3> HIDE DEF batch
        <3> QED BY <1>0, <3>1, PlainInsert
    <2>2. CASE ~Dispatches(s)
        BY <1>4, <2>2 DEF RunFinish, RowChange
    <2> QED BY <2>1, <2>2
<1> QED BY <1>1, <1>2, <1>3, <1>4 DEF RunStep

LEMMA BackgroundRows ==
    ASSUME Lifecycle, Background
    PROVE  \A t \in Sessions, i \in RunIds : RowChange(t, i)
<1>0. TypeOK
    BY DEF Lifecycle
<1>1. ASSUME NEW S \in SUBSET Sessions, NEW arrived, NEW finished, AdmitFired(S, arrived, finished)
      PROVE  \A t \in Sessions, i \in RunIds : RowChange(t, i)
    <2> DEFINE queue  == [s \in Sessions |-> pending[s] \o arrived[s]]
               starts == {s \in S : /\ active[s] = 0 /\ status[s] = "running"
                                    /\ queue[s] # <<>>}
               batch  == [s \in Sessions |-> Batch(queue[s])]
    <2>1. InsertRuns(starts, batch, 0, 0)
        BY <1>1, Zenon DEF AdmitFired
    <2>2. starts \in SUBSET Sessions
        OBVIOUS
    <2> HIDE DEF queue, starts, batch
    <2> QED BY <1>0, <2>1, <2>2, PlainInsert
<1>2. PICK finished \in BOOLEAN :
        \/ \E X, F \in SUBSET Events : EventRound(X, F, finished)
        \/ \E s \in Sessions : ChatWake(s, finished)
    BY DEF Background
<1>3. ASSUME NEW X, NEW F, EventRound(X, F, finished)
      PROVE  \A t \in Sessions, i \in RunIds : RowChange(t, i)
    <2>1. PICK a \in Arrivals(F) : AdmitFired({s \in Sessions : EventsOf(s) \cap F # {}}, a, finished)
        BY <1>3 DEF EventRound
    <2>2. {s \in Sessions : EventsOf(s) \cap F # {}} \in SUBSET Sessions
        OBVIOUS
    <2> QED BY <1>1, <2>1, <2>2
<1>4. ASSUME NEW s \in Sessions, ChatWake(s, finished)
      PROVE  \A t \in Sessions, i \in RunIds : RowChange(t, i)
    <2>1. AdmitFired({s}, [t \in Sessions |-> IF t = s THEN <<Mention>> ELSE <<>>], finished)
        BY <1>4 DEF ChatWake
    <2>2. {s} \in SUBSET Sessions
        OBVIOUS
    <2> QED BY <1>1, <2>1, <2>2
<1> QED BY <1>2, <1>3, <1>4

LEMMA ProcessStepRows ==
    ASSUME Lifecycle, ProcessStep
    PROVE  \A t \in Sessions, i \in RunIds : RowChange(t, i)
<1>0. TypeOK /\ "interrupted" \in Terminal
    BY DEF Lifecycle, Terminal
<1>1. CASE LatchFault \/ Exit \/ Crash
    BY <1>1 DEF LatchFault, Exit, Crash, RowChange
<1>2. ASSUME NEW unsaved \in SUBSET Sessions, Quiesce(unsaved), NEW s \in Sessions, NEW i \in RunIds
      PROVE  RowChange(s, i)
    <2>0. runs[s] \in [RunIds -> Run]
        BY <1>0 DEF TypeOK
    <2>1. CASE s \notin unsaved /\ RunIsRunning(s, active[s])
        <3>1. runs'[s] = [runs[s] EXCEPT ![active[s]] = Ended(runs[s][active[s]], "interrupted")]
            BY <1>2, <2>1 DEF Quiesce
        <3>2. runs'[s][i] = IF i = active[s] THEN Ended(runs[s][i], "interrupted") ELSE runs[s][i]
            BY <2>0, <3>1
        <3> QED BY <1>0, <2>1, <3>2 DEF RowChange, RowEnded, RunIsRunning
    <2>2. CASE ~(s \notin unsaved /\ RunIsRunning(s, active[s]))
        <3>1. runs'[s] = runs[s]
            BY <1>2, <2>2 DEF Quiesce
        <3> QED BY <3>1 DEF RowChange
    <2> QED BY <2>1, <2>2
<1>3. ASSUME NEW finished \in BOOLEAN, Boot(finished), NEW s \in Sessions, NEW i \in RunIds
      PROVE  RowChange(s, i)
    <2>1. runs'[s][i] = IF status[s] = "running" /\ i = current[s] + 1 THEN NewRun(<<>>, 0, 0)
                        ELSE IF runs[s][i].status = "running" THEN Ended(runs[s][i], "interrupted") ELSE runs[s][i]
        BY <1>3 DEF Boot
    <2> QED BY <1>0, <2>1 DEF RowChange, RowEnded, RowInserted
<1> QED BY <1>1, <1>2, <1>3 DEF ProcessStep

\* Every step changes Run rows only in these ways.
LEMMA RowsChange ==
    ASSUME Lifecycle, [Next]_vars
    PROVE  \A s \in Sessions, i \in RunIds : RowChange(s, i)
<1>1. CASE UNCHANGED vars
    BY <1>1 DEF RowChange
<1> QED BY <1>1, UserRequestRows, RunStepRows, BackgroundRows, ProcessStepRows DEF Next

\* A run id without a row has nothing in any column.
RowsAreBlank ==
    \A s \in Sessions, i \in RunIds : runs[s][i].status = "none" => runs[s][i] = NoRun

\* Row i of Session s that is attempt n at Run `of`: the first one is not a
\* retry, and a retry follows the unbroken line of failed Runs from `of` on.
ChainOf(s, i) ==
    LET r == runs[s][i] IN
    /\ r.attempt = 0 => r.retryOf = 0
    /\ r.attempt > 0 =>
         /\ r.retryOf \in RunIds
         /\ r.retryOf = i - r.attempt
         /\ \A j \in RunIds : r.retryOf <= j /\ j < i => runs[s][j].status = "failed"
ChainsAreFailures == \A s \in Sessions, i \in RunIds : ChainOf(s, i)

\* Inductive: the rows' own invariant, on top of the lifecycle's.  RowsAreBlank
\* is what makes an insertion find no old row, ChainsAreFailures what a retry of
\* a retry extends.
RowsInv == RowsAreBlank /\ ChainsAreFailures

LEMMA RowsInit == Init => RowsInv
<1> SUFFICES ASSUME Init PROVE RowsInv
    OBVIOUS
<1>1. \A s \in Sessions, i \in RunIds : runs[s][i] = NoRun
    BY DEF Init
<1> QED BY <1>1 DEF RowsInv, RowsAreBlank, ChainsAreFailures, ChainOf, NoRun

\* The row an insertion replaces is blank.
LEMMA InsertedIsBlank ==
    ASSUME Lifecycle, RowsAreBlank, NEW s \in Sessions, NEW i \in RunIds, i = current[s] + 1
    PROVE  runs[s][i] = NoRun
<1>1. current[s] \in 0..MaxRun /\ i > current[s]
    BY DEF Lifecycle, TypeOK, RunIds
<1>2. runs[s][i].status = "none"
    BY <1>1 DEF Lifecycle, RowsEndAtCurrent
<1> QED BY <1>2 DEF RowsAreBlank

\* A row that says failed says so for ever.
LEMMA FailedStays ==
    ASSUME Lifecycle, [Next]_vars, RowsAreBlank, NEW s \in Sessions, NEW i \in RunIds,
           runs[s][i].status = "failed"
    PROVE  runs'[s][i] = runs[s][i]
<1>1. RowChange(s, i)
    BY RowsChange
<1>2. ~RowEnded(s, i)
    BY DEF RowEnded
<1>3. ~RowInserted(s, i)
    BY InsertedIsBlank DEF RowInserted, NoRun
<1> QED BY <1>1, <1>2, <1>3 DEF RowChange

LEMMA BlankNext ==
    ASSUME Lifecycle, [Next]_vars, RowsAreBlank
    PROVE  RowsAreBlank'
<1> SUFFICES ASSUME NEW s \in Sessions, NEW i \in RunIds, runs'[s][i].status = "none"
             PROVE  runs'[s][i] = NoRun
    BY DEF RowsAreBlank
<1>1. RowChange(s, i)
    BY RowsChange
<1>2. ~RowEnded(s, i)
    BY DEF RowEnded, Ended, Terminal
<1>3. ~RowInserted(s, i)
    <2> SUFFICES ASSUME RowInserted(s, i) PROVE FALSE
        OBVIOUS
    <2> PICK q, of, n : runs'[s][i] = NewRun(q, of, n)
        BY DEF RowInserted
    <2> QED BY DEF NewRun
<1> QED BY <1>1, <1>2, <1>3 DEF RowChange, RowsAreBlank

LEMMA ChainNext ==
    ASSUME Lifecycle, [Next]_vars, RowsInv
    PROVE  ChainsAreFailures'
<1> SUFFICES ASSUME NEW s \in Sessions, NEW i \in RunIds PROVE ChainOf(s, i)'
    BY DEF ChainsAreFailures
<1>0. RowsAreBlank /\ ChainOf(s, i)
    BY DEF RowsInv, ChainsAreFailures
<1>1. RowChange(s, i)
    BY RowsChange
<1>2. \A j \in RunIds : runs[s][j].status = "failed" => runs'[s][j] = runs[s][j]
    BY <1>0, FailedStays
<1>3. ASSUME runs'[s][i].retryOf = runs[s][i].retryOf, runs'[s][i].attempt = runs[s][i].attempt
      PROVE  ChainOf(s, i)'
    BY <1>0, <1>2, <1>3 DEF ChainOf
<1>4. CASE RowEnded(s, i)
    <2> PICK o \in Terminal : runs'[s][i] = Ended(runs[s][i], o)
        BY <1>4 DEF RowEnded
    <2>1. runs'[s][i].retryOf = runs[s][i].retryOf /\ runs'[s][i].attempt = runs[s][i].attempt
        BY DEF Ended
    <2> QED BY <1>3, <2>1
<1>5. CASE RowInserted(s, i)
    <2>0. i = current[s] + 1
        BY <1>5 DEF RowInserted
    <2> PICK q, of, n : runs'[s][i] = NewRun(q, of, n) /\ ((of = 0 /\ n = 0) \/ Retries(s, of, n))
        BY <1>5 DEF RowInserted
    <2>1. runs'[s][i].retryOf = of /\ runs'[s][i].attempt = n
        BY DEF NewRun
    <2>2. CASE of = 0 /\ n = 0
        BY <2>1, <2>2 DEF ChainOf
    <2>3. CASE Retries(s, of, n)
        <3> DEFINE c == current[s]
        <3>1. /\ c \in RunIds /\ runs[s][c].status = "failed"
              /\ n = runs[s][c].attempt + 1
              /\ of = IF runs[s][c].retryOf # 0 THEN runs[s][c].retryOf ELSE c
            BY <2>3 DEF Retries
        <3>2. ChainOf(s, c)
            BY <3>1 DEF RowsInv, ChainsAreFailures
        <3>3. runs[s][c].attempt \in 0..MaxManualRunRetries /\ MaxManualRunRetries \in Nat /\ MaxRun \in Nat
            <4>1. runs[s][c] \in Run
                BY <3>1 DEF Lifecycle, TypeOK
            <4> QED BY <4>1, ConstantsAssumption DEF Run
        <3>4. i = c + 1
            BY <2>0
        <3> HIDE DEF c
        <3> DEFINE a == runs[s][c].attempt  ro == runs[s][c].retryOf
        <3>5. (a = 0 => ro = 0) /\ (a > 0 => ro \in RunIds /\ ro = c - a
                 /\ \A j \in RunIds : ro <= j /\ j < c => runs[s][j].status = "failed")
            BY <3>2 DEF ChainOf
        <3>6. n = a + 1 /\ of = (IF ro # 0 THEN ro ELSE c) /\ a \in Nat
            BY <3>1, <3>3
        <3> HIDE DEF a, ro
        <3>7. of \in RunIds /\ of = i - n /\ n > 0
            BY <3>1, <3>3, <3>4, <3>5, <3>6 DEF RunIds
        <3>8. ASSUME NEW j \in RunIds, of <= j, j < i PROVE runs'[s][j].status = "failed"
            <4>1. CASE j = c
                BY <4>1, <3>1, <1>2
            <4>2. CASE j # c
                <5>1. j < c
                    BY <3>1, <3>3, <3>4, <3>8, <4>2 DEF RunIds
                <5>2. a > 0 /\ ro <= j
                    BY <5>1, <3>1, <3>3, <3>5, <3>6, <3>8 DEF RunIds
                <5> QED BY <5>1, <5>2, <3>5, <1>2
            <4> QED BY <4>1, <4>2
        <3>9. runs'[s][i].attempt = n /\ runs'[s][i].retryOf = of
            BY <2>1
        <3>10. \A j \in RunIds : of <= j /\ j < i => runs'[s][j].status = "failed"
            BY <3>8
        <3>11. n # 0 /\ ~(n = 0)
            BY <3>3, <3>6
        <3> HIDE DEF c
        <3> QED BY <3>7, <3>9, <3>10, <3>11 DEF ChainOf
    <2> QED BY <2>2, <2>3
<1>6. CASE runs'[s][i] = runs[s][i]
    BY <1>3, <1>6
<1> QED BY <1>1, <1>4, <1>5, <1>6 DEF RowChange

\* The Run rows' invariant holds in every reachable state.
THEOREM RowsInvariant == Spec => []RowsInv
<1>1. Lifecycle /\ RowsInv /\ [Next]_vars => RowsInv'
    BY BlankNext, ChainNext DEF RowsInv
<1> QED BY <1>1, RowsInit, LifecycleInvariant, PTL DEF Spec

\* The retries of retryRun form an unbroken line of failed Runs that starts at
\* the Run they retry, whatever starts, stops, crashes and recoveries happen in
\* between: retry_of and attempt never point across another Run.
THEOREM RetriesAreContiguous == Spec => []RetryChainIsContiguous
<1>1. Lifecycle /\ RowsInv => RetryChainIsContiguous
    <2> SUFFICES ASSUME Lifecycle, RowsInv, NEW s \in Sessions, NEW i \in RunIds, runs[s][i].attempt > 0
                 PROVE  /\ runs[s][i].attempt <= MaxManualRunRetries
                        /\ runs[s][i].retryOf = i - runs[s][i].attempt
                        /\ \A j \in runs[s][i].retryOf..(i - 1) : runs[s][j].status = "failed"
        BY DEF RetryChainIsContiguous
    <2>1. runs[s][i].attempt \in 0..MaxManualRunRetries /\ MaxManualRunRetries \in Nat
        <3>1. runs[s][i] \in Run
            BY DEF Lifecycle, TypeOK
        <3> QED BY <3>1, ConstantsAssumption DEF Run
    <2>2. ChainOf(s, i)
        BY DEF RowsInv, ChainsAreFailures
    <2> DEFINE of == runs[s][i].retryOf
    <2>3. of \in RunIds /\ of = i - runs[s][i].attempt
          /\ \A j \in RunIds : of <= j /\ j < i => runs[s][j].status = "failed"
        BY <2>2 DEF ChainOf
    <2> HIDE DEF of
    <2>4. ASSUME NEW j \in of..(i - 1) PROVE runs[s][j].status = "failed"
        <3>1. j \in RunIds /\ of <= j /\ j < i
            BY <2>3, ConstantsAssumption DEF RunIds
        <3> QED BY <3>1, <2>3
    <2> QED BY <2>1, <2>3, <2>4 DEF of
<1> QED BY <1>1, LifecycleInvariant, RowsInvariant, PTL

\* Only the stop or delete of a running Session writes its restart_context.
LEMMA ContextIsKept ==
    ASSUME Lifecycle, [Next]_vars, NEW s \in Sessions, status[s] # "running"
    PROVE  restart'[s] = restart[s]
<1>1. restart \in [Sessions -> [run : 0..MaxRun, events : SUBSET Events, pending : Seq(Payloads)]]
    BY DEF Lifecycle, TypeOK
<1>2. ASSUME NEW t \in Sessions, NEW deleting \in BOOLEAN, ChangeSessionState(t, deleting)
      PROVE  restart'[s] = restart[s]
    <2>1. restart' = [restart EXCEPT ![t] = RestartContextFor(t)]
        BY <1>2 DEF ChangeSessionState
    <2>2. s = t => RestartContextFor(t) = restart[s]
        BY DEF RestartContextFor
    <2> HIDE DEF RestartContextFor
    <2> QED BY <1>1, <2>1, <2>2
<1>3. CASE UserRequest
    <2>1. PICK t \in Sessions :
            \/ CreateSession(t) \/ StartSession(t)
            \/ StopSession(t) \/ DeleteSession(t)
            \/ \E i \in RunIds : RetryRun(t, i)
            \/ \E e \in Events : DeleteEventByUser(t, e)
        BY <1>3 DEF UserRequest
    <2>2. CASE StopSession(t) \/ DeleteSession(t)
        BY <1>2, <2>2 DEF StopSession, DeleteSession
    <2>3. CASE CreateSession(t) \/ StartSession(t)
        BY <2>3 DEF CreateSession, StartSession
    <2>4. CASE (\E i \in RunIds : RetryRun(t, i)) \/ (\E e \in Events : DeleteEventByUser(t, e))
        BY <2>4 DEF RetryRun, DeleteEventByUser
    <2> QED BY <2>1, <2>2, <2>3, <2>4
<1>4. CASE \E t \in Sessions : RunStep(t)
    BY <1>4 DEF RunStep, RunBrief, CreateEventForRun, DeleteEventForRun, RunComplete, RunFail, RunFinish
<1>5. CASE Background
    BY <1>5 DEF Background, EventRound, ChatWake, AdmitFired
<1>6. CASE ProcessStep
    BY <1>6 DEF ProcessStep, LatchFault, Quiesce, Exit, Crash, Boot
<1>7. CASE UNCHANGED vars
    BY <1>7 DEF vars
<1> QED BY <1>3, <1>4, <1>5, <1>6, <1>7 DEF Next

\* A Run row is written once and ended once, and restart_context is written
\* only by the stop that ends a running Session: no late goroutine, repeated
\* stop, second retry or recovery rewrites a record.
THEOREM RecordsStay == Spec => RecordsAreWriteOnce
<1>1. Lifecycle /\ RowsInv /\ [Next]_vars =>
        \A s \in Sessions, i \in RunIds :
          LET old == runs[s][i]
              new == runs'[s][i]
          IN \/ new = old
             \/ old = NoRun /\ new.status = "running" /\ i = current[s] + 1
             \/ /\ old.status = "running" /\ new.status \in Terminal
                /\ new = Ended(old, new.status)
    <2> SUFFICES ASSUME Lifecycle, RowsInv, [Next]_vars, NEW s \in Sessions, NEW i \in RunIds
                 PROVE  \/ runs'[s][i] = runs[s][i]
                        \/ /\ runs[s][i] = NoRun
                           /\ runs'[s][i].status = "running" /\ i = current[s] + 1
                        \/ /\ runs[s][i].status = "running" /\ runs'[s][i].status \in Terminal
                           /\ runs'[s][i] = Ended(runs[s][i], runs'[s][i].status)
        OBVIOUS
    <2>1. RowChange(s, i) /\ RowsAreBlank
        BY RowsChange DEF RowsInv
    <2>2. CASE RowEnded(s, i)
        BY <2>2 DEF RowEnded, Ended
    <2>3. CASE RowInserted(s, i)
        <3>1. i = current[s] + 1 /\ runs'[s][i].status = "running"
            BY <2>3 DEF RowInserted, NewRun
        <3> QED BY <2>1, <3>1, InsertedIsBlank
    <2> QED BY <2>1, <2>2, <2>3 DEF RowChange
<1>2. Lifecycle /\ [Next]_vars =>
        \A s \in Sessions : status[s] # "running" => restart'[s] = restart[s]
    BY ContextIsKept
<1> QED BY <1>1, <1>2, LifecycleInvariant, RowsInvariant, PTL
        DEF Spec, RecordsAreWriteOnce, RunRowsAreWriteOnce, RepeatedStopKeepsContext

-----------------------------------------------------------------------------
(* Triggers: an Event is in one place. *)

\* A layout says what each place of each Session holds.
Places  == 0..MaxRun
Layouts == [Sessions -> [Places -> Seq(Payloads)]]
Layout  == [s \in Sessions |-> [i \in Places |-> Place(s, i)]]

\* No Event is at two positions of a layout, and the log says each one fired.
OnceIn(P) ==
    \A s, t \in Sessions, i, j \in Places :
        \A m \in DOMAIN P[s][i], n \in DOMAIN P[t][j] :
            P[s][i][m] = P[t][j][n] /\ P[s][i][m] # Mention => s = t /\ i = j /\ m = n
FiredIn(P, L) ==
    \A s \in Sessions, i \in Places : \A m \in DOMAIN P[s][i] :
        P[s][i][m] # Mention => L[P[s][i][m]] = {"fired"}

\* EventsAreOneShot, in terms of the layout and the log.
LoggedOnce ==
    \A e \in Events : /\ \A o, p \in logged[e] : o = p
                      /\ owner[e] # NoSession => logged[e] = {}
OneShot == LoggedOnce /\ OnceIn(Layout) /\ FiredIn(Layout, logged)

\* What BatchSize cuts off, and where the payloads of both parts were.
LEMMA BatchParts ==
    ASSUME NEW q \in Seq(Payloads)
    PROVE  /\ BatchSize(q) \in 0..Len(q)
           /\ DOMAIN Batch(q) = 1..BatchSize(q)
           /\ \A m \in 1..BatchSize(q) : Batch(q)[m] = q[m]
           /\ DOMAIN Remainder(q) = 1..(Len(q) - BatchSize(q))
           /\ \A m \in 1..(Len(q) - BatchSize(q)) : Remainder(q)[m] = q[m + BatchSize(q)]
<1>1. BatchSize(q) \in Nat /\ BatchSize(q) <= Len(q) /\ Len(q) \in Nat
    BY ConstantsAssumption DEF BatchSize
<1> DEFINE b == BatchSize(q)
<1>2. b \in Nat /\ b <= Len(q) /\ Len(q) \in Nat
    BY <1>1
<1> HIDE DEF b
<1>3. \A i \in 1..Len(q) : q[i] \in Payloads
    OBVIOUS
<1>4. /\ SubSeq(q, 1, b) \in Seq(Payloads) /\ Len(SubSeq(q, 1, b)) = b
      /\ \A m \in 1..b : SubSeq(q, 1, b)[m] = q[m]
    <2>1. \A i \in 1..b : q[i] \in Payloads
        BY <1>2, <1>3
    <2>2. /\ SubSeq(q, 1, b) \in Seq(Payloads)
          /\ Len(SubSeq(q, 1, b)) = IF 1 <= b THEN b - 1 + 1 ELSE 0
          /\ \A m \in 1..(b - 1 + 1) : SubSeq(q, 1, b)[m] = q[1 + m - 1]
        BY <1>2, <2>1, SubSeqProperties
    <2> QED BY <1>2, <2>2
<1>5. /\ SubSeq(q, b + 1, Len(q)) \in Seq(Payloads) /\ Len(SubSeq(q, b + 1, Len(q))) = Len(q) - b
      /\ \A m \in 1..(Len(q) - b) : SubSeq(q, b + 1, Len(q))[m] = q[m + b]
    <2>1. \A i \in (b + 1)..Len(q) : q[i] \in Payloads
        BY <1>2, <1>3
    <2>2. /\ SubSeq(q, b + 1, Len(q)) \in Seq(Payloads)
          /\ Len(SubSeq(q, b + 1, Len(q))) = IF b + 1 <= Len(q) THEN Len(q) - (b + 1) + 1 ELSE 0
          /\ \A m \in 1..(Len(q) - (b + 1) + 1) : SubSeq(q, b + 1, Len(q))[m] = q[(b + 1) + m - 1]
        BY <1>2, <2>1, SubSeqProperties
    <2> QED BY <1>2, <2>2
<1>6. DOMAIN SubSeq(q, 1, b) = 1..b /\ DOMAIN SubSeq(q, b + 1, Len(q)) = 1..(Len(q) - b)
    BY <1>4, <1>5, LenProperties
<1> QED BY <1>2, <1>4, <1>5, <1>6 DEF b, Batch, Remainder

\* A handover moves the front of the queue of each Session in S into a place
\* that held nothing.
HandOver(P, Q, S, k) ==
    \A s \in Sessions, i \in Places :
        Q[s][i] = IF s \in S /\ i = 0 THEN Remainder(P[s][0])
                  ELSE IF s \in S /\ i = k[s] THEN Batch(P[s][0])
                  ELSE P[s][i]

\* Handing over duplicates nothing.
LEMMA HandOverOnce ==
    ASSUME NEW P \in Layouts, NEW Q, NEW S \in SUBSET Sessions, NEW k, NEW L,
           \A s \in S : k[s] \in RunIds,
           HandOver(P, Q, S, k), OnceIn(P), FiredIn(P, L)
    PROVE  OnceIn(Q) /\ FiredIn(Q, L)
<1> DEFINE Pos(s, i) == IF s \in S /\ i = k[s] THEN 0 ELSE i
           Off(s, i) == IF s \in S /\ i = 0 THEN BatchSize(P[s][0]) ELSE 0
<1>0. 0 \in Places /\ \A s \in S : k[s] \in Places /\ k[s] # 0
    BY ConstantsAssumption DEF Places, RunIds
<1>1. ASSUME NEW s \in Sessions, NEW i \in Places, NEW m \in DOMAIN Q[s][i]
      PROVE  /\ Pos(s, i) \in Places /\ m \in Int /\ m > 0 /\ Off(s, i) \in Nat
             /\ m + Off(s, i) \in DOMAIN P[s][Pos(s, i)]
             /\ Q[s][i][m] = P[s][Pos(s, i)][m + Off(s, i)]
             /\ s \in S /\ i = k[s] => m <= BatchSize(P[s][0])
    <2>1. P[s][0] \in Seq(Payloads) /\ P[s][i] \in Seq(Payloads)
        BY <1>0 DEF Layouts
    <2>2. /\ BatchSize(P[s][0]) \in Nat
          /\ DOMAIN P[s][0] = 1..Len(P[s][0]) /\ Len(P[s][0]) \in Nat
          /\ DOMAIN P[s][i] = 1..Len(P[s][i]) /\ Len(P[s][i]) \in Nat
        BY <2>1, BatchParts
    <2>3. CASE s \in S /\ i = 0
        <3>1. Q[s][i] = Remainder(P[s][0]) /\ Pos(s, i) = 0 /\ Off(s, i) = BatchSize(P[s][0])
            BY <1>0, <2>3 DEF HandOver
        <3> HIDE DEF Pos, Off
        <3>a. /\ DOMAIN Remainder(P[s][0]) = 1..(Len(P[s][0]) - BatchSize(P[s][0]))
              /\ \A u \in 1..(Len(P[s][0]) - BatchSize(P[s][0])) :
                    Remainder(P[s][0])[u] = P[s][0][u + BatchSize(P[s][0])]
              /\ BatchSize(P[s][0]) \in 0..Len(P[s][0])
            BY <2>1, BatchParts
        <3>2. m \in 1..(Len(P[s][0]) - BatchSize(P[s][0])) /\ BatchSize(P[s][0]) \in 0..Len(P[s][0])
              /\ Q[s][i][m] = P[s][0][m + BatchSize(P[s][0])]
            BY <3>1, <3>a
        <3> QED BY <1>0, <2>2, <2>3, <3>1, <3>2
    <2>4. CASE s \in S /\ i = k[s]
        <3>1. Q[s][i] = Batch(P[s][0]) /\ Pos(s, i) = 0 /\ Off(s, i) = 0
            BY <1>0, <2>4 DEF HandOver
        <3> HIDE DEF Pos, Off
        <3>2. m \in 1..BatchSize(P[s][0]) /\ BatchSize(P[s][0]) \in 0..Len(P[s][0])
              /\ Q[s][i][m] = P[s][0][m]
            BY <2>1, <3>1, BatchParts
        <3> QED BY <1>0, <2>2, <2>4, <3>1, <3>2
    <2>5. CASE ~(s \in S /\ i = 0) /\ ~(s \in S /\ i = k[s])
        <3>1. Q[s][i] = P[s][i] /\ Pos(s, i) = i /\ Off(s, i) = 0
            BY <2>5 DEF HandOver
        <3> HIDE DEF Pos, Off
        <3> QED BY <2>2, <2>5, <3>1
    <2> QED BY <2>3, <2>4, <2>5
<1>2. FiredIn(Q, L)
    <2> SUFFICES ASSUME NEW s \in Sessions, NEW i \in Places, NEW m \in DOMAIN Q[s][i], Q[s][i][m] # Mention
                 PROVE  L[Q[s][i][m]] = {"fired"}
        BY DEF FiredIn
    <2> HIDE DEF Pos, Off
    <2>1. Pos(s, i) \in Places /\ m + Off(s, i) \in DOMAIN P[s][Pos(s, i)]
          /\ Q[s][i][m] = P[s][Pos(s, i)][m + Off(s, i)]
        BY <1>1
    <2> QED BY <2>1 DEF FiredIn
<1>3. ASSUME NEW s \in Sessions, NEW t \in Sessions, NEW i \in Places, NEW j \in Places,
             NEW m \in DOMAIN Q[s][i], NEW n \in DOMAIN Q[t][j],
             Q[s][i][m] = Q[t][j][n], Q[s][i][m] # Mention
      PROVE  s = t /\ i = j /\ m = n
    <2>1. s = t /\ Pos(s, i) = Pos(t, j) /\ m + Off(s, i) = n + Off(t, j)
        <3> HIDE DEF Pos, Off
        <3> QED BY <1>1, <1>3 DEF OnceIn
    <2>2. /\ m \in Int /\ n \in Int /\ m > 0 /\ n > 0
          /\ s \in S => BatchSize(P[s][0]) \in Nat
          /\ s \in S /\ i = k[s] => m <= BatchSize(P[s][0])
          /\ s \in S /\ j = k[s] => n <= BatchSize(P[s][0])
        <3>1. P[s][0] \in Seq(Payloads)
            BY <1>0 DEF Layouts
        <3>2. BatchSize(P[s][0]) \in Nat
            BY <3>1, BatchParts
        <3> HIDE DEF Pos, Off
        <3> QED BY <1>1, <2>1, <3>2
    <2>3. CASE s \notin S
        BY <2>1, <2>2, <2>3
    <2>4. CASE s \in S
        BY <1>0, <2>1, <2>2, <2>4
    <2> QED BY <2>3, <2>4
<1> QED BY <1>2, <1>3 DEF OnceIn

\* Triggers that arrive are appended to the queues.
Appended(P, Q, a) ==
    \A s \in Sessions, i \in Places : Q[s][i] = IF i = 0 THEN P[s][0] \o a[s] ELSE P[s][i]

\* Arrivals: no Event twice, none that some place holds already, each logged.
ArriveOnce(P, a, L) ==
    /\ \A s, t \in Sessions : \A m \in DOMAIN a[s], n \in DOMAIN a[t] :
         a[s][m] = a[t][n] /\ a[s][m] # Mention => s = t /\ m = n
    /\ \A s \in Sessions : \A m \in DOMAIN a[s] : a[s][m] # Mention => L[a[s][m]] = {"fired"}
    /\ \A s, t \in Sessions, i \in Places : \A m \in DOMAIN P[s][i], n \in DOMAIN a[t] :
         P[s][i][m] # Mention => P[s][i][m] # a[t][n]

LEMMA AppendOnce ==
    ASSUME NEW P \in Layouts, NEW Q, NEW a \in [Sessions -> Seq(Payloads)], NEW L,
           Appended(P, Q, a), ArriveOnce(P, a, L), OnceIn(P), FiredIn(P, L)
    PROVE  OnceIn(Q) /\ FiredIn(Q, L)
<1> DEFINE Old(s, i, m) == m \in DOMAIN P[s][i] /\ Q[s][i][m] = P[s][i][m]
           New(s, i, m) == /\ i = 0 /\ m \in Int
                           /\ m - Len(P[s][0]) \in DOMAIN a[s]
                           /\ Q[s][i][m] = a[s][m - Len(P[s][0])]
<1>0. 0 \in Places
    BY ConstantsAssumption DEF Places
<1>1. ASSUME NEW s \in Sessions, NEW i \in Places, NEW m \in DOMAIN Q[s][i]
      PROVE  Old(s, i, m) \/ New(s, i, m)
    <2>1. CASE i # 0
        BY <2>1 DEF Appended
    <2>2. CASE i = 0
        <3>1. P[s][0] \in Seq(Payloads) /\ a[s] \in Seq(Payloads)
            BY <1>0 DEF Layouts
        <3>2. Q[s][0] = P[s][0] \o a[s]
            BY <1>0 DEF Appended
        <3> DEFINE p == P[s][0]
                   q == a[s]
        <3>3. p \in Seq(Payloads) /\ q \in Seq(Payloads) /\ Q[s][0] = p \o q /\ m \in DOMAIN (p \o q)
            BY <2>2, <3>1, <3>2
        <3> HIDE DEF p, q
        <3>4. /\ m \in Int
              /\ \/ m \in DOMAIN p /\ (p \o q)[m] = p[m]
                 \/ m - Len(p) \in DOMAIN q /\ (p \o q)[m] = q[m - Len(p)]
            BY <3>3
        <3> QED BY <2>2, <3>3, <3>4 DEF p, q
    <2> QED BY <2>1, <2>2
<1>2. ASSUME NEW s \in Sessions, NEW i \in Places, NEW m \in DOMAIN Q[s][i], Q[s][i][m] # Mention
      PROVE  L[Q[s][i][m]] = {"fired"}
    <2>1. CASE Old(s, i, m)
        BY <1>2, <2>1 DEF FiredIn
    <2>2. CASE New(s, i, m)
        BY <1>2, <2>2 DEF ArriveOnce
    <2> HIDE DEF Old, New
    <2> QED BY <1>1, <2>1, <2>2
<1>3. ASSUME NEW s \in Sessions, NEW t \in Sessions, NEW i \in Places, NEW j \in Places,
             NEW m \in DOMAIN Q[s][i], NEW n \in DOMAIN Q[t][j],
             Q[s][i][m] = Q[t][j][n], Q[s][i][m] # Mention
      PROVE  s = t /\ i = j /\ m = n
    <2>1. CASE Old(s, i, m) /\ Old(t, j, n)
        <3>1. m \in DOMAIN P[s][i] /\ n \in DOMAIN P[t][j]
            BY <2>1
        <3>2. P[s][i][m] = P[t][j][n] /\ P[s][i][m] # Mention
            BY <1>3, <2>1
        <3> HIDE DEF Old, New
        <3> QED BY <3>1, <3>2 DEF OnceIn
    <2>2. ~(Old(s, i, m) /\ New(t, j, n)) /\ ~(New(s, i, m) /\ Old(t, j, n))
        BY <1>3 DEF ArriveOnce
    <2>3. CASE New(s, i, m) /\ New(t, j, n)
        <3> DEFINE u == m - Len(P[s][0])
                   v == n - Len(P[t][0])
        <3>a. u \in DOMAIN a[s] /\ v \in DOMAIN a[t]
            BY <2>3
        <3>b. a[s][u] = a[t][v] /\ a[s][u] # Mention
            BY <1>3, <2>3
        <3>c. s = t /\ u = v
            <4> HIDE DEF u, v, Old, New
            <4> QED BY <3>a, <3>b DEF ArriveOnce
        <3>1. s = t /\ m - Len(P[s][0]) = n - Len(P[t][0])
            BY <3>c
        <3>2. P[s][0] \in Seq(Payloads)
            BY <1>0 DEF Layouts
        <3>3. Len(P[s][0]) \in Nat
            BY <3>2
        <3> QED BY <2>3, <3>1, <3>3
    <2>4. (Old(s, i, m) \/ New(s, i, m)) /\ (Old(t, j, n) \/ New(t, j, n))
        BY <1>1
    <2> HIDE DEF Old, New
    <2> QED BY <2>1, <2>2, <2>3, <2>4
<1> QED BY <1>2, <1>3 DEF OnceIn, FiredIn

\* What happens to one Event's row and log: it gets its outcome when its row
\* goes, and a row only appears for an Event that has no outcome.
LogStep ==
    \A e \in Events :
        \/ /\ logged'[e] = logged[e]
           /\ owner'[e] \in {owner[e], NoSession} \/ logged[e] = {}
        \/ /\ owner[e] # NoSession /\ owner'[e] = NoSession
           /\ \E o : logged'[e] = logged[e] \cup {o}

LEMMA LogNext ==
    ASSUME LoggedOnce, LogStep, NEW P \in Layouts, FiredIn(P, logged)
    PROVE  LoggedOnce' /\ FiredIn(P, logged')
<1>1. ASSUME NEW e \in Events
      PROVE  (\A o, p \in logged'[e] : o = p) /\ (owner'[e] # NoSession => logged'[e] = {})
    BY DEF LoggedOnce, LogStep
<1>2. ASSUME NEW s \in Sessions, NEW i \in Places, NEW m \in DOMAIN P[s][i], P[s][i][m] # Mention
      PROVE  logged'[P[s][i][m]] = {"fired"}
    <2>1. P[s][i] \in Seq(Payloads)
        BY DEF Layouts
    <2>2. P[s][i][m] \in Payloads
        BY <2>1
    <2>3. P[s][i][m] \in Events /\ logged[P[s][i][m]] = {"fired"}
        BY <1>2, <2>2 DEF Payloads, FiredIn
    <2> DEFINE e == P[s][i][m]
    <2> HIDE DEF e
    <2>4. e \in Events /\ logged[e] = {"fired"}
        BY <2>3 DEF e
    <2>5. owner[e] = NoSession
        BY <2>4 DEF LoggedOnce
    <2>6. logged'[e] = logged[e]
        BY <2>4, <2>5 DEF LogStep
    <2> QED BY <2>4, <2>6 DEF e
<1> QED BY <1>1, <1>2 DEF LoggedOnce, FiredIn

\* A stop cuts queues: what is left is still once.
LEMMA CutOnce ==
    ASSUME NEW P, NEW Q, NEW L, OnceIn(P), FiredIn(P, L),
           \A s \in Sessions, i \in Places : Q[s][i] = P[s][i] \/ Q[s][i] = <<>>
    PROVE  OnceIn(Q) /\ FiredIn(Q, L)
<1>1. \A s \in Sessions, i \in Places : \A m \in DOMAIN Q[s][i] : Q[s][i] = P[s][i]
    OBVIOUS
<1>2. ASSUME NEW s \in Sessions, NEW t \in Sessions, NEW i \in Places, NEW j \in Places,
             NEW m \in DOMAIN Q[s][i], NEW n \in DOMAIN Q[t][j],
             Q[s][i][m] = Q[t][j][n], Q[s][i][m] # Mention
      PROVE  s = t /\ i = j /\ m = n
    <2>1. Q[s][i] = P[s][i] /\ Q[t][j] = P[t][j]
        BY <1>1
    <2>2. m \in DOMAIN P[s][i] /\ n \in DOMAIN P[t][j] /\ P[s][i][m] = P[t][j][n] /\ P[s][i][m] # Mention
        BY <1>2, <2>1
    <2> QED BY <2>2 DEF OnceIn
<1>3. ASSUME NEW s \in Sessions, NEW i \in Places, NEW m \in DOMAIN Q[s][i], Q[s][i][m] # Mention
      PROVE  L[Q[s][i][m]] = {"fired"}
    <2>1. Q[s][i] = P[s][i]
        BY <1>1
    <2> QED BY <1>3, <2>1 DEF FiredIn
<1> QED BY <1>2, <1>3 DEF OnceIn, FiredIn

LEMMA LayoutType == TypeOK => Layout \in Layouts
<1> SUFFICES ASSUME TypeOK, NEW s \in Sessions, NEW i \in Places PROVE Place(s, i) \in Seq(Payloads)
    BY DEF Layout, Layouts
<1>1. CASE i = 0
    BY <1>1 DEF Place, TypeOK
<1>2. CASE i # 0
    <2>1. i \in RunIds
        BY <1>2, ConstantsAssumption DEF Places, RunIds
    <2>2. runs[s][i] \in Run
        BY <2>1 DEF TypeOK
    <2> QED BY <1>2, <2>2 DEF Place, Run
<1> QED BY <1>1, <1>2

\* How to conclude OneShot of the next state from facts about rigid values.
LEMMA OneShotNext ==
    ASSUME LoggedOnce', NEW Q, Q = Layout', NEW L, L = logged', OnceIn(Q), FiredIn(Q, L)
    PROVE  OneShot'
BY DEF OneShot, OnceIn, FiredIn

\* A step that leaves the queues and every row's triggers alone.
KeepsTriggers ==
    /\ pending' = pending
    /\ \A s \in Sessions, i \in RunIds : runs'[s][i].triggers = runs[s][i].triggers

LEMMA KeptOnce ==
    ASSUME TypeOK, OneShot, LogStep, KeepsTriggers
    PROVE  OneShot'
<1>1. \A s \in Sessions, i \in Places : Place(s, i)' = Place(s, i)
    <2> SUFFICES ASSUME NEW s \in Sessions, NEW i \in Places, i # 0
                 PROVE  runs'[s][i].triggers = runs[s][i].triggers
        BY DEF Place, KeepsTriggers
    <2>1. i \in RunIds
        BY ConstantsAssumption DEF Places, RunIds
    <2> QED BY <2>1 DEF KeepsTriggers
<1>2. Layout' = Layout
    BY <1>1 DEF Layout
<1>3. PICK P : P = Layout
    OBVIOUS
<1>4. PICK L : L = logged'
    OBVIOUS
<1>5. P \in Layouts /\ OnceIn(P) /\ FiredIn(P, logged) /\ LoggedOnce
    BY <1>3, LayoutType DEF OneShot
<1>6. LoggedOnce' /\ FiredIn(P, L)
    BY <1>4, <1>5, LogNext
<1> QED BY <1>2, <1>3, <1>4, <1>5, <1>6, OneShotNext

\* The triggers column after InsertRuns; the row it writes held none before.
LEMMA InsertRunsTriggers ==
    ASSUME Lifecycle, NEW S \in SUBSET Sessions, NEW triggers, NEW retryOf, NEW attempt,
           InsertRuns(S, triggers, retryOf, attempt), NEW s \in Sessions, NEW i \in RunIds
    PROVE  runs'[s][i].triggers = IF s \in S /\ i = current[s] + 1
                                  THEN triggers[s] ELSE runs[s][i].triggers
<1>1. TypeOK
    BY DEF Lifecycle
<1>2. runs'[s][i] = IF s \in S /\ i = current[s] + 1
                    THEN NewRun(triggers[s], retryOf, attempt) ELSE runs[s][i]
    BY <1>1, InsertRunsRows
<1> QED BY <1>2 DEF NewRun

\* A Run that gets no triggers, in a Session whose queue stays.
LEMMA InsertKeeps ==
    ASSUME Lifecycle, RowsAreBlank, NEW s \in Sessions, NEW retryOf, NEW attempt,
           InsertRuns({s}, NoTriggers, retryOf, attempt), pending' = pending
    PROVE  KeepsTriggers
<1> SUFFICES ASSUME NEW t \in Sessions, NEW i \in RunIds
             PROVE  runs'[t][i].triggers = runs[t][i].triggers
    BY DEF KeepsTriggers
<1>1. {s} \in SUBSET Sessions
    OBVIOUS
<1>2. runs'[t][i].triggers = IF t \in {s} /\ i = current[t] + 1 THEN NoTriggers[t] ELSE runs[t][i].triggers
    BY <1>1, InsertRunsTriggers
<1>3. NoTriggers[t] = <<>>
    BY DEF NoTriggers
<1>4. i = current[t] + 1 => runs[t][i].triggers = <<>>
    BY InsertedIsBlank DEF NoRun
<1> QED BY <1>2, <1>3, <1>4

\* A Run that ends keeps its triggers.
LEMMA EndKeeps ==
    ASSUME TypeOK, NEW s \in Sessions, NEW i \in RunIds, NEW outcome, SetRunStatus(s, i, outcome),
           NEW t \in Sessions, NEW j \in RunIds
    PROVE  runs'[t][j].triggers = runs[t][j].triggers
<1>1. runs' = [runs EXCEPT ![s][i] = Ended(runs[s][i], outcome)]
    BY DEF SetRunStatus
<1>2. runs'[t][j] = IF t = s /\ j = i THEN Ended(runs[s][i], outcome) ELSE runs[t][j]
    BY <1>1 DEF TypeOK
<1> QED BY <1>2 DEF Ended

\* A round's admission: arrivals are appended, and the Sessions that start get
\* the front of their queue as the triggers of their next Run.
LEMMA AdmitOnce ==
    ASSUME Lifecycle, OneShot, LogStep, NEW S \in SUBSET Sessions,
           NEW arrived \in [Sessions -> Seq(Payloads)], NEW finished,
           AdmitFired(S, arrived, finished), NEW P, P = Layout, NEW L, L = logged',
           ArriveOnce(P, arrived, L)
    PROVE  OneShot'
<1> DEFINE queue  == [s \in Sessions |-> pending[s] \o arrived[s]]
           starts == {s \in S : /\ active[s] = 0 /\ status[s] = "running"
                                /\ queue[s] # <<>>}
           batch  == [s \in Sessions |-> Batch(queue[s])]
           k      == [s \in Sessions |-> current[s] + 1]
           P1     == [s \in Sessions |-> [i \in Places |-> IF i = 0 THEN queue[s] ELSE Place(s, i)]]
<1>0. TypeOK /\ 0 \in Places
    BY ConstantsAssumption DEF Lifecycle, Places
<1>1. InsertRuns(starts, batch, 0, 0)
    BY Zenon DEF AdmitFired
<1>2. pending' = [s \in Sessions |-> IF s \in starts THEN Remainder(queue[s]) ELSE queue[s]]
    BY Zenon DEF AdmitFired
<1>3. \A s \in starts : HasRunId(s)
    BY Zenon DEF AdmitFired
<1>4. starts \in SUBSET Sessions
    OBVIOUS
<1>5. \A s \in Sessions : queue[s] = pending[s] \o arrived[s] /\ batch[s] = Batch(queue[s]) /\ k[s] = current[s] + 1
    OBVIOUS
<1>6. \A s \in Sessions : queue[s] \in Seq(Payloads)
    BY <1>0 DEF TypeOK
<1>7. P \in Layouts /\ OnceIn(P) /\ FiredIn(P, logged) /\ LoggedOnce
    BY <1>0, LayoutType DEF OneShot
<1>8. P1 \in Layouts
    <2>1. ASSUME NEW s \in Sessions, NEW i \in Places PROVE Place(s, i) \in Seq(Payloads)
        BY <1>7 DEF Layouts, Layout
    <2> HIDE DEF queue
    <2> QED BY <1>6, <2>1 DEF Layouts
<1>9. \A s \in Sessions, i \in Places : P1[s][i] = IF i = 0 THEN queue[s] ELSE Place(s, i)
    OBVIOUS
<1> HIDE DEF queue, starts, batch, k, P1
<1>10. LoggedOnce' /\ FiredIn(P, L)
    BY <1>7, LogNext
<1>11. Appended(P, P1, arrived)
    <2>1. \A s \in Sessions, i \in Places : P[s][i] = Place(s, i)
        BY DEF Layout
    <2>2. \A s \in Sessions : P[s][0] = pending[s]
        BY <1>0, <2>1 DEF Place
    <2> QED BY <1>5, <1>9, <2>1, <2>2 DEF Appended
<1>12. OnceIn(P1) /\ FiredIn(P1, L)
    BY <1>7, <1>10, <1>11, AppendOnce
<1>13. PICK Q : Q = Layout'
    OBVIOUS
<1>14. HandOver(P1, Q, starts, k)
    <2> SUFFICES ASSUME NEW s \in Sessions, NEW i \in Places
                 PROVE  Q[s][i] = IF s \in starts /\ i = 0 THEN Remainder(P1[s][0])
                                  ELSE IF s \in starts /\ i = k[s] THEN Batch(P1[s][0])
                                  ELSE P1[s][i]
        BY DEF HandOver
    <2>1. P1[s][0] = queue[s] /\ P1[s][i] = (IF i = 0 THEN queue[s] ELSE Place(s, i))
        BY <1>0, <1>9
    <2>2. Q[s][i] = Place(s, i)'
        BY <1>13 DEF Layout
    <2>3. CASE i = 0
        <3>1. Q[s][i] = pending'[s]
            BY <2>2, <2>3 DEF Place
        <3>2. s \in starts => k[s] # 0
            BY <1>0, <1>5 DEF TypeOK
        <3> QED BY <1>2, <2>1, <2>3, <3>1, <3>2
    <2>4. CASE i # 0
        <3>1. i \in RunIds
            BY <2>4, ConstantsAssumption DEF Places, RunIds
        <3>2. Q[s][i] = runs'[s][i].triggers
            BY <2>2, <2>4 DEF Place
        <3>3. runs'[s][i].triggers = IF s \in starts /\ i = current[s] + 1 THEN batch[s] ELSE runs[s][i].triggers
            BY <1>1, <1>4, <3>1, InsertRunsTriggers
        <3>4. Place(s, i) = runs[s][i].triggers
            BY <2>4 DEF Place
        <3> QED BY <1>5, <2>1, <2>4, <3>2, <3>3, <3>4
    <2> QED BY <2>3, <2>4
<1>15. \A s \in starts : k[s] \in RunIds
    BY <1>0, <1>3, <1>4, <1>5, ConstantsAssumption DEF TypeOK, HasRunId, RunIds
<1>16. OnceIn(Q) /\ FiredIn(Q, L)
    BY <1>4, <1>8, <1>12, <1>14, <1>15, HandOverOnce
<1> QED BY <1>10, <1>13, <1>16, OneShotNext

LEMMA OneShotInit == Init => OneShot
<1> SUFFICES ASSUME Init PROVE OneShot
    OBVIOUS
<1>1. LoggedOnce
    BY DEF Init, LoggedOnce
<1>2. ASSUME NEW s \in Sessions, NEW i \in Places PROVE Place(s, i) = <<>>
    <2>1. CASE i = 0
        BY <2>1 DEF Init, Place
    <2>2. CASE i # 0
        <3>1. i \in RunIds
            BY <2>2, ConstantsAssumption DEF Places, RunIds
        <3> QED BY <2>2, <3>1 DEF Init, Place, NoRun
    <2> QED BY <2>1, <2>2
<1>3. \A s \in Sessions, i \in Places : Layout[s][i] = <<>>
    BY <1>2 DEF Layout
<1>4. DOMAIN <<>> = {}
    OBVIOUS
<1> QED BY <1>1, <1>3, <1>4 DEF OneShot, OnceIn, FiredIn

\* RemoveRecordTx writes one outcome for Events that have a row and so none.
LEMMA RemoveLogs ==
    ASSUME TypeOK, NEW E \in SUBSET Events, NEW outcome, RemoveRecords(E, outcome),
           \A e \in E : owner[e] # NoSession
    PROVE  LogStep
BY DEF RemoveRecords, LogStep

\* A stop or delete ends at most the current Run and touches no row's triggers.
LEMMA ChangeKeepsRows ==
    ASSUME TypeOK, NEW s \in Sessions, NEW deleting \in BOOLEAN, ChangeSessionState(s, deleting),
           NEW t \in Sessions, NEW i \in RunIds
    PROVE  runs'[t][i].triggers = runs[t][i].triggers
<1>1. CASE status[s] = "running" /\ RunIsRunning(s, current[s])
    <2>1. SetRunStatus(s, current[s], "interrupted") /\ current[s] \in RunIds
        BY <1>1 DEF ChangeSessionState, RunIsRunning
    <2> QED BY <2>1, EndKeeps
<1>2. CASE ~(status[s] = "running" /\ RunIsRunning(s, current[s]))
    BY <1>2 DEF ChangeSessionState
<1> QED BY <1>1, <1>2

LEMMA OneShotUserRequest ==
    ASSUME Lifecycle, RowsAreBlank, OneShot, UserRequest
    PROVE  OneShot'
<1>0. TypeOK
    BY DEF Lifecycle
<1> PICK s \in Sessions :
        \/ CreateSession(s) \/ StartSession(s)
        \/ StopSession(s) \/ DeleteSession(s)
        \/ \E i \in RunIds : RetryRun(s, i)
        \/ \E e \in Events : DeleteEventByUser(s, e)
    BY DEF UserRequest
<1>1. ASSUME owner' = owner, logged' = logged PROVE LogStep
    BY <1>1 DEF LogStep
<1>2. CASE CreateSession(s)
    <2>1. owner' = owner /\ logged' = logged /\ KeepsTriggers
        BY <1>2 DEF CreateSession, eventVars, KeepsTriggers
    <2> QED BY <1>0, <1>1, <2>1, KeptOnce
<1>3. CASE StartSession(s)
    <2>1. owner' = owner /\ logged' = logged /\ pending' = pending /\ InsertRuns({s}, NoTriggers, 0, 0)
        BY <1>3 DEF StartSession, eventVars
    <2>2. KeepsTriggers
        BY <2>1, InsertKeeps
    <2> QED BY <1>0, <1>1, <2>1, <2>2, KeptOnce
<1>4. ASSUME NEW j \in RunIds, RetryRun(s, j) PROVE OneShot'
    <2> DEFINE of == IF runs[s][j].retryOf # 0 THEN runs[s][j].retryOf ELSE j
               n == runs[s][j].attempt + 1
    <2>1. owner' = owner /\ logged' = logged /\ pending' = pending /\ InsertRuns({s}, NoTriggers, of, n)
        BY <1>4 DEF RetryRun, eventVars
    <2> HIDE DEF of, n
    <2>2. KeepsTriggers
        BY <2>1, InsertKeeps
    <2> QED BY <1>0, <1>1, <2>1, <2>2, KeptOnce
<1>5. ASSUME NEW e \in Events, DeleteEventByUser(s, e) PROVE OneShot'
    <2>1. RemoveRecords({e}, "deleted_by_user") /\ {e} \in SUBSET Events /\ KeepsTriggers /\ owner[e] # NoSession
        BY <1>5, ConstantsAssumption DEF DeleteEventByUser, KeepsTriggers
    <2>2. LogStep
        BY <1>0, <2>1, RemoveLogs
    <2> QED BY <1>0, <2>1, <2>2, KeptOnce
<1>6. ASSUME NEW deleting \in BOOLEAN, ChangeSessionState(s, deleting) PROVE OneShot'
    <2>1. PICK P : P = Layout
        OBVIOUS
    <2>2. PICK Q : Q = Layout'
        OBVIOUS
    <2>3. PICK L : L = logged'
        OBVIOUS
    <2>4. P \in Layouts /\ OnceIn(P) /\ FiredIn(P, logged) /\ LoggedOnce
        BY <1>0, <2>1, LayoutType DEF OneShot
    <2>5. PICK outcome : RemoveRecords(EventsOf(s), outcome)
        BY <1>6 DEF ChangeSessionState
    <2>6. EventsOf(s) \in SUBSET Events /\ \A e \in EventsOf(s) : owner[e] # NoSession
        BY ConstantsAssumption DEF EventsOf
    <2>7. LogStep
        BY <1>0, <2>5, <2>6, RemoveLogs
    <2>8. LoggedOnce' /\ FiredIn(P, L)
        BY <2>3, <2>4, <2>7, LogNext
    <2>9. ASSUME NEW t \in Sessions, NEW i \in RunIds PROVE runs'[t][i].triggers = runs[t][i].triggers
        BY <1>0, <1>6, ChangeKeepsRows
    <2>10. ASSUME NEW t \in Sessions, NEW i \in Places PROVE Q[t][i] = P[t][i] \/ Q[t][i] = <<>>
        <3>1. Q[t][i] = Place(t, i)' /\ P[t][i] = Place(t, i)
            BY <2>1, <2>2 DEF Layout
        <3>2. CASE i = 0
            <4>1. pending' = [pending EXCEPT ![s] = <<>>]
                BY <1>6 DEF ChangeSessionState
            <4>2. pending'[t] = pending[t] \/ pending'[t] = <<>>
                BY <1>0, <4>1 DEF TypeOK
            <4> QED BY <3>1, <3>2, <4>2 DEF Place
        <3>3. CASE i # 0
            <4>1. i \in RunIds
                BY <3>3, ConstantsAssumption DEF Places, RunIds
            <4> QED BY <2>9, <3>1, <3>3, <4>1 DEF Place
        <3> QED BY <3>2, <3>3
    <2>11. OnceIn(Q) /\ FiredIn(Q, L)
        BY <2>4, <2>8, <2>10, CutOnce
    <2> QED BY <2>2, <2>3, <2>8, <2>11, OneShotNext
<1> QED BY <1>2, <1>3, <1>4, <1>5, <1>6 DEF StopSession, DeleteSession

LEMMA OneShotRunStep ==
    ASSUME Lifecycle, OneShot, NEW s \in Sessions, RunStep(s)
    PROVE  OneShot'
<1>0. TypeOK
    BY DEF Lifecycle
<1>1. ASSUME owner' = owner, logged' = logged PROVE LogStep
    BY <1>1 DEF LogStep
<1>2. CASE RunBrief(s)
    <2>1. owner' = owner /\ logged' = logged /\ KeepsTriggers
        BY <1>2 DEF RunBrief, eventVars, KeepsTriggers
    <2> QED BY <1>0, <1>1, <2>1, KeptOnce
<1>3. ASSUME NEW e \in Events, CreateEventForRun(s, e) PROVE OneShot'
    <2>1. KeepsTriggers
        BY <1>3 DEF CreateEventForRun, KeepsTriggers
    <2>2. logged[e] = {} /\ logged' = logged /\ owner' = [owner EXCEPT ![e] = s]
        BY <1>3 DEF CreateEventForRun
    <2>3. LogStep
        BY <1>0, <2>2 DEF LogStep, TypeOK
    <2> QED BY <1>0, <2>1, <2>3, KeptOnce
<1>4. ASSUME NEW e \in Events, DeleteEventForRun(s, e) PROVE OneShot'
    <2>1. RemoveRecords({e}, "deleted_by_agent") /\ {e} \in SUBSET Events /\ KeepsTriggers /\ owner[e] # NoSession
        BY <1>4, ConstantsAssumption DEF DeleteEventForRun, KeepsTriggers
    <2>2. LogStep
        BY <1>0, <2>1, RemoveLogs
    <2> QED BY <1>0, <2>1, <2>2, KeptOnce
<1>5. CASE RunComplete(s) \/ RunFail(s)
    <2>1. PICK o : SetRunStatus(s, active[s], o)
        BY <1>5 DEF RunComplete, RunFail
    <2>2. owner' = owner /\ logged' = logged /\ pending' = pending /\ active[s] \in RunIds
        BY <1>5 DEF RunComplete, RunFail, RunIsRunning, eventVars
    <2>3. KeepsTriggers
        BY <1>0, <2>1, <2>2, EndKeeps DEF KeepsTriggers
    <2> QED BY <1>0, <1>1, <2>2, <2>3, KeptOnce
<1>6. CASE RunFinish(s)
    <2>1. owner' = owner /\ logged' = logged
        BY <1>6 DEF RunFinish
    <2>2. CASE ~Dispatches(s)
        <3>1. KeepsTriggers
            BY <1>6, <2>2 DEF RunFinish, KeepsTriggers
        <3> QED BY <1>0, <1>1, <2>1, <3>1, KeptOnce
    <2>3. CASE Dispatches(s)
        <3> DEFINE batch == [t \in Sessions |-> Batch(pending[t])]
                   k == [t \in Sessions |-> current[t] + 1]
        <3>1. InsertRuns({s}, batch, 0, 0) /\ {s} \in SUBSET Sessions /\ HasRunId(s)
              /\ pending' = [pending EXCEPT ![s] = Remainder(pending[s])]
            BY <1>6, <2>3 DEF RunFinish
        <3>2. \A t \in Sessions : batch[t] = Batch(pending[t]) /\ k[t] = current[t] + 1
            OBVIOUS
        <3> HIDE DEF batch, k
        <3>3. PICK P : P = Layout
            OBVIOUS
        <3>4. PICK Q : Q = Layout'
            OBVIOUS
        <3>5. PICK L : L = logged'
            OBVIOUS
        <3>6. P \in Layouts /\ OnceIn(P) /\ FiredIn(P, logged) /\ LoggedOnce
            BY <1>0, <3>3, LayoutType DEF OneShot
        <3>7. LoggedOnce' /\ FiredIn(P, L)
            BY <1>1, <2>1, <3>5, <3>6, LogNext
        <3>8. HandOver(P, Q, {s}, k)
            <4> SUFFICES ASSUME NEW t \in Sessions, NEW i \in Places
                         PROVE  Q[t][i] = IF t \in {s} /\ i = 0 THEN Remainder(P[t][0])
                                          ELSE IF t \in {s} /\ i = k[t] THEN Batch(P[t][0])
                                          ELSE P[t][i]
                BY DEF HandOver
            <4>1. Q[t][i] = Place(t, i)' /\ P[t][i] = Place(t, i) /\ P[t][0] = pending[t]
                BY <3>3, <3>4, ConstantsAssumption DEF Layout, Places, Place
            <4>2. CASE i = 0
                <5>1. Q[t][i] = pending'[t] /\ P[t][i] = pending[t]
                    BY <4>1, <4>2 DEF Place
                <5>2. pending'[t] = IF t = s THEN Remainder(pending[s]) ELSE pending[t]
                    BY <1>0, <3>1 DEF TypeOK
                <5>3. k[t] # 0
                    BY <1>0, <3>2 DEF TypeOK
                <5> QED BY <4>1, <4>2, <5>1, <5>2, <5>3
            <4>3. CASE i # 0
                <5>1. i \in RunIds
                    BY <4>3, ConstantsAssumption DEF Places, RunIds
                <5>2. Q[t][i] = runs'[t][i].triggers /\ P[t][i] = runs[t][i].triggers
                    BY <4>1, <4>3 DEF Place
                <5>a. InsertRuns({s}, batch, 0, 0) /\ {s} \in SUBSET Sessions
                    BY <3>1
                <5>3. runs'[t][i].triggers = IF t \in {s} /\ i = current[t] + 1 THEN batch[t] ELSE runs[t][i].triggers
                    BY <5>1, <5>a, InsertRunsTriggers
                <5> QED BY <3>2, <4>1, <4>3, <5>2, <5>3
            <4> QED BY <4>2, <4>3
        <3>9. \A t \in {s} : k[t] \in RunIds
            BY <1>0, <3>1, <3>2, ConstantsAssumption DEF TypeOK, HasRunId, RunIds
        <3>10. OnceIn(Q) /\ FiredIn(Q, L)
            BY <3>1, <3>6, <3>7, <3>8, <3>9, HandOverOnce
        <3> QED BY <3>4, <3>5, <3>7, <3>10, OneShotNext
    <2> QED BY <2>2, <2>3
<1> QED BY <1>2, <1>3, <1>4, <1>5, <1>6 DEF RunStep

\* A round fires Events that have a row, lists each of them once, in the queue
\* of the Session that owns it, and logs what it fires and what it expires.
LEMMA RoundOnce ==
    ASSUME Lifecycle, OneShot, NEW X \in SUBSET Events, NEW F \in SUBSET Events, NEW finished,
           EventRound(X, F, finished)
    PROVE  OneShot'
<1>0. TypeOK
    BY DEF Lifecycle
<1>1. /\ X \cap F = {} /\ \A e \in X \cup F : owner[e] # NoSession
      /\ owner' = [e \in Events |-> IF e \in X \cup F THEN NoSession ELSE owner[e]]
      /\ logged' = [e \in Events |-> IF e \in X THEN logged[e] \cup {"expired"}
                                     ELSE IF e \in F THEN logged[e] \cup {"fired"}
                                     ELSE logged[e]]
    BY DEF EventRound
<1>2. PICK a \in Arrivals(F) : AdmitFired({s \in Sessions : EventsOf(s) \cap F # {}}, a, finished)
    BY DEF EventRound
<1>3. LogStep
    <2> SUFFICES ASSUME NEW e \in Events
                 PROVE  \/ /\ logged'[e] = logged[e]
                           /\ owner'[e] \in {owner[e], NoSession} \/ logged[e] = {}
                        \/ /\ owner[e] # NoSession /\ owner'[e] = NoSession
                           /\ \E o : logged'[e] = logged[e] \cup {o}
        BY DEF LogStep
    <2>1. CASE e \in X
        BY <1>1, <2>1
    <2>2. CASE e \in F /\ e \notin X
        BY <1>1, <2>2
    <2>3. CASE e \notin X \cup F
        BY <1>1, <2>3
    <2> QED BY <2>1, <2>2, <2>3
<1>4. a \in [Sessions -> Seq(Payloads)]
    BY ArrivalsType
<1>5. ASSUME NEW s \in Sessions
      PROVE  /\ \A m \in DOMAIN a[s] : a[s][m] \in F /\ owner[a[s][m]] = s
             /\ \A m, n \in DOMAIN a[s] : a[s][m] = a[s][n] => m = n
    <2>1. a[s] \in Listings(F \cap EventsOf(s))
        BY DEF Arrivals
    <2>2. /\ a[s] \in [1..Cardinality(F \cap EventsOf(s)) -> F \cap EventsOf(s)]
          /\ \A m, n \in DOMAIN a[s] : a[s][m] = a[s][n] => m = n
        BY <2>1 DEF Listings
    <2>3. \A m \in DOMAIN a[s] : a[s][m] \in F \cap EventsOf(s)
        BY <2>2
    <2> QED BY <2>2, <2>3 DEF EventsOf
<1>6. \A e \in F : logged[e] = {} /\ logged'[e] = {"fired"} /\ e \in Events
    BY <1>1 DEF OneShot, LoggedOnce
<1>7. PICK P : P = Layout
    OBVIOUS
<1>8. PICK L : L = logged'
    OBVIOUS
<1>9. ArriveOnce(P, a, L)
    <2>1. ASSUME NEW s \in Sessions, NEW t \in Sessions, NEW m \in DOMAIN a[s], NEW n \in DOMAIN a[t],
                 a[s][m] = a[t][n]
          PROVE  s = t /\ m = n
        <3>1. s = t
            BY <1>5, <2>1
        <3> QED BY <1>5, <2>1, <3>1
    <2>2. \A s \in Sessions : \A m \in DOMAIN a[s] : L[a[s][m]] = {"fired"}
        BY <1>5, <1>6, <1>8
    <2>3. ASSUME NEW s \in Sessions, NEW t \in Sessions, NEW i \in Places,
                 NEW m \in DOMAIN P[s][i], NEW n \in DOMAIN a[t], P[s][i][m] # Mention
          PROVE  P[s][i][m] # a[t][n]
        <3>1. logged[P[s][i][m]] = {"fired"}
            BY <1>7, <2>3 DEF OneShot, FiredIn
        <3>2. logged[a[t][n]] = {}
            BY <1>5, <1>6
        <3> QED BY <3>1, <3>2
    <2> QED BY <2>1, <2>2, <2>3 DEF ArriveOnce
<1> DEFINE S == {s \in Sessions : EventsOf(s) \cap F # {}}
<1>10. S \in SUBSET Sessions /\ AdmitFired(S, a, finished)
    BY <1>2
<1> HIDE DEF S
<1> QED BY <1>3, <1>4, <1>7, <1>8, <1>9, <1>10, AdmitOnce

LEMMA OneShotBackground ==
    ASSUME Lifecycle, OneShot, Background
    PROVE  OneShot'
<1>0. TypeOK
    BY DEF Lifecycle
<1>1. PICK finished \in BOOLEAN :
        \/ \E X, F \in SUBSET Events : EventRound(X, F, finished)
        \/ \E s \in Sessions : ChatWake(s, finished)
    BY DEF Background
<1>2. ASSUME NEW s \in Sessions, ChatWake(s, finished) PROVE OneShot'
    <2> DEFINE a == [t \in Sessions |-> IF t = s THEN <<Mention>> ELSE <<>>]
    <2>1. AdmitFired({s}, a, finished) /\ {s} \in SUBSET Sessions
        BY <1>2 DEF ChatWake
    <2>a. Mention \in Payloads
        BY DEF Payloads
    <2>b. <<Mention>> \in Seq(Payloads) /\ <<>> \in Seq(Payloads)
        BY <2>a
    <2>2. a \in [Sessions -> Seq(Payloads)]
        BY <2>b
    <2>3. \A t \in Sessions : \A m \in DOMAIN a[t] : a[t][m] = Mention
        OBVIOUS
    <2> HIDE DEF a
    <2>4. LogStep
        BY <1>2 DEF ChatWake, LogStep
    <2>5. PICK P : P = Layout
        OBVIOUS
    <2>6. PICK L : L = logged'
        OBVIOUS
    <2>7. ArriveOnce(P, a, L)
        BY <2>3 DEF ArriveOnce
    <2> QED BY <2>1, <2>2, <2>4, <2>5, <2>6, <2>7, AdmitOnce
<1> QED BY <1>1, <1>2, RoundOnce

\* A process step leaves every trigger where it is: a recovery Run gets none.
LEMMA ProcessStepKeeps ==
    ASSUME Lifecycle, RowsAreBlank, ProcessStep
    PROVE  KeepsTriggers
<1>0. TypeOK
    BY DEF Lifecycle
<1>1. pending' = pending
    BY DEF ProcessStep, LatchFault, Quiesce, Exit, Crash, Boot, eventVars
<1>2. ASSUME NEW s \in Sessions, NEW i \in RunIds PROVE runs'[s][i].triggers = runs[s][i].triggers
    <2>0. runs[s] \in [RunIds -> Run]
        BY <1>0 DEF TypeOK
    <2>1. CASE LatchFault \/ Exit \/ Crash
        BY <2>1 DEF LatchFault, Exit, Crash
    <2>2. ASSUME NEW unsaved \in SUBSET Sessions, Quiesce(unsaved)
          PROVE  runs'[s][i].triggers = runs[s][i].triggers
        <3>1. CASE s \notin unsaved /\ RunIsRunning(s, active[s])
            <4>1. runs'[s] = [runs[s] EXCEPT ![active[s]] = Ended(runs[s][active[s]], "interrupted")]
                BY <2>2, <3>1 DEF Quiesce
            <4>2. runs'[s][i] = IF i = active[s] THEN Ended(runs[s][i], "interrupted") ELSE runs[s][i]
                BY <2>0, <4>1
            <4> QED BY <4>2 DEF Ended
        <3>2. CASE ~(s \notin unsaved /\ RunIsRunning(s, active[s]))
            BY <2>2, <3>2 DEF Quiesce
        <3> QED BY <3>1, <3>2
    <2>3. ASSUME NEW finished \in BOOLEAN, Boot(finished)
          PROVE  runs'[s][i].triggers = runs[s][i].triggers
        <3>1. runs'[s][i] = IF status[s] = "running" /\ i = current[s] + 1 THEN NewRun(<<>>, 0, 0)
                            ELSE IF runs[s][i].status = "running" THEN Ended(runs[s][i], "interrupted") ELSE runs[s][i]
            BY <2>3 DEF Boot
        <3>2. i = current[s] + 1 => runs[s][i].triggers = <<>>
            BY InsertedIsBlank DEF NoRun
        <3> QED BY <3>1, <3>2 DEF NewRun, Ended
    <2> QED BY <2>1, <2>2, <2>3 DEF ProcessStep
<1> QED BY <1>1, <1>2 DEF KeepsTriggers

LEMMA OneShotProcessStep ==
    ASSUME Lifecycle, RowsAreBlank, OneShot, ProcessStep
    PROVE  OneShot'
<1>1. owner' = owner /\ logged' = logged
    BY DEF ProcessStep, LatchFault, Quiesce, Exit, Crash, Boot, eventVars
<1>2. LogStep
    BY <1>1 DEF LogStep
<1> QED BY <1>2, ProcessStepKeeps, KeptOnce DEF Lifecycle

\* Every Event has at most one outcome, and a fired one is a trigger of one
\* Session in one place: the queue, or one Run.  No order of rounds, handovers,
\* stops, faults, crashes and recoveries makes a trigger appear twice.
THEOREM TriggersAreOneShot == Spec => []EventsAreOneShot
<1>1. Lifecycle /\ RowsInv /\ OneShot /\ [Next]_vars => OneShot'
    <2> SUFFICES ASSUME Lifecycle, RowsAreBlank, OneShot, [Next]_vars PROVE OneShot'
        BY DEF RowsInv
    <2>1. CASE UNCHANGED vars
        <3>1. LogStep /\ KeepsTriggers
            BY <2>1 DEF vars, eventVars, LogStep, KeepsTriggers
        <3> QED BY <3>1, KeptOnce DEF Lifecycle
    <2> QED BY <2>1, OneShotUserRequest, OneShotRunStep, OneShotBackground, OneShotProcessStep DEF Next
<1>2. OneShot => EventsAreOneShot
    <2> SUFFICES ASSUME OneShot, NEW s \in Sessions, NEW i \in Places, NEW m \in DOMAIN Place(s, i),
                        Place(s, i)[m] # Mention
                 PROVE  /\ logged[Place(s, i)[m]] = {"fired"}
                        /\ \A t \in Sessions, j \in Places : \A n \in DOMAIN Place(t, j) :
                             Place(t, j)[n] = Place(s, i)[m] => s = t /\ i = j /\ m = n
        BY DEF EventsAreOneShot, OneShot, LoggedOnce, Places
    <2>1. \A t \in Sessions, j \in Places : Layout[t][j] = Place(t, j)
        BY DEF Layout
    <2>2. logged[Place(s, i)[m]] = {"fired"}
        BY <2>1 DEF OneShot, FiredIn
    <2>3. ASSUME NEW t \in Sessions, NEW j \in Places, NEW n \in DOMAIN Place(t, j),
                 Place(t, j)[n] = Place(s, i)[m]
          PROVE  s = t /\ i = j /\ m = n
        BY <2>1, <2>3 DEF OneShot, OnceIn
    <2> QED BY <2>2, <2>3
<1> QED BY <1>1, <1>2, OneShotInit, LifecycleInvariant, RowsInvariant, PTL DEF Spec
-----------------------------------------------------------------------------
(* The trigger queue implements TriggerQueue.  Delivered is a recursive        *)
(* function over the run ids: what it returns is proved by induction on them, *)
(* in the form of the least run id at which a claim fails.                    *)

\* Induction on run ids, as the least counterexample.
LEMMA LeastElement ==
    ASSUME NEW S \in SUBSET Nat, S # {}
    PROVE  \E n \in S : \A m \in S : n <= m
<1> DEFINE R == OpToRel(<, Nat)
<1>1. IsWellFoundedOn(R, Nat)
    BY NatLessThanWellFounded
<1> HIDE DEF R
<1>2. PICK n \in S : \A m \in S : ~(<<m, n>> \in R)
    BY <1>1, WFMin, Zenon
<1>3. \A m \in S : ~(m < n)
    BY <1>2 DEF OpToRel, R
<1> QED BY <1>3

\* Delivered of a Session's rows, up to each row.
UpTo(rows) ==
    CHOOSE upTo : upTo = [i \in 0..MaxRun |-> IF i = 0 THEN <<>> ELSE upTo[i - 1] \o rows[i].triggers]

\* What the model calls Delivered is the last of them, before and after a step.
LEMMA DeliveredIs ==
    ASSUME NEW s
    PROVE  Delivered(s) = UpTo(runs[s])[MaxRun] /\ Delivered(s)' = UpTo(runs'[s])[MaxRun]
BY DEF Delivered, UpTo

\* The recursive definition has a solution.
LEMMA UpToEquation ==
    ASSUME NEW rows
    PROVE  UpTo(rows) = [i \in 0..MaxRun |-> IF i = 0 THEN <<>> ELSE UpTo(rows)[i - 1] \o rows[i].triggers]
<1> DEFINE Solves(f, n) == f = [i \in 0..n |-> IF i = 0 THEN <<>> ELSE f[i - 1] \o rows[i].triggers]
           Bad == {n \in 0..MaxRun : ~\E f : Solves(f, n)}
<1>0. MaxRun \in Nat
    BY ConstantsAssumption
<1>1. Bad = {}
    <2> SUFFICES ASSUME Bad # {} PROVE FALSE
        OBVIOUS
    <2>0. \A n \in Bad : n \in 0..MaxRun
        BY Zenon
    <2>1. Bad \in SUBSET Nat
        <3> HIDE DEF Bad
        <3> QED BY <1>0, <2>0
    <2>2. PICK n \in Bad : \A m \in Bad : n <= m
        BY <2>1, LeastElement
    <2>3. n \in 0..MaxRun /\ ~\E f : Solves(f, n)
        OBVIOUS
    <2>4. CASE n = 0
        <3> DEFINE f == [i \in 0..0 |-> <<>>]
        <3>1. f = [i \in 0..0 |-> IF i = 0 THEN <<>> ELSE f[i - 1] \o rows[i].triggers]
            OBVIOUS
        <3> QED BY <2>3, <2>4, <3>1
    <2>5. CASE n # 0
        <3>1. n - 1 \in 0..MaxRun /\ ~(n <= n - 1) /\ n \in Nat
            BY <1>0, <2>3, <2>5
        <3>2. n - 1 \notin Bad
            BY <2>2, <3>1
        <3>3. PICK f : Solves(f, n - 1)
            BY <3>1, <3>2
        <3> DEFINE g == [i \in 0..n |-> IF i = n THEN f[n - 1] \o rows[n].triggers ELSE f[i]]
        <3>4. ASSUME NEW i \in 0..n
              PROVE  g[i] = IF i = 0 THEN <<>> ELSE g[i - 1] \o rows[i].triggers
            <4>1. CASE i = n
                <5>1. i # 0 /\ i - 1 \in 0..n /\ i - 1 # n
                    BY <2>5, <3>1, <4>1
                <5> QED BY <4>1, <5>1
            <4>2. CASE i # n
                <5>1. i \in 0..(n - 1)
                    BY <3>1, <4>2
                <5>2. g[i] = f[i]
                    BY <4>2
                <5>3. f[i] = IF i = 0 THEN <<>> ELSE f[i - 1] \o rows[i].triggers
                    BY <3>3, <5>1
                <5>4. i # 0 => i - 1 \in 0..n /\ i - 1 # n
                    BY <3>1, <5>1
                <5>5. i # 0 => g[i - 1] = f[i - 1]
                    BY <5>4
                <5> QED BY <5>2, <5>3, <5>5
            <4> QED BY <4>1, <4>2
        <3>5. g = [i \in 0..n |-> g[i]]
            OBVIOUS
        <3> HIDE DEF g
        <3>6. g = [i \in 0..n |-> IF i = 0 THEN <<>> ELSE g[i - 1] \o rows[i].triggers]
            BY <3>4, <3>5
        <3> QED BY <2>3, <3>6
    <2> QED BY <2>4, <2>5
<1>2. MaxRun \in 0..MaxRun
    BY <1>0
<1>3. \E f : f = [i \in 0..MaxRun |-> IF i = 0 THEN <<>> ELSE f[i - 1] \o rows[i].triggers]
    BY <1>1, <1>2
<1> QED BY <1>3, Zenon DEF UpTo

\* Rows that hold triggers deliver triggers.
LEMMA UpToType ==
    ASSUME NEW rows, \A i \in RunIds : rows[i].triggers \in Seq(Payloads), NEW n \in 0..MaxRun
    PROVE  UpTo(rows)[n] \in Seq(Payloads)
<1> DEFINE U == UpTo(rows)
           Bad == {i \in 0..MaxRun : U[i] \notin Seq(Payloads)}
<1>0. MaxRun \in Nat
    BY ConstantsAssumption
<1>1. \A i \in 0..MaxRun : U[i] = IF i = 0 THEN <<>> ELSE U[i - 1] \o rows[i].triggers
    <2>1. U = [i \in 0..MaxRun |-> IF i = 0 THEN <<>> ELSE U[i - 1] \o rows[i].triggers]
        BY UpToEquation
    <2> HIDE DEF U
    <2> QED BY <2>1
<1> HIDE DEF U
<1> SUFFICES ASSUME Bad # {} PROVE FALSE
    BY DEF U
<1>2. Bad \in SUBSET Nat
    BY <1>0
<1>3. PICK k \in Bad : \A m \in Bad : k <= m
    BY <1>2, LeastElement
<1>4. k # 0
    BY <1>1, EmptySeq
<1>5. k - 1 \in 0..MaxRun /\ k \in RunIds /\ ~(k <= k - 1)
    BY <1>0, <1>4 DEF RunIds
<1>6. U[k - 1] \in Seq(Payloads)
    BY <1>3, <1>5
<1>7. U[k - 1] \o rows[k].triggers \in Seq(Payloads)
    BY <1>5, <1>6, ConcatProperties
<1> QED BY <1>1, <1>4, <1>7

\* One row gets triggers, and none after it has any: they come last.
LEMMA UpToAppends ==
    ASSUME NEW old, NEW new, NEW k \in RunIds, NEW b \in Seq(Payloads),
           \A i \in RunIds : old[i].triggers \in Seq(Payloads),
           \A i \in RunIds : i >= k => old[i].triggers = <<>>,
           \A i \in RunIds : new[i].triggers = IF i = k THEN b ELSE old[i].triggers
    PROVE  UpTo(new)[MaxRun] = UpTo(old)[MaxRun] \o b
<1> DEFINE U == UpTo(old)
           V == UpTo(new)
           Bad == {i \in 0..MaxRun : V[i] # IF i < k THEN U[i] ELSE U[i] \o b}
<1>0. MaxRun \in Nat /\ k \in Nat /\ k <= MaxRun /\ k # 0
    BY ConstantsAssumption DEF RunIds
<1>1. \A i \in 0..MaxRun : U[i] = IF i = 0 THEN <<>> ELSE U[i - 1] \o old[i].triggers
    <2>1. U = [i \in 0..MaxRun |-> IF i = 0 THEN <<>> ELSE U[i - 1] \o old[i].triggers]
        BY UpToEquation
    <2> HIDE DEF U
    <2> QED BY <2>1
<1>2. \A i \in 0..MaxRun : V[i] = IF i = 0 THEN <<>> ELSE V[i - 1] \o new[i].triggers
    <2>1. V = [i \in 0..MaxRun |-> IF i = 0 THEN <<>> ELSE V[i - 1] \o new[i].triggers]
        BY UpToEquation
    <2> HIDE DEF V
    <2> QED BY <2>1
<1>3. \A i \in 0..MaxRun : U[i] \in Seq(Payloads)
    BY UpToType
<1> HIDE DEF U, V
<1>4. Bad = {}
    <2> SUFFICES ASSUME Bad # {} PROVE FALSE
        OBVIOUS
    <2>1. Bad \in SUBSET Nat
        BY <1>0
    <2>2. PICK i \in Bad : \A m \in Bad : i <= m
        BY <2>1, LeastElement
    <2>3. i \in 0..MaxRun /\ V[i] # IF i < k THEN U[i] ELSE U[i] \o b
        OBVIOUS
    <2>4. i # 0
        BY <1>0, <1>1, <1>2, <2>3
    <2>5. i - 1 \in 0..MaxRun /\ i \in RunIds /\ ~(i <= i - 1)
        BY <1>0, <2>3, <2>4 DEF RunIds
    <2>6. V[i - 1] = IF i - 1 < k THEN U[i - 1] ELSE U[i - 1] \o b
        BY <2>2, <2>5
    <2>7. U[i] = U[i - 1] \o old[i].triggers /\ V[i] = V[i - 1] \o new[i].triggers /\ U[i - 1] \in Seq(Payloads)
        BY <1>1, <1>2, <1>3, <2>3, <2>4, <2>5
    <2>8. CASE i < k
        <3>1. V[i - 1] = U[i - 1] /\ new[i].triggers = old[i].triggers
            BY <1>0, <2>3, <2>5, <2>6, <2>8
        <3> QED BY <2>3, <2>7, <2>8, <3>1
    <2>9. CASE i = k
        <3>1. V[i - 1] = U[i - 1] /\ new[i].triggers = b /\ old[i].triggers = <<>> /\ ~(i < k)
            BY <1>0, <2>3, <2>5, <2>6, <2>9
        <3>2. U[i] = U[i - 1]
            BY <2>7, <3>1, ConcatEmptySeq
        <3> QED BY <2>3, <2>7, <3>1, <3>2
    <2>10. CASE i > k
        <3>1. V[i - 1] = U[i - 1] \o b /\ new[i].triggers = <<>> /\ old[i].triggers = <<>> /\ ~(i < k)
            BY <1>0, <2>3, <2>5, <2>6, <2>10
        <3>2. U[i] = U[i - 1]
            BY <2>7, <3>1, ConcatEmptySeq
        <3>3. U[i - 1] \o b \in Seq(Payloads)
            BY <2>7, ConcatProperties
        <3>4. V[i] = U[i - 1] \o b
            BY <2>7, <3>1, <3>3, ConcatEmptySeq
        <3> QED BY <2>3, <3>1, <3>2, <3>4
    <2> QED BY <1>0, <2>3, <2>8, <2>9, <2>10
<1>5. MaxRun \in 0..MaxRun /\ ~(MaxRun < k)
    BY <1>0
<1> QED BY <1>4, <1>5 DEF U, V

\* No row gets other triggers.
LEMMA UpToKeeps ==
    ASSUME NEW old, NEW new, \A i \in RunIds : new[i].triggers = old[i].triggers
    PROVE  UpTo(new)[MaxRun] = UpTo(old)[MaxRun]
<1> DEFINE U == UpTo(old)
           V == UpTo(new)
           Bad == {i \in 0..MaxRun : V[i] # U[i]}
<1>0. MaxRun \in Nat
    BY ConstantsAssumption
<1>1. \A i \in 0..MaxRun : U[i] = IF i = 0 THEN <<>> ELSE U[i - 1] \o old[i].triggers
    <2>1. U = [i \in 0..MaxRun |-> IF i = 0 THEN <<>> ELSE U[i - 1] \o old[i].triggers]
        BY UpToEquation
    <2> HIDE DEF U
    <2> QED BY <2>1
<1>2. \A i \in 0..MaxRun : V[i] = IF i = 0 THEN <<>> ELSE V[i - 1] \o new[i].triggers
    <2>1. V = [i \in 0..MaxRun |-> IF i = 0 THEN <<>> ELSE V[i - 1] \o new[i].triggers]
        BY UpToEquation
    <2> HIDE DEF V
    <2> QED BY <2>1
<1> HIDE DEF U, V
<1>3. Bad = {}
    <2> SUFFICES ASSUME Bad # {} PROVE FALSE
        OBVIOUS
    <2>1. Bad \in SUBSET Nat
        BY <1>0
    <2>2. PICK i \in Bad : \A m \in Bad : i <= m
        BY <2>1, LeastElement
    <2>3. i \in 0..MaxRun /\ V[i] # U[i]
        OBVIOUS
    <2>4. i # 0
        BY <1>1, <1>2, <2>3
    <2>5. i - 1 \in 0..MaxRun /\ i \in RunIds /\ ~(i <= i - 1)
        BY <1>0, <2>3, <2>4 DEF RunIds
    <2>6. V[i - 1] = U[i - 1] /\ new[i].triggers = old[i].triggers
        BY <2>2, <2>5
    <2>7. U[i] = U[i - 1] \o old[i].triggers /\ V[i] = V[i - 1] \o new[i].triggers
        BY <1>1, <1>2, <2>3, <2>4
    <2> QED BY <2>3, <2>6, <2>7
<1>4. MaxRun \in 0..MaxRun
    BY <1>0
<1> QED BY <1>3, <1>4 DEF U, V

\* A batch and what it leaves make up the queue.
LEMMA BatchSplits ==
    ASSUME NEW q \in Seq(Payloads)
    PROVE  /\ Batch(q) \in Seq(Payloads) /\ Remainder(q) \in Seq(Payloads)
           /\ Len(Batch(q)) = BatchSize(q) /\ Batch(q) \o Remainder(q) = q
<1> DEFINE b == BatchSize(q)
<1>1. b \in Nat /\ b <= Len(q) /\ Len(q) \in Nat
    BY ConstantsAssumption DEF BatchSize
<1>2. Batch(q) \in Seq(Payloads) /\ Remainder(q) \in Seq(Payloads)
    BY BatchType
<1>3. DOMAIN Batch(q) = 1..b
    BY BatchParts
<1> HIDE DEF b
<1>4. Len(Batch(q)) = b
    <2>1. Len(Batch(q)) \in Nat /\ DOMAIN Batch(q) = 1..Len(Batch(q))
        BY <1>2, LenProperties
    <2> QED BY <1>1, <1>3, <2>1
<1>5. 1 \in 1..(Len(q) + 1) /\ b \in (1 - 1)..Len(q) /\ Len(q) \in b..Len(q)
    BY <1>1
<1>6. SubSeq(q, 1, b) \o SubSeq(q, b + 1, Len(q)) = SubSeq(q, 1, Len(q))
    BY <1>5, ConcatAdjacentSubSeq
<1>7. SubSeq(q, 1, Len(q)) = q
    BY SubSeqFull
<1> QED BY <1>2, <1>4, <1>6, <1>7 DEF b, Batch, Remainder

\* A sequence begins what it is the front of.
LEMMA FrontOf ==
    ASSUME NEW d \in Seq(Payloads), NEW p \in Seq(Payloads)
    PROVE  /\ Len(d) <= Len(d \o p) /\ Len(d) \in Nat
           /\ SubSeq(d \o p, 1, Len(d)) = d
<1>1. /\ d \o p \in Seq(Payloads) /\ Len(d \o p) = Len(d) + Len(p)
      /\ \A i \in 1..(Len(d) + Len(p)) : (d \o p)[i] = IF i <= Len(d) THEN d[i] ELSE p[i - Len(d)]
    BY ConcatProperties
<1>2. Len(d) \in Nat /\ Len(p) \in Nat
    BY LenProperties
<1> DEFINE n == Len(d)
           dp == d \o p
<1>3. \A i \in 1..n : dp[i] = d[i] /\ d[i] \in Payloads
    BY <1>1, <1>2
<1>4. n \in Nat /\ n <= Len(dp)
    BY <1>1, <1>2
<1> HIDE DEF n, dp
<1>5. \A i \in 1..n : dp[i] \in Payloads
    BY <1>3
<1>6. /\ SubSeq(dp, 1, n) \in Seq(Payloads)
      /\ Len(SubSeq(dp, 1, n)) = IF 1 <= n THEN n - 1 + 1 ELSE 0
      /\ \A i \in 1..(n - 1 + 1) : SubSeq(dp, 1, n)[i] = dp[1 + i - 1]
    BY <1>4, <1>5, SubSeqProperties
<1>7. Len(SubSeq(dp, 1, n)) = n /\ \A i \in 1..n : SubSeq(dp, 1, n)[i] = d[i]
    BY <1>3, <1>4, <1>6
<1>8. SubSeq(dp, 1, n) = d
    BY <1>6, <1>7, SeqEqual DEF n
<1> QED BY <1>4, <1>8 DEF n, dp

LEMMA Regroup ==
    ASSUME NEW x \in Seq(Payloads), NEW y \in Seq(Payloads), NEW z \in Seq(Payloads)
    PROVE  (x \o y) \o z = x \o (y \o z)
BY ConcatAssociative

\* Handing over the front of a queue moves the cut, not the stream, by one
\* batch: MaxTriggersPerRun triggers, or all there are.
LEMMA BatchMovesCut ==
    ASSUME NEW d \in Seq(Payloads), NEW q \in Seq(Payloads), q # <<>>
    PROVE  /\ (d \o Batch(q)) \o Remainder(q) = d \o q
           /\ Len(d \o Batch(q)) > Len(d)
           /\ \/ Len(d \o Batch(q)) = Len(d) + MaxTriggersPerRun
              \/ /\ Len(d \o Batch(q)) = Len(d \o q)
                 /\ Len(d \o Batch(q)) < Len(d) + MaxTriggersPerRun
<1>1. PICK front, rest : front = Batch(q) /\ rest = Remainder(q)
    OBVIOUS
<1>2. front \in Seq(Payloads) /\ rest \in Seq(Payloads) /\ Len(front) = BatchSize(q) /\ front \o rest = q
    BY <1>1, BatchSplits
<1>3. front \in Seq(Payloads) /\ rest \in Seq(Payloads)
    BY <1>2
<1>4. /\ (d \o front) \o rest = d \o q
      /\ Len(d \o front) = Len(d) + Len(front)
      /\ Len(d \o q) = Len(d) + Len(q)
    <2>1. (d \o front) \o rest = d \o (front \o rest)
        BY <1>3, Regroup
    <2>2. Len(d \o front) = Len(d) + Len(front)
        BY <1>3, ConcatProperties
    <2>3. Len(d \o q) = Len(d) + Len(q)
        BY ConcatProperties
    <2>4. front \o rest = q
        BY <1>2
    <2> QED BY <2>1, <2>2, <2>3, <2>4, Zenon
<1>5. Len(q) \in Nat /\ Len(d) \in Nat /\ Len(q) # 0
    BY LenProperties, EmptySeq
<1>6. BatchSize(q) = IF Len(q) < MaxTriggersPerRun THEN Len(q) ELSE MaxTriggersPerRun
    BY DEF BatchSize
<1>7. MaxTriggersPerRun \in Nat /\ MaxTriggersPerRun # 0
    BY ConstantsAssumption
<1>8. PICK n, l, m, u, w : n = Len(q) /\ l = Len(d) /\ m = BatchSize(q)
                          /\ u = Len(d \o front) /\ w = Len(d \o q)
    OBVIOUS
<1>9. u = l + m /\ w = l + n /\ n \in Nat /\ l \in Nat /\ n # 0
      /\ m = IF n < MaxTriggersPerRun THEN n ELSE MaxTriggersPerRun
    BY <1>2, <1>4, <1>5, <1>6, <1>8
<1>10. u > l /\ (u = l + MaxTriggersPerRun \/ (u = w /\ u < l + MaxTriggersPerRun))
    BY <1>7, <1>9
<1> QED BY <1>1, <1>4, <1>8, <1>10

\* How one step changes what has been handed over (d), the queue (p) and
\* whether the Session runs (o): nothing or a start; a stop; arrivals, of which
\* the front may be handed over at once.
Moves(d, p, o, d1, p1, o1) ==
    \/ d1 = d /\ p1 = p /\ (o => o1)
    \/ d1 = d /\ p1 = <<>> /\ ~o1 /\ (o \/ p = <<>>)
    \/ /\ o /\ o1
       /\ \E a \in Seq(Payloads) :
            \/ d1 = d /\ p1 = p \o a
            \/ p \o a # <<>> /\ d1 = d \o Batch(p \o a) /\ p1 = Remainder(p \o a)

\* TriggerQueue's four steps, over the values before and after.
Permitted(st, n, o, st1, n1, o1) ==
    \/ /\ o /\ o1 /\ Len(st) <= Len(st1) /\ SubSeq(st1, 1, Len(st)) = st
       /\ \/ n1 = n
          \/ /\ n1 > n
             /\ n1 = n + MaxTriggersPerRun \/ (n1 = Len(st1) /\ n1 < n + MaxTriggersPerRun)
    \/ ~o /\ o1 /\ st1 = st /\ n1 = n
    \/ o /\ ~o1 /\ st1 = SubSeq(st, 1, n) /\ n1 = n
    \/ o1 = o /\ st1 = st /\ n1 = n

\* Every such change is one that TriggerQueue permits.
LEMMA MovesArePermitted ==
    ASSUME NEW d \in Seq(Payloads), NEW p \in Seq(Payloads), NEW d1, NEW p1,
           NEW o \in BOOLEAN, NEW o1 \in BOOLEAN, Moves(d, p, o, d1, p1, o1)
    PROVE  Permitted(d \o p, Len(d), o, d1 \o p1, Len(d1), o1)
<1>1. CASE d1 = d /\ p1 = p /\ (o => o1)
    BY <1>1 DEF Permitted
<1>2. CASE d1 = d /\ p1 = <<>> /\ ~o1 /\ (o \/ p = <<>>)
    <2>1. SubSeq(d \o p, 1, Len(d)) = d /\ d1 \o p1 = d
        BY <1>2, FrontOf, ConcatEmptySeq
    <2> QED BY <1>2, <2>1 DEF Permitted
<1>3. ASSUME o, o1, NEW a \in Seq(Payloads),
             \/ d1 = d /\ p1 = p \o a
             \/ p \o a # <<>> /\ d1 = d \o Batch(p \o a) /\ p1 = Remainder(p \o a)
      PROVE  Permitted(d \o p, Len(d), o, d1 \o p1, Len(d1), o1)
    <2> DEFINE q == p \o a
               st == d \o p
    <2>1. q \in Seq(Payloads) /\ st \in Seq(Payloads) /\ st \o a = d \o q
        BY ConcatProperties, ConcatAssociative
    <2>2. Len(st) <= Len(st \o a) /\ SubSeq(st \o a, 1, Len(st)) = st
        BY <2>1, FrontOf
    <2>3. \/ d1 = d /\ p1 = q
          \/ q # <<>> /\ d1 = d \o Batch(q) /\ p1 = Remainder(q)
        BY <1>3
    <2> HIDE DEF q, st
    <2>4. CASE d1 = d /\ p1 = q
        BY <1>3, <2>1, <2>2, <2>4 DEF Permitted, st
    <2>5. CASE q # <<>> /\ d1 = d \o Batch(q) /\ p1 = Remainder(q)
        <3>1. /\ d1 \o p1 = st \o a /\ Len(d1) > Len(d)
              /\ \/ Len(d1) = Len(d) + MaxTriggersPerRun
                 \/ Len(d1) = Len(st \o a) /\ Len(d1) < Len(d) + MaxTriggersPerRun
            BY <2>1, <2>5, BatchMovesCut
        <3> QED BY <1>3, <2>2, <3>1 DEF Permitted, st
    <2> QED BY <2>3, <2>4, <2>5
<1> QED BY <1>1, <1>2, <1>3 DEF Moves

\* What a step does to one Session's triggers, in terms of the tables.
SessionMoves(s) ==
    Moves(Delivered(s), pending[s], status[s] = "running",
          Delivered(s)', pending'[s], status'[s] = "running")

LEMMA DeliveredType ==
    ASSUME TypeOK, NEW s \in Sessions
    PROVE  Delivered(s) \in Seq(Payloads)
<1>1. \A i \in RunIds : runs[s][i].triggers \in Seq(Payloads)
    BY DEF TypeOK, Run
<1>2. MaxRun \in 0..MaxRun
    BY ConstantsAssumption
<1>3. UpTo(runs[s])[MaxRun] \in Seq(Payloads)
    BY <1>1, <1>2, UpToType
<1> QED BY <1>3, DeliveredIs

LEMMA SameRowsDeliver ==
    ASSUME NEW s, \A i \in RunIds : runs'[s][i].triggers = runs[s][i].triggers
    PROVE  Delivered(s)' = Delivered(s)
<1>1. UpTo(runs'[s])[MaxRun] = UpTo(runs[s])[MaxRun]
    BY UpToKeeps
<1> QED BY <1>1, DeliveredIs

LEMMA KeptMoves ==
    ASSUME KeepsTriggers, NEW s \in Sessions, status[s] = "running" => status'[s] = "running"
    PROVE  SessionMoves(s)
<1>1. pending'[s] = pending[s] /\ \A i \in RunIds : runs'[s][i].triggers = runs[s][i].triggers
    BY DEF KeepsTriggers
<1>2. Delivered(s)' = Delivered(s)
    BY <1>1, SameRowsDeliver
<1> QED BY <1>1, <1>2 DEF SessionMoves, Moves

\* The rows past the current one hold no triggers.
LEMMA BlankTriggers ==
    ASSUME Lifecycle, RowsAreBlank, NEW s \in Sessions, NEW i \in RunIds, i >= current[s] + 1
    PROVE  runs[s][i].triggers = <<>>
<1>1. current[s] \in 0..MaxRun
    BY DEF Lifecycle, TypeOK
<1>2. i > current[s]
    BY <1>1 DEF RunIds
<1>3. runs[s][i].status = "none"
    BY <1>2 DEF Lifecycle, RowsEndAtCurrent
<1> QED BY <1>3 DEF RowsAreBlank, NoRun

\* A Session that starts a Run on the front of its queue.
LEMMA ServedMoves ==
    ASSUME Lifecycle, RowsAreBlank, NEW s \in Sessions, current[s] < MaxRun,
           NEW a \in Seq(Payloads), pending[s] \o a # <<>>,
           \A i \in RunIds : runs'[s][i].triggers = IF i = current[s] + 1 THEN Batch(pending[s] \o a)
                                                    ELSE runs[s][i].triggers,
           pending'[s] = Remainder(pending[s] \o a),
           status[s] = "running", status'[s] = "running"
    PROVE  SessionMoves(s)
<1>1. TypeOK
    BY DEF Lifecycle
<1>2. pending[s] \o a \in Seq(Payloads)
    BY <1>1, ConcatProperties DEF TypeOK
<1>3. Batch(pending[s] \o a) \in Seq(Payloads)
    BY <1>2, BatchSplits
<1>4. \A i \in RunIds : runs[s][i].triggers \in Seq(Payloads)
    BY <1>1 DEF TypeOK, Run
<1> DEFINE k == current[s] + 1
           b == Batch(pending[s] \o a)
<1>5. k \in RunIds
    BY <1>1, ConstantsAssumption DEF TypeOK, RunIds
<1>6. \A i \in RunIds : i >= k => runs[s][i].triggers = <<>>
    BY BlankTriggers
<1>7. \A i \in RunIds : runs'[s][i].triggers = IF i = k THEN b ELSE runs[s][i].triggers
    OBVIOUS
<1>8. b \in Seq(Payloads)
    BY <1>3
<1> HIDE DEF k, b
<1>9. UpTo(runs'[s])[MaxRun] = UpTo(runs[s])[MaxRun] \o b
    <2>1. PICK old, new : old = runs[s] /\ new = runs'[s]
        OBVIOUS
    <2>2. /\ \A i \in RunIds : old[i].triggers \in Seq(Payloads)
          /\ \A i \in RunIds : i >= k => old[i].triggers = <<>>
          /\ \A i \in RunIds : new[i].triggers = IF i = k THEN b ELSE old[i].triggers
        BY <1>4, <1>6, <1>7, <2>1
    <2>3. UpTo(new)[MaxRun] = UpTo(old)[MaxRun] \o b
        BY <1>5, <1>8, <2>2, UpToAppends
    <2> QED BY <2>1, <2>3
<1>10. Delivered(s)' = Delivered(s) \o Batch(pending[s] \o a)
    BY <1>9, DeliveredIs DEF b
<1> QED BY <1>10 DEF SessionMoves, Moves

\* A Session whose triggers only arrive.
LEMMA ArrivedMoves ==
    ASSUME NEW s \in Sessions, NEW a \in Seq(Payloads),
           \A i \in RunIds : runs'[s][i].triggers = runs[s][i].triggers,
           pending'[s] = pending[s] \o a,
           status[s] = "running", status'[s] = "running"
    PROVE  SessionMoves(s)
<1>1. Delivered(s)' = Delivered(s)
    BY SameRowsDeliver
<1> QED BY <1>1 DEF SessionMoves, Moves

LEMMA UserRequestMoves ==
    ASSUME Lifecycle, RowsAreBlank, UserRequest, NEW t \in Sessions
    PROVE  SessionMoves(t)
<1>0. TypeOK
    BY DEF Lifecycle
<1> PICK s \in Sessions :
        \/ CreateSession(s) \/ StartSession(s)
        \/ StopSession(s) \/ DeleteSession(s)
        \/ \E i \in RunIds : RetryRun(s, i)
        \/ \E e \in Events : DeleteEventByUser(s, e)
    BY DEF UserRequest
<1>2. CASE CreateSession(s)
    <2>1. KeepsTriggers /\ status[s] = "none" /\ status' = [status EXCEPT ![s] = "stopped"]
        BY <1>2 DEF CreateSession, eventVars, KeepsTriggers
    <2>2. status[t] = "running" => status'[t] = "running"
        BY <1>0, <2>1 DEF TypeOK
    <2> QED BY <2>1, <2>2, KeptMoves
<1>3. CASE StartSession(s)
    <2>1. pending' = pending /\ InsertRuns({s}, NoTriggers, 0, 0) /\ status' = [status EXCEPT ![s] = "running"]
        BY <1>3 DEF StartSession, eventVars
    <2>2. KeepsTriggers
        BY <2>1, InsertKeeps
    <2>3. status[t] = "running" => status'[t] = "running"
        BY <1>0, <2>1 DEF TypeOK
    <2> QED BY <2>2, <2>3, KeptMoves
<1>4. ASSUME NEW j \in RunIds, RetryRun(s, j) PROVE SessionMoves(t)
    <2> DEFINE of == IF runs[s][j].retryOf # 0 THEN runs[s][j].retryOf ELSE j
               n == runs[s][j].attempt + 1
    <2>1. pending' = pending /\ status' = status /\ InsertRuns({s}, NoTriggers, of, n)
        BY <1>4 DEF RetryRun, eventVars
    <2> HIDE DEF of, n
    <2>2. KeepsTriggers
        BY <2>1, InsertKeeps
    <2> QED BY <2>1, <2>2, KeptMoves
<1>5. ASSUME NEW e \in Events, DeleteEventByUser(s, e) PROVE SessionMoves(t)
    <2>1. KeepsTriggers /\ status' = status
        BY <1>5 DEF DeleteEventByUser, KeepsTriggers
    <2> QED BY <2>1, KeptMoves
<1>6. ASSUME NEW deleting \in BOOLEAN, ChangeSessionState(s, deleting) PROVE SessionMoves(t)
    <2>1. ASSUME NEW i \in RunIds PROVE runs'[t][i].triggers = runs[t][i].triggers
        BY <1>0, <1>6, ChangeKeepsRows
    <2>2. Delivered(t)' = Delivered(t)
        BY <2>1, SameRowsDeliver
    <2>3. /\ pending' = [pending EXCEPT ![s] = <<>>]
          /\ status' = [status EXCEPT ![s] = IF deleting THEN "deleted" ELSE "stopped"]
        BY <1>6 DEF ChangeSessionState
    <2>4. CASE t # s
        <3>1. pending'[t] = pending[t] /\ status'[t] = status[t]
            BY <1>0, <2>3, <2>4 DEF TypeOK
        <3> QED BY <2>2, <3>1 DEF SessionMoves, Moves
    <2>5. CASE t = s
        <3>1. pending'[t] = <<>> /\ status'[t] # "running"
            BY <1>0, <2>3, <2>5 DEF TypeOK
        <3>2. status[t] = "running" \/ pending[t] = <<>>
            BY DEF Lifecycle, StoppedSessionIsQuiet
        <3> QED BY <2>2, <3>1, <3>2 DEF SessionMoves, Moves
    <2> QED BY <2>4, <2>5
<1> QED BY <1>2, <1>3, <1>4, <1>5, <1>6 DEF StopSession, DeleteSession

LEMMA RunStepMoves ==
    ASSUME Lifecycle, RowsAreBlank, NEW s \in Sessions, RunStep(s), NEW t \in Sessions
    PROVE  SessionMoves(t)
<1>0. TypeOK
    BY DEF Lifecycle
<1>1. status' = status
    BY DEF RunStep, RunBrief, CreateEventForRun, DeleteEventForRun, RunComplete, RunFail, RunFinish
<1>2. CASE RunBrief(s)
    <2>1. KeepsTriggers
        BY <1>2 DEF RunBrief, eventVars, KeepsTriggers
    <2> QED BY <1>1, <2>1, KeptMoves
<1>3. ASSUME NEW e \in Events, CreateEventForRun(s, e) \/ DeleteEventForRun(s, e) PROVE SessionMoves(t)
    <2>1. KeepsTriggers
        BY <1>3 DEF CreateEventForRun, DeleteEventForRun, KeepsTriggers
    <2> QED BY <1>1, <2>1, KeptMoves
<1>5. CASE RunComplete(s) \/ RunFail(s)
    <2>1. PICK o : SetRunStatus(s, active[s], o)
        BY <1>5 DEF RunComplete, RunFail
    <2>2. pending' = pending /\ active[s] \in RunIds
        BY <1>5 DEF RunComplete, RunFail, RunIsRunning, eventVars
    <2>3. KeepsTriggers
        BY <1>0, <2>1, <2>2, EndKeeps DEF KeepsTriggers
    <2> QED BY <1>1, <2>3, KeptMoves
<1>6. CASE RunFinish(s)
    <2>2. CASE ~Dispatches(s)
        <3>1. KeepsTriggers
            BY <1>6, <2>2 DEF RunFinish, KeepsTriggers
        <3> QED BY <1>1, <3>1, KeptMoves
    <2>3. CASE Dispatches(s)
        <3> DEFINE batch == [u \in Sessions |-> Batch(pending[u])]
        <3>1. /\ InsertRuns({s}, batch, 0, 0) /\ {s} \in SUBSET Sessions
              /\ pending' = [pending EXCEPT ![s] = Remainder(pending[s])]
            BY <1>6, <2>3 DEF RunFinish
        <3>2. current[s] < MaxRun /\ status[s] = "running" /\ pending[s] # <<>>
            BY <1>6, <2>3 DEF RunFinish, HasRunId, Dispatches
        <3>3. batch[t] = Batch(pending[t])
            OBVIOUS
        <3> HIDE DEF batch
        <3>4. pending[t] \in Seq(Payloads) /\ <<>> \in Seq(Payloads)
            BY <1>0 DEF TypeOK
        <3>5. pending[t] \o <<>> = pending[t]
            BY <3>4, ConcatEmptySeq
        <3>6. InsertRuns({s}, batch, 0, 0) /\ {s} \in SUBSET Sessions
            BY <3>1
        <3>7. \A i \in RunIds : runs'[t][i].triggers = IF t \in {s} /\ i = current[t] + 1
                                                       THEN batch[t] ELSE runs[t][i].triggers
            BY <3>6, InsertRunsTriggers
        <3>8. pending'[t] = IF t = s THEN Remainder(pending[t]) ELSE pending[t]
            BY <1>0, <3>1 DEF TypeOK
        <3>9. CASE t = s
            <4>1. /\ \A i \in RunIds : runs'[t][i].triggers = IF i = current[t] + 1 THEN Batch(pending[t] \o <<>>)
                                                              ELSE runs[t][i].triggers
                  /\ pending'[t] = Remainder(pending[t] \o <<>>) /\ pending[t] \o <<>> # <<>>
                BY <3>2, <3>3, <3>5, <3>7, <3>8, <3>9
            <4>2. current[t] < MaxRun /\ status[t] = "running" /\ status'[t] = "running"
                BY <1>1, <3>2, <3>9
            <4> QED BY <3>4, <4>1, <4>2, ServedMoves
        <3>10. CASE t # s
            <4>1. Delivered(t)' = Delivered(t)
                BY <3>7, <3>10, SameRowsDeliver
            <4> QED BY <1>1, <3>8, <3>10, <4>1 DEF SessionMoves, Moves
        <3> QED BY <3>9, <3>10
    <2> QED BY <2>2, <2>3
<1> QED BY <1>2, <1>3, <1>5, <1>6 DEF RunStep

\* A round: triggers arrive for running Sessions only.
LEMMA AdmitMoves ==
    ASSUME Lifecycle, RowsAreBlank, NEW S \in SUBSET Sessions,
           NEW arrived \in [Sessions -> Seq(Payloads)], NEW finished,
           AdmitFired(S, arrived, finished), NEW t \in Sessions,
           arrived[t] # <<>> => status[t] = "running"
    PROVE  SessionMoves(t)
<1> DEFINE queue  == [s \in Sessions |-> pending[s] \o arrived[s]]
           starts == {s \in S : /\ active[s] = 0 /\ status[s] = "running"
                                /\ queue[s] # <<>>}
           batch  == [s \in Sessions |-> Batch(queue[s])]
<1>0. TypeOK
    BY DEF Lifecycle
<1>1. InsertRuns(starts, batch, 0, 0)
    BY Zenon DEF AdmitFired
<1>2. pending' = [s \in Sessions |-> IF s \in starts THEN Remainder(queue[s]) ELSE queue[s]]
    BY Zenon DEF AdmitFired
<1>3. \A s \in starts : HasRunId(s)
    BY Zenon DEF AdmitFired
<1>4. status' = status
    BY Zenon DEF AdmitFired
<1>5. starts \in SUBSET Sessions
    OBVIOUS
<1>6. queue[t] = pending[t] \o arrived[t] /\ batch[t] = Batch(queue[t])
    OBVIOUS
<1>7. t \in starts => status[t] = "running" /\ queue[t] # <<>>
    OBVIOUS
<1> HIDE DEF queue, starts, batch
<1>8. \A i \in RunIds : runs'[t][i].triggers = IF t \in starts /\ i = current[t] + 1
                                               THEN batch[t] ELSE runs[t][i].triggers
    BY <1>1, <1>5, InsertRunsTriggers
<1>9. pending'[t] = IF t \in starts THEN Remainder(queue[t]) ELSE queue[t]
    BY <1>2
<1>10. arrived[t] \in Seq(Payloads) /\ pending[t] \in Seq(Payloads)
    BY <1>0 DEF TypeOK
<1>11. CASE t \in starts
    <2>1. /\ \A i \in RunIds : runs'[t][i].triggers = IF i = current[t] + 1 THEN Batch(pending[t] \o arrived[t])
                                                      ELSE runs[t][i].triggers
          /\ pending'[t] = Remainder(pending[t] \o arrived[t]) /\ pending[t] \o arrived[t] # <<>>
        BY <1>6, <1>7, <1>8, <1>9, <1>11
    <2>2. current[t] < MaxRun /\ status[t] = "running" /\ status'[t] = "running"
        BY <1>3, <1>4, <1>7, <1>11 DEF HasRunId
    <2> QED BY <1>10, <2>1, <2>2, ServedMoves
<1>12. CASE t \notin starts
    <2>1. \A i \in RunIds : runs'[t][i].triggers = runs[t][i].triggers
        BY <1>8, <1>12
    <2>2. pending'[t] = pending[t] \o arrived[t]
        BY <1>6, <1>9, <1>12
    <2>3. CASE status[t] = "running"
        BY <1>4, <1>10, <2>1, <2>2, <2>3, ArrivedMoves
    <2>4. CASE status[t] # "running"
        <3>1. pending'[t] = pending[t]
            BY <1>10, <2>2, <2>4, ConcatEmptySeq
        <3>2. Delivered(t)' = Delivered(t)
            BY <2>1, SameRowsDeliver
        <3> QED BY <1>4, <3>1, <3>2 DEF SessionMoves, Moves
    <2> QED BY <2>3, <2>4
<1> QED BY <1>11, <1>12

LEMMA BackgroundMoves ==
    ASSUME Lifecycle, RowsAreBlank, Background, NEW t \in Sessions
    PROVE  SessionMoves(t)
<1>1. PICK finished \in BOOLEAN :
        \/ \E X, F \in SUBSET Events : EventRound(X, F, finished)
        \/ \E s \in Sessions : ChatWake(s, finished)
    BY DEF Background
<1>2. ASSUME NEW s \in Sessions, ChatWake(s, finished) PROVE SessionMoves(t)
    <2> DEFINE a == [u \in Sessions |-> IF u = s THEN <<Mention>> ELSE <<>>]
    <2>1. AdmitFired({s}, a, finished) /\ {s} \in SUBSET Sessions /\ status[s] = "running"
        BY <1>2 DEF ChatWake
    <2>a. Mention \in Payloads
        BY DEF Payloads
    <2>b. <<Mention>> \in Seq(Payloads) /\ <<>> \in Seq(Payloads)
        BY <2>a
    <2>2. a \in [Sessions -> Seq(Payloads)]
        BY <2>b
    <2>3. a[t] # <<>> => t = s
        OBVIOUS
    <2> HIDE DEF a
    <2>4. a[t] # <<>> => status[t] = "running"
        BY <2>1, <2>3
    <2> QED BY <2>1, <2>2, <2>4, AdmitMoves
<1>3. ASSUME NEW X \in SUBSET Events, NEW F \in SUBSET Events, EventRound(X, F, finished)
      PROVE  SessionMoves(t)
    <2>1. PICK a \in Arrivals(F) : AdmitFired({s \in Sessions : EventsOf(s) \cap F # {}}, a, finished)
        BY <1>3 DEF EventRound
    <2> DEFINE S == {s \in Sessions : EventsOf(s) \cap F # {}}
    <2>2. S \in SUBSET Sessions /\ AdmitFired(S, a, finished)
        BY <2>1
    <2> HIDE DEF S
    <2>3. a \in [Sessions -> Seq(Payloads)]
        BY ArrivalsType
    <2>4. a[t] # <<>> => status[t] = "running"
        <3> SUFFICES ASSUME status[t] # "running" PROVE a[t] = <<>>
            OBVIOUS
        <3>1. EventsOf(t) = {}
            BY DEF Lifecycle, StoppedSessionIsQuiet
        <3>2. a[t] \in Listings(F \cap EventsOf(t))
            BY DEF Arrivals
        <3>3. F \cap EventsOf(t) = {}
            BY <3>1
        <3> QED BY <3>2, <3>3, NoListing
    <2> QED BY <2>2, <2>3, <2>4, AdmitMoves
<1> QED BY <1>1, <1>2, <1>3

LEMMA NextMoves ==
    ASSUME Lifecycle, RowsAreBlank, [Next]_vars, NEW s \in Sessions
    PROVE  SessionMoves(s)
<1>1. CASE UNCHANGED vars
    <2>1. KeepsTriggers /\ status' = status
        BY <1>1 DEF vars, eventVars, KeepsTriggers
    <2> QED BY <2>1, KeptMoves
<1>2. CASE ProcessStep
    <2>1. status' = status
        BY <1>2 DEF ProcessStep, LatchFault, Quiesce, Exit, Crash, Boot
    <2> QED BY <1>2, <2>1, ProcessStepKeeps, KeptMoves
<1> QED BY <1>1, <1>2, UserRequestMoves, RunStepMoves, BackgroundMoves DEF Next

LEMMA QueueStep ==
    ASSUME Lifecycle, RowsAreBlank, [Next]_vars
    PROVE  Queue!QueueNext
<1> SUFFICES ASSUME NEW s \in Sessions
             PROVE  Queue!Advance(s) \/ Queue!Open(s) \/ Queue!Close(s) \/ Queue!Idle(s)
    BY DEF Queue!QueueNext
<1>1. PICK d, p, o, d1, p1, o1 :
          /\ d = Delivered(s) /\ p = pending[s] /\ o = (status[s] = "running")
          /\ d1 = Delivered(s)' /\ p1 = pending'[s] /\ o1 = (status'[s] = "running")
    OBVIOUS
<1>2. d \in Seq(Payloads) /\ p \in Seq(Payloads)
    BY <1>1, DeliveredType DEF Lifecycle, TypeOK
<1>3. o \in BOOLEAN /\ o1 \in BOOLEAN
    BY <1>1
<1>4. Moves(d, p, o, d1, p1, o1)
    BY <1>1, NextMoves DEF SessionMoves
<1>5. Permitted(d \o p, Len(d), o, d1 \o p1, Len(d1), o1)
    BY <1>2, <1>3, <1>4, MovesArePermitted
<1> DEFINE stream == [t \in Sessions |-> Stream(t)]
           taken  == [t \in Sessions |-> Len(Delivered(t))]
           open   == [t \in Sessions |-> status[t] = "running"]
<1>6. stream[s] = d \o p /\ stream'[s] = d1 \o p1
    BY <1>1 DEF Stream
<1>7. taken[s] = Len(d) /\ taken'[s] = Len(d1)
    BY <1>1
<1>8. open[s] = o /\ open'[s] = o1
    BY <1>1
<1>9. Permitted(stream[s], taken[s], open[s], stream'[s], taken'[s], open'[s])
    BY <1>5, <1>6, <1>7, <1>8
<1> HIDE DEF stream, taken, open
<1> QED BY <1>9, Zenon DEF Permitted, Queue!Advance, Queue!Open, Queue!Close, Queue!Idle, Queue!Begins, stream, taken, open

LEMMA QueueStart == Init => Queue!QueueInit
<1> SUFFICES ASSUME Init PROVE Queue!QueueInit
    OBVIOUS
<1>1. ASSUME NEW s \in Sessions PROVE Delivered(s) = <<>>
    <2> DEFINE U == UpTo(runs[s])
               Bad == {i \in 0..MaxRun : U[i] # <<>>}
    <2>0. MaxRun \in Nat
        BY ConstantsAssumption
    <2>1. U = [i \in 0..MaxRun |-> IF i = 0 THEN <<>> ELSE U[i - 1] \o runs[s][i].triggers]
        BY UpToEquation
    <2>2. \A i \in RunIds : runs[s][i].triggers = <<>>
        BY DEF Init, NoRun
    <2> HIDE DEF U
    <2>3. Bad = {}
        <3> SUFFICES ASSUME Bad # {} PROVE FALSE
            OBVIOUS
        <3>1. Bad \in SUBSET Nat
            BY <2>0
        <3>2. PICK i \in Bad : \A m \in Bad : i <= m
            BY <3>1, LeastElement
        <3>3. i # 0 /\ i \in 0..MaxRun
            BY <2>0, <2>1
        <3>4. i - 1 \in 0..MaxRun /\ i \in RunIds /\ ~(i <= i - 1)
            BY <2>0, <3>3 DEF RunIds
        <3>5. U[i - 1] = <<>>
            BY <3>2, <3>4
        <3>6. U[i] = <<>> \o <<>>
            BY <2>1, <2>2, <3>3, <3>4, <3>5
        <3> QED BY <3>6
    <2>4. MaxRun \in 0..MaxRun
        BY <2>0
    <2>5. U[MaxRun] = <<>>
        BY <2>3, <2>4
    <2> QED BY <2>5, DeliveredIs DEF U
<1>2. \A s \in Sessions : pending[s] = <<>> /\ status[s] # "running"
    BY DEF Init
<1>3. [s \in Sessions |-> Stream(s)] = [s \in Sessions |-> <<>>]
    BY <1>1, <1>2 DEF Stream
<1>4. [s \in Sessions |-> Len(Delivered(s))] = [s \in Sessions |-> 0]
    BY <1>1
<1>5. [s \in Sessions |-> status[s] = "running"] = [s \in Sessions |-> FALSE]
    BY <1>2
<1> QED BY <1>3, <1>4, <1>5 DEF Queue!QueueInit

\* The Session's triggers, as the runs and pending_triggers tables hold them,
\* implement TriggerQueue: they reach Runs in arrival order and in full batches
\* of at most MaxTriggersPerRun, none is lost or handed over twice, they arrive
\* only while the Session runs, and only a stop or delete drops the ones not
\* handed over - whatever faults, crashes, recoveries and retries come between.
THEOREM QueueIsImplemented == Spec => TriggerQueueSpec
<1>1. Lifecycle /\ RowsInv /\ [Next]_vars => Queue!QueueNext
    BY QueueStep DEF RowsInv
<1> QED BY <1>1, QueueStart, LifecycleInvariant, RowsInvariant, PTL DEF Spec, TriggerQueueSpec, Queue!QueueSpec
=============================================================================
