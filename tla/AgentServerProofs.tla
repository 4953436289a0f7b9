------------------------- MODULE AgentServerProofs -------------------------
(***************************************************************************)
(* Theorems about EventLoop, for any names, counts and numbers of calls,   *)
(* and about AgentServer, which uses the loop.                             *)
(***************************************************************************)
EXTENDS AgentServer, TLAPS

USE EventLoopAssumption, AgentServerAssumption

\* events and the objects lead to each other.
Linked ==
    /\ \A n \in Names : events[n] # None =>
          events[n] \in 1..created /\ ev[events[n]].name = n /\ ~ev[events[n]].done
    /\ \A o \in 1..created : ev[o].name \in Names /\ (~ev[o].done => events[ev[o].name] = o)

\* An object that is not registered yet is blank; a callback runs while running
\* is set, and an event that is done is not running.
Workers ==
    \A o \in Objects :
        /\ o > created => ev[o] = Blank /\ runs[o] = 0
        /\ active[o] = (IF ev[o].running THEN 1 ELSE 0)
        /\ ev[o].done => ~ev[o].running

\* remaining counts down, and only an event that has used it up returns for good.
Counted ==
    \A o \in 1..created :
        /\ ev[o].count # -1 => ev[o].remaining \in Nat /\ runs[o] + ev[o].remaining = ev[o].count
        /\ ev[o].done /\ ev[o].result = "returned" /\ ev[o].count # -1 => ev[o].remaining = 0

\* The scheduler drains only a loop that is stopping, and a loop that has
\* stopped has no worker.
Draining ==
    /\ pc = "draining" => state = "stopping"
    /\ state = "stopped" => \A o \in Objects : ~ev[o].running /\ workerSignals[o] = 0

LoopInv == TypeOK /\ NoLostWakeup /\ Linked /\ Workers /\ Counted /\ Draining

Results == {"none", "returned", "deleted", "loop stopped"}

-----------------------------------------------------------------------------
(* Event objects *)

\* What a critical section may do to an event without terminating it.
SameEvent(e, f) ==
    /\ f.name = e.name /\ f.count = e.count /\ f.remaining = e.remaining /\ f.done = e.done
    /\ f.result = e.result \/ e.done = FALSE

\* An event that terminates keeps all but done and result.
LEMMA EndedFields ==
    ASSUME NEW e \in EventType, NEW result \in Results
    PROVE  LET f == [e EXCEPT !.done = TRUE, !.result = result]
           IN  /\ f \in EventType /\ f.done = TRUE /\ f.result = result
               /\ f.name = e.name /\ f.count = e.count /\ f.remaining = e.remaining
               /\ f.running = e.running /\ f.deleting = e.deleting /\ f.due = e.due
BY DEF EventType, Results

LEMMA BlankFields ==
    Blank \in EventType /\ Blank.running = FALSE /\ Blank.done = FALSE /\ Blank.remaining = 0 /\ Blank.count = 0
BY DEF Blank, EventType

\* The registered objects exist.
LEMMA RegisteredExist ==
    ASSUME TypeOK, Linked, NEW o \in Registered
    PROVE  /\ o \in 1..created /\ o \in Objects /\ ev[o].name \in Names /\ events[ev[o].name] = o /\ ev[o].done = FALSE
           /\ o # None
<1>1. PICK n \in Names : events[n] = o
    BY DEF Registered
<1>2. o \in Objects /\ o # None
    BY DEF Registered, Objects, None
<1>3. o \in 1..created /\ ev[o].name = n /\ ~ev[o].done
    BY <1>1, <1>2 DEF Linked
<1>4. ev[o] \in EventType
    BY <1>2 DEF TypeOK
<1>5. ev[o].done \in BOOLEAN
    BY <1>4 DEF EventType
<1> QED BY <1>1, <1>2, <1>3, <1>5

\* The events of S terminate; the others stay registered.
LEMMA TerminateStep ==
    ASSUME TypeOK, Linked, Workers, Counted,
           NEW S \in SUBSET Registered, NEW result \in Results, NEW objects \in [Objects -> EventType],
           \A o \in Objects : SameEvent(ev[o], objects[o]) /\ (o \notin 1..created => objects[o] = ev[o]),
           result = "returned" => \A o \in S : ev[o].remaining = 0,
           Terminate(S, result, objects), UNCHANGED <<created, runs>>
    PROVE  /\ ev' \in [Objects -> EventType] /\ Linked' /\ Counted'
           /\ events' \in [Names -> Objects \cup {None}] /\ finished' \in [Names -> Objects \cup {None}]
           /\ Registered' = Registered \ S
           /\ \A o \in Objects :
                /\ ev'[o].running = objects[o].running /\ ev'[o].deleting = objects[o].deleting
                /\ ev'[o].remaining = ev[o].remaining
                /\ ev'[o].done = (IF o \in S THEN TRUE ELSE ev[o].done)
                /\ o > created => ev'[o] = Blank
<1> DEFINE Ended(o) == [objects[o] EXCEPT !.done = TRUE, !.result = result]
<1>1. /\ ev' = [o \in Objects |-> IF o \in S THEN Ended(o) ELSE objects[o]]
      /\ events' = [n \in Names |-> IF events[n] \in S THEN None ELSE events[n]]
      /\ finished' = [n \in Names |-> IF events[n] \in S THEN events[n] ELSE finished[n]]
    BY DEF Terminate
<1>2. \A o \in Objects : /\ Ended(o) \in EventType /\ Ended(o).done = TRUE /\ Ended(o).result = result
                         /\ Ended(o).name = objects[o].name /\ Ended(o).count = objects[o].count
                         /\ Ended(o).remaining = objects[o].remaining /\ Ended(o).running = objects[o].running
                         /\ Ended(o).deleting = objects[o].deleting
    <2>1. \A e \in EventType :
            LET f == [e EXCEPT !.done = TRUE, !.result = result]
            IN  /\ f \in EventType /\ f.done = TRUE /\ f.result = result
                /\ f.name = e.name /\ f.count = e.count /\ f.remaining = e.remaining
                /\ f.running = e.running /\ f.deleting = e.deleting /\ f.due = e.due
        BY EndedFields
    <2>2. \A o \in Objects : objects[o] \in EventType
        OBVIOUS
    <2> QED BY <2>1, <2>2
<1> HIDE DEF Ended
<1>3. S \subseteq Objects /\ S \subseteq 1..created /\ None \notin S /\ created \in Nat
    <2>1. created \in Nat
        BY DEF TypeOK
    <2> QED BY <2>1, RegisteredExist
<1>4. \A o \in Objects :
        /\ ev'[o] \in EventType /\ ev'[o].running = objects[o].running /\ ev'[o].deleting = objects[o].deleting
        /\ ev'[o].name = ev[o].name /\ ev'[o].count = ev[o].count /\ ev'[o].remaining = ev[o].remaining
        /\ o \in S => ev'[o].done = TRUE /\ ev'[o].result = result
        /\ o \notin S => ev'[o].done = ev[o].done /\ (ev'[o].result = ev[o].result \/ ev[o].done = FALSE)
    <2> SUFFICES ASSUME NEW o \in Objects
                 PROVE  /\ ev'[o] \in EventType /\ ev'[o].running = objects[o].running
                        /\ ev'[o].deleting = objects[o].deleting
                        /\ ev'[o].name = ev[o].name /\ ev'[o].count = ev[o].count /\ ev'[o].remaining = ev[o].remaining
                        /\ o \in S => ev'[o].done = TRUE /\ ev'[o].result = result
                        /\ o \notin S => ev'[o].done = ev[o].done /\ (ev'[o].result = ev[o].result \/ ev[o].done = FALSE)
        OBVIOUS
    <2>1. CASE o \in S
        <3>1. ev'[o] = Ended(o)
            BY <1>1, <2>1
        <3> QED BY <1>2, <2>1, <3>1 DEF SameEvent
    <2>2. CASE o \notin S
        <3>1. ev'[o] = objects[o]
            BY <1>1, <2>2
        <3> QED BY <2>2, <3>1 DEF SameEvent
    <2> QED BY <2>1, <2>2
<1>5. ev' \in [Objects -> EventType]
    BY <1>1, <1>4
<1>6. events' \in [Names -> Objects \cup {None}] /\ finished' \in [Names -> Objects \cup {None}]
    BY <1>1 DEF TypeOK
<1>7. \A n \in Names : events'[n] = IF events[n] \in S THEN None ELSE events[n]
    BY <1>1
<1>8. Registered' = Registered \ S
    BY <1>3, <1>7 DEF Registered, Objects, None
<1>9. 1..created \subseteq Objects /\ created' = created
    BY DEF TypeOK, Objects
<1>10. Linked'
    <2>1. ASSUME NEW n \in Names, events'[n] # None
          PROVE  events'[n] \in 1..created /\ ev'[events'[n]].name = n /\ ~ev'[events'[n]].done
        <3>1. events[n] \notin S /\ events'[n] = events[n] /\ events[n] # None
            BY <1>7, <2>1
        <3>2. events[n] \in 1..created /\ ev[events[n]].name = n /\ ~ev[events[n]].done
            BY <3>1 DEF Linked
        <3> QED BY <1>4, <1>9, <3>1, <3>2
    <2>2. ASSUME NEW o \in 1..created
          PROVE  ev'[o].name \in Names /\ (~ev'[o].done => events'[ev'[o].name] = o)
        <3>1. ev[o].name \in Names /\ (~ev[o].done => events[ev[o].name] = o)
            BY DEF Linked
        <3> QED BY <1>4, <1>7, <1>9, <3>1
    <2> QED BY <1>9, <2>1, <2>2 DEF Linked
<1>11. Counted'
    <2> SUFFICES ASSUME NEW o \in 1..created
                 PROVE  /\ ev'[o].count # -1 => ev'[o].remaining \in Nat /\ runs'[o] + ev'[o].remaining = ev'[o].count
                        /\ ev'[o].done /\ ev'[o].result = "returned" /\ ev'[o].count # -1 => ev'[o].remaining = 0
        BY <1>9 DEF Counted
    <2>1. /\ ev[o].count # -1 => ev[o].remaining \in Nat /\ runs[o] + ev[o].remaining = ev[o].count
          /\ ev[o].done /\ ev[o].result = "returned" /\ ev[o].count # -1 => ev[o].remaining = 0
        BY DEF Counted
    <2> QED BY <1>4, <1>9, <2>1
<1>12. ASSUME NEW o \in Objects, o > created PROVE ev'[o] = Blank
    <2>1. o \notin S /\ o \notin 1..created
        BY <1>3, <1>12 DEF Objects
    <2>2. ev'[o] = objects[o]
        BY <1>1, <2>1
    <2> QED BY <1>12, <2>1, <2>2 DEF Workers
<1> QED BY <1>4, <1>5, <1>6, <1>8, <1>10, <1>11, <1>12

\* ev.cancel() changes canceled alone.
LEMMA CancelFields ==
    ASSUME TypeOK, Workers, NEW S \in SUBSET Objects
    PROVE  /\ Cancel(S) \in [Objects -> EventType]
           /\ \A o \in Objects :
                /\ SameEvent(ev[o], Cancel(S)[o]) /\ (o \notin 1..created => Cancel(S)[o] = ev[o])
                /\ Cancel(S)[o].running = ev[o].running /\ Cancel(S)[o].deleting = ev[o].deleting
<1>1. \A e \in EventType : LET f == [e EXCEPT !.canceled = TRUE]
                           IN  f \in EventType /\ SameEvent(e, f) /\ f.running = e.running /\ f.deleting = e.deleting
    BY DEF EventType, SameEvent
<1>2. \A e \in EventType : SameEvent(e, e)
    BY DEF SameEvent
<1>3. \A o \in Objects : ev[o] \in EventType
    BY DEF TypeOK
<1>4. ASSUME NEW o \in Objects, o \notin 1..created PROVE ev[o].running = FALSE
    <2>1. o > created
        BY <1>4 DEF Objects, TypeOK
    <2> QED BY <2>1, BlankFields DEF Workers
<1>5. \A o \in Objects : Cancel(S)[o] = IF o \in S /\ ev[o].running THEN [ev[o] EXCEPT !.canceled = TRUE] ELSE ev[o]
    BY DEF Cancel
<1>6. \A o \in Objects :
        /\ Cancel(S)[o] \in EventType
        /\ SameEvent(ev[o], Cancel(S)[o]) /\ (o \notin 1..created => Cancel(S)[o] = ev[o])
        /\ Cancel(S)[o].running = ev[o].running /\ Cancel(S)[o].deleting = ev[o].deleting
    BY <1>1, <1>2, <1>3, <1>4, <1>5
<1>7. Cancel(S) = [o \in Objects |-> Cancel(S)[o]]
    BY DEF Cancel
<1> QED BY <1>6, <1>7

\* The part of TypeOK that is not about events.
ControlTypes ==
    /\ state \in {"stopped", "running", "stopping"} /\ wake \in BOOLEAN /\ created \in 0..MaxObjects
    /\ active \in [Objects -> Nat] /\ runs \in [Objects -> Nat]
    /\ pc \in {"gone", "dispatch", "select", "draining"} /\ armed \in SUBSET Objects
    /\ starts \in 0..MaxStarts /\ ready \in 0..starts
    /\ callerSignals \in 0..MaxSignals /\ workerSignals \in [Objects -> 0..MaxSignals]
    /\ pc = "gone" <=> state = "stopped"

EventTypes ==
    /\ ev \in [Objects -> EventType]
    /\ events \in [Names -> Objects \cup {None}] /\ finished \in [Names -> Objects \cup {None}]

LEMMA TypeParts == TypeOK <=> ControlTypes /\ EventTypes
BY DEF TypeOK, ControlTypes, EventTypes

LEMMA TypePartsNext == TypeOK' <=> ControlTypes' /\ EventTypes'
BY DEF TypeOK, ControlTypes, EventTypes

\* Events that are not running terminate.
LEMMA TerminateIdle ==
    ASSUME LoopInv, NEW S \in SUBSET Registered, NEW result \in Results \ {"returned"},
           NEW objects \in [Objects -> EventType],
           \A o \in Objects : SameEvent(ev[o], objects[o]) /\ (o \notin 1..created => objects[o] = ev[o]),
           \A o \in Objects : objects[o].running = ev[o].running,
           \A o \in S : ev[o].running = FALSE,
           Terminate(S, result, objects), UNCHANGED <<created, active, runs>>
    PROVE  EventTypes' /\ Linked' /\ Counted' /\ Workers' /\ \A o \in Objects : ev'[o].running = ev[o].running
<1>1. TypeOK /\ Linked /\ Workers /\ Counted /\ result \in Results /\ UNCHANGED <<created, runs>>
    BY DEF LoopInv
<1>2. result = "returned" => \A o \in S : ev[o].remaining = 0
    OBVIOUS
<1>3. /\ ev' \in [Objects -> EventType] /\ Linked' /\ Counted'
      /\ events' \in [Names -> Objects \cup {None}] /\ finished' \in [Names -> Objects \cup {None}]
      /\ \A o \in Objects :
           /\ ev'[o].running = objects[o].running /\ ev'[o].deleting = objects[o].deleting
           /\ ev'[o].remaining = ev[o].remaining
           /\ ev'[o].done = (IF o \in S THEN TRUE ELSE ev[o].done)
           /\ o > created => ev'[o] = Blank
    BY <1>1, <1>2, TerminateStep
<1>4. \A o \in Objects :
        /\ objects[o].running = ev[o].running
        /\ ev'[o].running = objects[o].running
        /\ ev'[o].done = (IF o \in S THEN TRUE ELSE ev[o].done)
        /\ o > created => ev'[o] = Blank
    BY <1>3
<1>5. Workers'
    <2>1. ASSUME NEW o \in Objects
          PROVE  /\ o > created' => ev'[o] = Blank /\ runs'[o] = 0
                 /\ active'[o] = (IF ev'[o].running THEN 1 ELSE 0)
                 /\ ev'[o].done => ~ev'[o].running
        <3>1. /\ o > created => runs[o] = 0
              /\ active[o] = (IF ev[o].running THEN 1 ELSE 0)
              /\ ev[o].done => ~ev[o].running
            BY <1>1 DEF Workers
        <3>2. ev'[o].running = ev[o].running /\ ev'[o].done = (IF o \in S THEN TRUE ELSE ev[o].done)
            BY <1>4
        <3>3. o \in S => ~ev[o].running
            OBVIOUS
        <3>4. created' = created /\ active' = active /\ runs' = runs
            OBVIOUS
        <3>5. o > created' => ev'[o] = Blank /\ runs'[o] = 0
            BY <1>4, <3>1, <3>4
        <3>6. active'[o] = (IF ev'[o].running THEN 1 ELSE 0)
            BY <3>1, <3>2, <3>4
        <3>7. ev'[o].done => ~ev'[o].running
            BY <3>1, <3>2, <3>3
        <3> QED BY <3>5, <3>6, <3>7
    <2> QED BY <2>1 DEF Workers
<1> QED BY <1>3, <1>4, <1>5 DEF EventTypes

LEMMA DelStep ==
    ASSUME LoopInv, NEW n \in Names, DelEvent(n)
    PROVE  LoopInv'
<1> DEFINE o == events[n]
           S == IF ev[o].running THEN {} ELSE {o}
           marked == [Cancel({o}) EXCEPT ![o].deleting = TRUE]
<1>1. /\ o # None /\ Terminate(S, "deleted", marked) /\ callerSignals < MaxSignals /\ callerSignals' = callerSignals + 1
      /\ UNCHANGED <<state, wake, created, active, runs, loopVars, workerSignals>>
    BY DEF DelEvent, CallerSignals
<1>2. o \in Objects /\ o \in Registered
    BY <1>1 DEF LoopInv, TypeOK, Registered
<1>3. o \in 1..created
    BY <1>2, RegisteredExist DEF LoopInv
<1> DEFINE C == Cancel({o})
<1>4. /\ C \in [Objects -> EventType]
      /\ \A p \in Objects :
           /\ SameEvent(ev[p], C[p]) /\ (p \notin 1..created => C[p] = ev[p])
           /\ C[p].running = ev[p].running /\ C[p].deleting = ev[p].deleting
    BY <1>2, CancelFields DEF LoopInv
<1>5. \A e \in EventType : LET f == [e EXCEPT !.deleting = TRUE]
                           IN  /\ f \in EventType /\ f.running = e.running /\ f.done = e.done
                               /\ f.name = e.name /\ f.count = e.count /\ f.remaining = e.remaining /\ f.result = e.result
    BY DEF EventType
<1> HIDE DEF C
<1>6. marked = [C EXCEPT ![o] = [C[o] EXCEPT !.deleting = TRUE]]
    BY <1>2, <1>4 DEF C
<1> HIDE DEF marked
<1>7. /\ marked \in [Objects -> EventType]
      /\ \A p \in Objects : /\ SameEvent(ev[p], marked[p]) /\ (p \notin 1..created => marked[p] = ev[p])
                            /\ marked[p].running = ev[p].running
    <2>1. [C[o] EXCEPT !.deleting = TRUE] \in EventType /\ SameEvent(ev[o], [C[o] EXCEPT !.deleting = TRUE])
          /\ [C[o] EXCEPT !.deleting = TRUE].running = ev[o].running
        BY <1>2, <1>4, <1>5 DEF SameEvent
    <2>2. marked \in [Objects -> EventType]
        BY <1>4, <1>6, <2>1
    <2> QED BY <1>2, <1>3, <1>4, <1>6, <2>1, <2>2
<1>8. S \in SUBSET Registered /\ \A p \in S : ev[p].running = FALSE
    <2>1. ev[o].running \in BOOLEAN
        BY <1>2 DEF LoopInv, TypeOK, EventType
    <2> QED BY <1>2, <2>1
<1> HIDE DEF S, o
<1>9. EventTypes' /\ Linked' /\ Counted' /\ Workers' /\ \A p \in Objects : ev'[p].running = ev[p].running
    <2>1. \A p \in Objects : SameEvent(ev[p], marked[p]) /\ (p \notin 1..created => marked[p] = ev[p])
        BY <1>7
    <2>2. \A p \in Objects : marked[p].running = ev[p].running
        BY <1>7
    <2>3. "deleted" \in Results \ {"returned"} /\ marked \in [Objects -> EventType] /\ UNCHANGED <<created, active, runs>>
        BY <1>1, <1>7 DEF Results
    <2> QED BY <1>1, <1>8, <2>1, <2>2, <2>3, TerminateIdle
<1>11. ControlTypes' /\ callerSignals' # 0
    BY <1>1 DEF LoopInv, TypeOK, ControlTypes, loopVars
<1>12. Draining'
    BY <1>1, <1>9 DEF LoopInv, Draining, loopVars
<1>13. NoLostWakeup'
    BY <1>11 DEF NoLostWakeup
<1> QED BY <1>9, <1>11, <1>12, <1>13, TypePartsNext DEF LoopInv

LEMMA StopStep ==
    ASSUME LoopInv, Stop
    PROVE  LoopInv'
<1>1. \A o \in Registered : o \in Objects /\ o \in 1..created
    BY RegisteredExist DEF LoopInv
<1>2. /\ ev \in [Objects -> EventType]
      /\ \A o \in Objects : /\ SameEvent(ev[o], ev[o]) /\ ev[o].running \in BOOLEAN
    BY DEF LoopInv, TypeOK, EventType, SameEvent
<1>3. UNCHANGED <<wake, created, active, runs, loopVars, workerSignals>>
    BY DEF Stop
<1>4. ASSUME NEW S \in SUBSET Registered, NEW objects \in [Objects -> EventType],
             \A p \in Objects : /\ SameEvent(ev[p], objects[p]) /\ (p \notin 1..created => objects[p] = ev[p])
                                /\ objects[p].running = ev[p].running,
             \A p \in S : ev[p].running = FALSE, Terminate(S, "loop stopped", objects)
      PROVE  EventTypes' /\ Linked' /\ Counted' /\ Workers' /\ \A p \in Objects : ev'[p].running = ev[p].running
    <2>1. \A p \in Objects : SameEvent(ev[p], objects[p]) /\ (p \notin 1..created => objects[p] = ev[p])
        BY <1>4
    <2>2. \A p \in Objects : objects[p].running = ev[p].running
        BY <1>4
    <2>3. "loop stopped" \in Results \ {"returned"} /\ UNCHANGED <<created, active, runs>>
        BY <1>3 DEF Results
    <2> QED BY <1>4, <2>1, <2>2, <2>3, TerminateIdle
<1>5. CASE state = "stopped" /\ Terminate(Registered, "loop stopped", ev) /\ UNCHANGED <<state, callerSignals>>
    <2>1. \A p \in Registered : ev[p].running = FALSE
        BY <1>1, <1>2, <1>5 DEF LoopInv, Draining
    <2>2. EventTypes' /\ Linked' /\ Counted' /\ Workers' /\ \A p \in Objects : ev'[p].running = ev[p].running
        BY <1>2, <1>4, <1>5, <2>1
    <2>3. ControlTypes' /\ NoLostWakeup' /\ Draining'
        BY <1>3, <1>5, <2>2 DEF LoopInv, TypeOK, ControlTypes, NoLostWakeup, Draining, loopVars
    <2> QED BY <2>2, <2>3, TypePartsNext DEF LoopInv
<1>6. CASE /\ state = "running" /\ state' = "stopping" /\ CallerSignals
           /\ Terminate({o \in Registered : ~ev[o].running}, "loop stopped", Cancel(Registered))
    <2> DEFINE S == {o \in Registered : ~ev[o].running}
               C == Cancel(Registered)
    <2>1. /\ C \in [Objects -> EventType]
          /\ \A p \in Objects : /\ SameEvent(ev[p], C[p]) /\ (p \notin 1..created => C[p] = ev[p])
                                /\ C[p].running = ev[p].running
        BY <1>1, CancelFields DEF LoopInv
    <2>2. S \in SUBSET Registered /\ \A p \in S : ev[p].running = FALSE
        BY <1>1, <1>2
    <2> HIDE DEF S, C
    <2>3. Terminate(S, "loop stopped", C)
        BY <1>6 DEF S, C
    <2>4. EventTypes' /\ Linked' /\ Counted' /\ Workers' /\ \A p \in Objects : ev'[p].running = ev[p].running
        BY <1>4, <2>1, <2>2, <2>3
    <2>5. ControlTypes' /\ callerSignals' # 0
        <3>1. state = "running" /\ state' = "stopping" /\ callerSignals < MaxSignals /\ callerSignals' = callerSignals + 1
            BY <1>6 DEF CallerSignals
        <3>2. ControlTypes
            BY TypeParts DEF LoopInv
        <3> QED BY <1>3, <3>1, <3>2 DEF ControlTypes, loopVars
    <2>6. NoLostWakeup' /\ Draining'
        BY <1>3, <1>6, <2>5 DEF NoLostWakeup, Draining, loopVars
    <2> QED BY <2>4, <2>5, <2>6, TypePartsNext DEF LoopInv
<1>7. CASE state = "stopping" /\ CallerSignals /\ UNCHANGED <<state, ev, events, finished>>
    <2>1. ControlTypes' /\ EventTypes' /\ callerSignals' # 0
        BY <1>3, <1>7 DEF LoopInv, TypeOK, ControlTypes, EventTypes, loopVars, CallerSignals
    <2>2. Linked' /\ Workers' /\ Counted' /\ Draining' /\ NoLostWakeup'
        BY <1>3, <1>7, <2>1 DEF LoopInv, Linked, Workers, Counted, Draining, NoLostWakeup, loopVars
    <2> QED BY <2>1, <2>2, TypePartsNext DEF LoopInv
<1> QED BY <1>5, <1>6, <1>7 DEF Stop

\* execute after the callback: the event that ran, and it alone, changes.
LEMMA ReturnStep ==
    ASSUME LoopInv, NEW o \in Objects, TaskReturns(o)
    PROVE  LoopInv'
<1> DEFINE e == [ev[o] EXCEPT !.running = FALSE, !.canceled = FALSE, !.result = "returned"]
           S == IF Terminal(e) THEN {o} ELSE {}
           r == EndResult(e)
           objects == [ev EXCEPT ![o] = e]
<1>1. /\ active[o] > 0 /\ workerSignals[o] < MaxSignals
      /\ active' = [active EXCEPT ![o] = @ - 1] /\ workerSignals' = [workerSignals EXCEPT ![o] = @ + 1]
      /\ Terminate(S, r, objects)
      /\ UNCHANGED <<state, wake, created, runs, loopVars, callerSignals>>
    BY DEF TaskReturns
<1>2. ev \in [Objects -> EventType] /\ ev[o] \in EventType /\ TypeOK /\ Linked /\ Workers /\ Counted
    BY DEF LoopInv, TypeOK
<1>3. ev[o].running = TRUE /\ active[o] = 1 /\ ev[o].done = FALSE
    <2>1. ev[o].running \in BOOLEAN /\ ev[o].done \in BOOLEAN
        BY <1>2 DEF EventType
    <2> QED BY <1>1, <1>2, <2>1 DEF Workers
<1>4. o \in 1..created
    <2>1. ~(o > created)
        BY <1>2, <1>3, BlankFields DEF Workers
    <2> QED BY <1>2, <2>1 DEF TypeOK, Objects
<1>5. o \in Registered
    BY <1>2, <1>3, <1>4 DEF Linked, Registered
<1>6. /\ e \in EventType /\ e.running = FALSE /\ SameEvent(ev[o], e) /\ e.deleting = ev[o].deleting
      /\ e.remaining = ev[o].remaining
    BY <1>2, <1>3 DEF EventType, SameEvent
<1>7. r \in Results /\ S \in SUBSET Registered /\ (r = "returned" => \A p \in S : ev[p].remaining = 0)
    BY <1>5, <1>6 DEF Results, EndResult, Terminal
<1> HIDE DEF e, S, r
<1>8. objects \in [Objects -> EventType] /\ objects[o] = e /\ \A p \in Objects : p # o => objects[p] = ev[p]
    BY <1>2, <1>6
<1> HIDE DEF objects
<1>9. \A p \in Objects : SameEvent(ev[p], objects[p]) /\ (p \notin 1..created => objects[p] = ev[p])
    BY <1>4, <1>6, <1>8 DEF SameEvent
<1>10. UNCHANGED <<created, runs>>
    BY <1>1
<1>11. /\ ev' \in [Objects -> EventType] /\ Linked' /\ Counted'
       /\ events' \in [Names -> Objects \cup {None}] /\ finished' \in [Names -> Objects \cup {None}]
       /\ \A p \in Objects :
            /\ ev'[p].running = objects[p].running /\ ev'[p].deleting = objects[p].deleting
            /\ ev'[p].remaining = ev[p].remaining
            /\ ev'[p].done = (IF p \in S THEN TRUE ELSE ev[p].done)
            /\ p > created => ev'[p] = Blank
    <2>1. TypeOK /\ Linked /\ Workers /\ Counted
        BY <1>2
    <2>2. Terminate(S, r, objects)
        BY <1>1
    <2>3. r \in Results /\ S \in SUBSET Registered /\ objects \in [Objects -> EventType]
        BY <1>7, <1>8
    <2>4. r = "returned" => \A p \in S : ev[p].remaining = 0
        BY <1>7
    <2> QED BY <1>9, <1>10, <2>1, <2>2, <2>3, <2>4, TerminateStep
<1>12. S \subseteq {o}
    BY DEF S
<1>13. Workers'
    <2>1. ASSUME NEW p \in Objects
          PROVE  /\ p > created' => ev'[p] = Blank /\ runs'[p] = 0
                 /\ active'[p] = (IF ev'[p].running THEN 1 ELSE 0)
                 /\ ev'[p].done => ~ev'[p].running
        <3>1. /\ p > created => ev[p] = Blank /\ runs[p] = 0
              /\ active[p] = (IF ev[p].running THEN 1 ELSE 0)
              /\ ev[p].done => ~ev[p].running
            BY <1>2 DEF Workers
        <3>2. active \in [Objects -> Nat]
            BY DEF LoopInv, TypeOK
        <3>3. CASE p = o
            <4>1. active'[o] = 0 /\ ev'[o].running = FALSE
                <5>1. active'[o] = 0
                    BY <1>1, <1>3, <3>2
                <5>2. ev'[o].running = objects[o].running
                    BY <1>11
                <5> QED BY <1>6, <1>8, <5>1, <5>2
            <4>2. ~(o > created)
                BY <1>2, <1>4 DEF TypeOK
            <4> QED BY <1>1, <3>3, <4>1, <4>2
        <3>4. CASE p # o
            BY <1>1, <1>8, <1>11, <1>12, <3>1, <3>2, <3>4
        <3> QED BY <3>3, <3>4
    <2> QED BY <2>1 DEF Workers
<1>14. ControlTypes' /\ workerSignals'[o] > 0
    <2>1. ControlTypes
        BY TypeParts DEF LoopInv
    <2> QED BY <1>1, <1>3, <2>1 DEF ControlTypes, loopVars
<1>15. state # "stopped"
    BY <1>3 DEF LoopInv, Draining
<1>16. Draining' /\ NoLostWakeup'
    BY <1>1, <1>14, <1>15 DEF LoopInv, Draining, NoLostWakeup, loopVars
<1> QED BY <1>11, <1>13, <1>14, <1>16, TypePartsNext DEF LoopInv, EventTypes

\* A new event takes the next object.
LEMMA RegisterStep ==
    ASSUME LoopInv, NEW n \in Names, NEW count \in Counts, RegisterEvent(n, count)
    PROVE  LoopInv'
<1> DEFINE o == created + 1
           e == [Blank EXCEPT !.name = n, !.count = count, !.remaining = count]
<1>1. /\ state # "stopping" /\ events[n] = None /\ o \in Objects /\ created' = o
      /\ ev' = [ev EXCEPT ![o] = e] /\ events' = [events EXCEPT ![n] = o] /\ finished' = [finished EXCEPT ![n] = None]
      /\ callerSignals < MaxSignals /\ callerSignals' = callerSignals + 1
      /\ UNCHANGED <<state, wake, active, runs, loopVars, workerSignals>>
    BY DEF RegisterEvent, CallerSignals
<1>2. /\ ev \in [Objects -> EventType] /\ events \in [Names -> Objects \cup {None}]
      /\ finished \in [Names -> Objects \cup {None}] /\ created \in Nat /\ runs \in [Objects -> Nat]
    BY DEF LoopInv, TypeOK
<1>3. /\ e \in EventType /\ e.name = n /\ e.count = count /\ e.remaining = count /\ e.running = FALSE /\ e.done = FALSE
      /\ count \in Int
    <2>1. count \in Int
        OBVIOUS
    <2> QED BY <2>1, BlankFields DEF EventType
<1> HIDE DEF e
<1>4. EventTypes'
    BY <1>1, <1>2, <1>3 DEF EventTypes
<1>5. ev'[o] = e /\ (\A p \in Objects : p # o => ev'[p] = ev[p]) /\ events'[n] = o
      /\ \A m \in Names : m # n => events'[m] = events[m]
    BY <1>1, <1>2
<1>6. ev[o] = Blank /\ runs[o] = 0 /\ active[o] = 0
    <2>1. o > created
        BY <1>2
    <2>2. ev[o] = Blank /\ runs[o] = 0 /\ active[o] = (IF ev[o].running THEN 1 ELSE 0)
        BY <1>1, <2>1 DEF LoopInv, Workers
    <2> QED BY <2>2, BlankFields
<1>7. 1..created' = 1..created \cup {o} /\ 1..created \subseteq Objects /\ o \notin 1..created
    BY <1>1, <1>2 DEF Objects
<1>8. Linked'
    <2>1. ASSUME NEW m \in Names, events'[m] # None
          PROVE  events'[m] \in 1..created' /\ ev'[events'[m]].name = m /\ ~ev'[events'[m]].done
        <3>1. CASE m = n
            BY <1>3, <1>5, <1>7, <3>1
        <3>2. CASE m # n
            <4>1. events'[m] = events[m] /\ events[m] \in 1..created /\ ev[events[m]].name = m /\ ~ev[events[m]].done
                BY <1>5, <2>1, <3>2 DEF LoopInv, Linked
            <4> QED BY <1>5, <1>7, <4>1
        <3> QED BY <3>1, <3>2
    <2>2. ASSUME NEW p \in 1..created'
          PROVE  ev'[p].name \in Names /\ (~ev'[p].done => events'[ev'[p].name] = p)
        <3>1. CASE p = o
            BY <1>3, <1>5, <3>1
        <3>2. CASE p # o
            <4>1. p \in 1..created /\ p \in Objects /\ p # None
                BY <1>7, <2>2, <3>2 DEF None
            <4>2. ev[p].name \in Names /\ (~ev[p].done => events[ev[p].name] = p)
                BY <4>1 DEF LoopInv, Linked
            <4>3. ev'[p] = ev[p]
                BY <1>5, <3>2, <4>1
            <4> QED BY <1>1, <1>5, <4>1, <4>2, <4>3
        <3> QED BY <3>1, <3>2
    <2> QED BY <2>1, <2>2 DEF Linked
<1>9. Workers'
    <2>1. ASSUME NEW p \in Objects
          PROVE  /\ p > created' => ev'[p] = Blank /\ runs'[p] = 0
                 /\ active'[p] = (IF ev'[p].running THEN 1 ELSE 0)
                 /\ ev'[p].done => ~ev'[p].running
        <3>1. CASE p = o
            BY <1>1, <1>2, <1>3, <1>5, <1>6, <3>1
        <3>2. CASE p # o
            <4>1. p > created' => p > created
                BY <1>1, <1>2 DEF Objects
            <4> QED BY <1>1, <1>5, <3>2, <4>1 DEF LoopInv, Workers
        <3> QED BY <3>1, <3>2
    <2> QED BY <2>1 DEF Workers
<1>10. Counted'
    <2>1. ASSUME NEW p \in 1..created'
          PROVE  /\ ev'[p].count # -1 => ev'[p].remaining \in Nat /\ runs'[p] + ev'[p].remaining = ev'[p].count
                 /\ ev'[p].done /\ ev'[p].result = "returned" /\ ev'[p].count # -1 => ev'[p].remaining = 0
        <3>1. CASE p = o
            BY <1>1, <1>3, <1>5, <1>6, <3>1
        <3>2. CASE p # o
            BY <1>1, <1>5, <1>7, <3>2 DEF LoopInv, Counted
        <3> QED BY <3>1, <3>2
    <2> QED BY <2>1 DEF Counted
<1>11. ControlTypes' /\ callerSignals' # 0
    <2>1. ControlTypes
        BY TypeParts DEF LoopInv
    <2>2. created' \in 0..MaxObjects
        BY <1>1, <2>1 DEF ControlTypes, Objects
    <2>3. callerSignals' \in 0..MaxSignals /\ callerSignals' # 0
        BY <1>1, <2>1 DEF ControlTypes
    <2> QED BY <1>1, <2>1, <2>2, <2>3 DEF ControlTypes, loopVars
<1>12. Draining'
    <2>1. \A p \in Objects : ~ev[p].running => ~ev'[p].running
        BY <1>3, <1>5
    <2> QED BY <1>1, <2>1 DEF LoopInv, Draining, loopVars
<1>13. NoLostWakeup'
    BY <1>11 DEF NoLostWakeup
<1> QED BY <1>4, <1>8, <1>9, <1>10, <1>11, <1>12, <1>13, TypePartsNext DEF LoopInv

LEMMA TickStep ==
    ASSUME LoopInv, NEW o \in Objects, Tick(o)
    PROVE  LoopInv'
<1> DEFINE e == [ev[o] EXCEPT !.due = TRUE]
<1>1. ev' = [ev EXCEPT ![o] = e]
      /\ UNCHANGED <<state, wake, events, finished, created, active, runs, loopVars, signalVars>>
    BY DEF LoopInv, TypeOK, Tick
<1>2. ev \in [Objects -> EventType] /\ ev[o] \in EventType
    BY DEF LoopInv, TypeOK
<1>3. /\ e \in EventType /\ e.name = ev[o].name /\ e.count = ev[o].count /\ e.remaining = ev[o].remaining
      /\ e.running = ev[o].running /\ e.done = ev[o].done /\ e.deleting = ev[o].deleting /\ e.result = ev[o].result
    BY <1>2 DEF EventType
<1> HIDE DEF e
<1>4. \A p \in Objects :
        /\ ev'[p].name = ev[p].name /\ ev'[p].count = ev[p].count /\ ev'[p].remaining = ev[p].remaining
        /\ ev'[p].running = ev[p].running /\ ev'[p].done = ev[p].done /\ ev'[p].deleting = ev[p].deleting
        /\ ev'[p].result = ev[p].result /\ (p # o => ev'[p] = ev[p])
    BY <1>1, <1>2, <1>3
<1>5. o \in 1..created
    BY RegisteredExist DEF LoopInv, Tick
<1>6. 1..created \subseteq Objects /\ created \in Nat
    BY DEF LoopInv, TypeOK, Objects
<1>7. EventTypes'
    BY <1>1, <1>2, <1>3 DEF LoopInv, TypeOK, EventTypes
<1>8. ControlTypes'
    BY <1>1 DEF LoopInv, TypeOK, ControlTypes, loopVars, signalVars
<1>9. Linked'
    <2>1. ASSUME NEW n \in Names, events[n] # None
          PROVE  events[n] \in 1..created /\ ev'[events[n]].name = n /\ ~ev'[events[n]].done
        BY <1>4, <1>6, <2>1 DEF LoopInv, Linked
    <2>2. ASSUME NEW p \in 1..created PROVE ev'[p].name \in Names /\ (~ev'[p].done => events[ev'[p].name] = p)
        BY <1>4, <1>6 DEF LoopInv, Linked
    <2> QED BY <1>1, <2>1, <2>2 DEF Linked
<1>10. Workers'
    <2>1. \A p \in Objects : p > created => p # o
        BY <1>5, <1>6 DEF Objects
    <2> QED BY <1>1, <1>4, <2>1 DEF LoopInv, Workers
<1>11. Counted'
    BY <1>1, <1>4, <1>6 DEF LoopInv, Counted
<1>12. Draining'
    BY <1>1, <1>4 DEF LoopInv, Draining, loopVars, signalVars
<1>13. Candidates' = Candidates
    BY <1>1, <1>4 DEF Candidates, Registered
<1>14. NoLostWakeup'
    BY <1>1, <1>13 DEF LoopInv, NoLostWakeup, loopVars, signalVars
<1> QED BY <1>7, <1>8, <1>9, <1>10, <1>11, <1>12, <1>14, TypePartsNext DEF LoopInv

LEMMA DispatchedFields ==
    ASSUME NEW e \in EventType
    PROVE  LET f == Dispatched(e)
           IN  /\ f \in EventType /\ f.running = TRUE /\ f.remaining = (IF e.remaining > 0 THEN e.remaining - 1 ELSE e.remaining)
               /\ f.name = e.name /\ f.count = e.count /\ f.deleting = e.deleting /\ f.done = e.done
               /\ f.result = e.result
<1>1. e.remaining \in Int
    BY DEF EventType
<1> DEFINE k == IF e.remaining > 0 THEN e.remaining - 1 ELSE e.remaining
<1>2. k \in Int
    BY <1>1
<1>3. Dispatched(e) = [e EXCEPT !.remaining = k, !.running = TRUE, !.due = FALSE, !.canceled = FALSE]
    BY DEF Dispatched
<1> HIDE DEF k
<1>4. LET f == Dispatched(e)
      IN  /\ f \in EventType /\ f.running = TRUE /\ f.remaining = k
          /\ f.name = e.name /\ f.count = e.count /\ f.deleting = e.deleting /\ f.done = e.done
          /\ f.result = e.result
    BY <1>2, <1>3 DEF EventType
<1> QED BY <1>4 DEF k

\* A worker for each due event; the timer accounts for the other candidates.
LEMMA DispatchStep ==
    ASSUME LoopInv, DispatchDue
    PROVE  LoopInv'
<1> DEFINE due == {o \in Candidates : ev[o].due}
<1>1. /\ pc = "dispatch" /\ state = "running"
      /\ ev' = [o \in Objects |-> IF o \in due THEN Dispatched(ev[o]) ELSE ev[o]]
      /\ active' = [o \in Objects |-> IF o \in due THEN active[o] + 1 ELSE active[o]]
      /\ runs' = [o \in Objects |-> IF o \in due /\ ev[o].count # -1 THEN runs[o] + 1 ELSE runs[o]]
      /\ armed' = Candidates \ due /\ ready' = starts /\ pc' = "select"
      /\ UNCHANGED <<state, wake, events, finished, created, starts, signalVars>>
    BY DEF DispatchDue
<1>2. due \subseteq Candidates
    OBVIOUS
<1> HIDE DEF due
<1>3. \A o \in Objects : /\ ev[o] \in EventType /\ ev[o].remaining \in Int /\ ev[o].running \in BOOLEAN
                         /\ ev[o].done \in BOOLEAN /\ active[o] \in Nat /\ runs[o] \in Nat
    BY DEF LoopInv, TypeOK, EventType
<1>4. \A o \in Candidates : /\ o \in Registered /\ ev[o].running = FALSE /\ ev[o].remaining # 0 /\ o \in 1..created
                            /\ o \in Objects /\ ev[o].done = FALSE
    <2>1. \A o \in Candidates : o \in Registered /\ ~ev[o].running /\ ev[o].remaining # 0
        BY DEF Candidates
    <2>2. \A o \in Registered : o \in 1..created /\ o \in Objects /\ ev[o].done = FALSE
        BY RegisteredExist DEF LoopInv
    <2> QED BY <1>3, <2>1, <2>2
<1>5. \A o \in due :
        /\ ev'[o] \in EventType /\ ev'[o].running = TRUE
        /\ ev'[o].remaining = (IF ev[o].remaining > 0 THEN ev[o].remaining - 1 ELSE ev[o].remaining)
        /\ ev'[o].name = ev[o].name /\ ev'[o].count = ev[o].count /\ ev'[o].deleting = ev[o].deleting
        /\ ev'[o].done = ev[o].done /\ ev'[o].result = ev[o].result
    <2> SUFFICES ASSUME NEW o \in due
                 PROVE  /\ ev'[o] \in EventType /\ ev'[o].running = TRUE
                        /\ ev'[o].remaining = (IF ev[o].remaining > 0 THEN ev[o].remaining - 1 ELSE ev[o].remaining)
                        /\ ev'[o].name = ev[o].name /\ ev'[o].count = ev[o].count /\ ev'[o].deleting = ev[o].deleting
                        /\ ev'[o].done = ev[o].done /\ ev'[o].result = ev[o].result
        OBVIOUS
    <2>0. o \in Objects
        BY <1>2, <1>4
    <2>1. ev'[o] = Dispatched(ev[o]) /\ ev[o] \in EventType
        BY <1>1, <1>3, <2>0
    <2> QED BY <2>1, DispatchedFields
<1>6. \A o \in Objects : o \notin due => ev'[o] = ev[o]
    BY <1>1
<1>7. EventTypes'
    <2>1. ev' \in [Objects -> EventType]
        BY <1>1, <1>3, <1>5, <1>6
    <2> QED BY <1>1, <2>1 DEF LoopInv, TypeOK, EventTypes
<1>8. ControlTypes'
    <2>1. ControlTypes
        BY TypeParts DEF LoopInv
    <2>2. active' \in [Objects -> Nat] /\ runs' \in [Objects -> Nat]
        BY <1>1, <1>3
    <2>3. armed' \in SUBSET Objects
        BY <1>1, <1>4
    <2>4. ready' \in 0..starts' /\ starts' \in 0..MaxStarts
        BY <1>1, <2>1 DEF ControlTypes
    <2> QED BY <1>1, <2>1, <2>2, <2>3, <2>4 DEF ControlTypes, signalVars
<1>9. 1..created \subseteq Objects /\ created' = created /\ created \in Nat
    BY <1>1 DEF LoopInv, TypeOK, Objects
<1>10. Linked'
    <2>0. Linked /\ \A p \in 1..created : ev'[p].name = ev[p].name /\ ev'[p].done = ev[p].done
        BY <1>5, <1>6, <1>9 DEF LoopInv
    <2>1. ASSUME NEW n \in Names, events[n] # None
          PROVE  events[n] \in 1..created /\ ev'[events[n]].name = n /\ ~ev'[events[n]].done
        BY <2>0, <2>1 DEF Linked
    <2>2. ASSUME NEW p \in 1..created PROVE ev'[p].name \in Names /\ (~ev'[p].done => events[ev'[p].name] = p)
        BY <2>0 DEF Linked
    <2>3. events' = events /\ created' = created
        BY <1>1
    <2> QED BY <2>1, <2>2, <2>3 DEF Linked
<1>11. Workers'
    <2>1. ASSUME NEW p \in Objects
          PROVE  /\ p > created' => ev'[p] = Blank /\ runs'[p] = 0
                 /\ active'[p] = (IF ev'[p].running THEN 1 ELSE 0)
                 /\ ev'[p].done => ~ev'[p].running
        <3>1. /\ p > created => ev[p] = Blank /\ runs[p] = 0
              /\ active[p] = (IF ev[p].running THEN 1 ELSE 0)
              /\ ev[p].done => ~ev[p].running
            BY DEF LoopInv, Workers
        <3>2. CASE p \in due
            <4>1. ev[p].running = FALSE /\ ev[p].done = FALSE /\ p \in 1..created
                BY <1>2, <1>4, <3>2
            <4>2. ev'[p].running = TRUE /\ ev'[p].done = FALSE
                BY <1>5, <3>2, <4>1
            <4>3. active'[p] = 1
                BY <1>1, <3>1, <3>2, <4>1
            <4>4. ~(p > created')
                BY <1>9, <4>1
            <4> QED BY <4>2, <4>3, <4>4
        <3>3. CASE p \notin due
            BY <1>1, <1>6, <3>1, <3>3
        <3> QED BY <3>2, <3>3
    <2> QED BY <2>1 DEF Workers
<1>12. Counted'
    <2>1. ASSUME NEW p \in 1..created
          PROVE  /\ ev'[p].count # -1 => ev'[p].remaining \in Nat /\ runs'[p] + ev'[p].remaining = ev'[p].count
                 /\ ev'[p].done /\ ev'[p].result = "returned" /\ ev'[p].count # -1 => ev'[p].remaining = 0
        <3>1. /\ ev[p].count # -1 => ev[p].remaining \in Nat /\ runs[p] + ev[p].remaining = ev[p].count
              /\ ev[p].done /\ ev[p].result = "returned" /\ ev[p].count # -1 => ev[p].remaining = 0
            BY DEF LoopInv, Counted
        <3>2. CASE p \in due
            <4>1. ev[p].done = FALSE /\ ev[p].remaining # 0 /\ runs[p] \in Nat
                BY <1>2, <1>3, <1>4, <3>2
            <4>2. ev'[p].done = FALSE /\ ev'[p].count = ev[p].count
                BY <1>5, <3>2, <4>1
            <4>3. ASSUME ev[p].count # -1
                  PROVE  ev'[p].remaining \in Nat /\ runs'[p] + ev'[p].remaining = ev'[p].count
                <5>1. ev'[p].remaining = ev[p].remaining - 1 /\ ev[p].remaining \in Nat
                    BY <1>5, <3>1, <3>2, <4>1, <4>3
                <5>2. runs'[p] = runs[p] + 1
                    BY <1>1, <1>9, <3>2, <4>3
                <5> QED BY <3>1, <4>1, <4>2, <4>3, <5>1, <5>2
            <4> QED BY <4>2, <4>3
        <3>3. CASE p \notin due
            BY <1>1, <1>6, <1>9, <3>1, <3>3
        <3> QED BY <3>2, <3>3
    <2> QED BY <1>9, <2>1 DEF Counted
<1>13. Candidates' \subseteq armed'
    <2>1. Registered' = Registered
        BY <1>1 DEF Registered
    <2>2. ASSUME NEW p \in Candidates' PROVE p \in Candidates \ due
        <3>1. p \in Registered /\ ~ev'[p].deleting /\ ev'[p].remaining # 0 /\ ~ev'[p].running /\ p \in Objects
            BY <2>1 DEF Candidates, Registered
        <3>2. p \notin due
            BY <1>5, <3>1
        <3> QED BY <1>6, <3>1, <3>2 DEF Candidates
    <2> QED BY <1>1, <2>2
<1>14. NoLostWakeup' /\ Draining'
    BY <1>1, <1>13 DEF NoLostWakeup, Draining
<1> QED BY <1>7, <1>8, <1>10, <1>11, <1>12, <1>14, TypePartsNext DEF LoopInv

\* Steps that leave the events alone.
LEMMA ControlStep ==
    ASSUME LoopInv,
           \/ Start \/ CallerSignalsWake \/ (\E o \in Objects : WorkerSignalsWake(o)) \/ SeesStop \/ TakesToken
           \/ TimerFires \/ HourPasses \/ Drained \/ UNCHANGED vars
    PROVE  LoopInv'
<1>1. UNCHANGED <<events, finished, ev, created, active, runs>>
    BY DEF Start, CallerSignalsWake, WorkerSignalsWake, SeesStop, TakesToken, TimerFires, HourPasses, Drained, vars
<1>2. EventTypes' /\ Linked' /\ Workers' /\ Counted' /\ Candidates' = Candidates
    BY <1>1 DEF LoopInv, TypeOK, EventTypes, Linked, Workers, Counted, Candidates, Registered
<1>3. ControlTypes
    BY TypeParts DEF LoopInv
<1>4. ControlTypes' /\ NoLostWakeup' /\ Draining'
    <2>1. CASE Start
        <3>1. starts' \in 0..MaxStarts /\ ready' \in 0..starts'
            BY <1>3, <2>1 DEF Start, ControlTypes
        <3>2. /\ state' = "running" /\ pc' = "dispatch" /\ wake' = FALSE /\ UNCHANGED <<armed, signalVars>>
            BY <2>1 DEF Start
        <3>3. ControlTypes'
            BY <1>1, <1>3, <3>1, <3>2 DEF ControlTypes, signalVars
        <3> QED BY <3>2, <3>3 DEF NoLostWakeup, Draining
    <2>2. CASE CallerSignalsWake
        BY <1>1, <1>3, <2>2 DEF CallerSignalsWake, ControlTypes, NoLostWakeup, LoopInv, Draining, loopVars
    <2>3. ASSUME NEW o \in Objects, WorkerSignalsWake(o) PROVE ControlTypes' /\ NoLostWakeup' /\ Draining'
        <3>1. workerSignals' \in [Objects -> 0..MaxSignals] /\ (\A p \in Objects : workerSignals[p] = 0 => workerSignals'[p] = 0)
            BY <1>3, <2>3 DEF WorkerSignalsWake, ControlTypes
        <3> QED BY <1>1, <1>3, <2>3, <3>1 DEF WorkerSignalsWake, ControlTypes, NoLostWakeup, LoopInv, Draining, loopVars
    <2>4. CASE SeesStop
        BY <1>1, <1>3, <2>4 DEF SeesStop, ControlTypes, NoLostWakeup, LoopInv, Draining, signalVars
    <2>5. CASE TakesToken \/ TimerFires \/ HourPasses
        BY <1>1, <1>3, <2>5 DEF TakesToken, TimerFires, HourPasses, ControlTypes, NoLostWakeup, LoopInv, Draining, signalVars
    <2>6. CASE Drained
        <3>1. \A o \in Objects : ~ev[o].running
            BY <2>6 DEF Drained, LoopInv, Workers
        <3> QED BY <1>1, <1>3, <2>6, <3>1 DEF Drained, ControlTypes, NoLostWakeup, LoopInv, Draining, signalVars
    <2>7. CASE UNCHANGED vars
        BY <1>2, <1>3, <2>7 DEF vars, ControlTypes, NoLostWakeup, LoopInv, Draining, signalVars, loopVars
    <2> QED BY <2>1, <2>2, <2>3, <2>4, <2>5, <2>6, <2>7
<1> QED BY <1>2, <1>4, TypePartsNext DEF LoopInv

LEMMA LoopStepInv ==
    ASSUME LoopInv, [Next]_vars
    PROVE  LoopInv'
BY RegisterStep, StopStep, DelStep, ReturnStep, TickStep, DispatchStep, ControlStep DEF Next, CallerStep, SchedulerStep

LEMMA LoopInitially ==
    ASSUME Init
    PROVE  LoopInv
<1>1. TypeOK
    <2>1. EventTypes
        BY BlankFields DEF Init, EventTypes
    <2>2. 0 \in 0..MaxObjects /\ 0 \in 0..MaxStarts /\ 0 \in 0..0 /\ 0 \in 0..MaxSignals /\ 0 \in Nat
        OBVIOUS
    <2>3. ControlTypes
        BY <2>2 DEF Init, ControlTypes
    <2> QED BY <2>1, <2>3, TypeParts
<1>2. Linked /\ Counted
    BY DEF Init, Linked, Counted
<1>3. Workers /\ Draining /\ NoLostWakeup
    BY BlankFields DEF Init, Workers, Draining, NoLostWakeup, Objects
<1> QED BY <1>1, <1>2, <1>3 DEF LoopInv

LEMMA LoopInvIsEnough ==
    ASSUME LoopInv
    PROVE  LoopIsSound
<1>1. \A o \in Objects : ev[o].done \in BOOLEAN /\ ev[o].running \in BOOLEAN
    BY DEF LoopInv, TypeOK, EventType
<1>2. created \in Nat /\ 1..created \subseteq Objects
    BY DEF LoopInv, TypeOK, Objects
<1>3. ASSUME NEW o \in Objects, active[o] > 0
      PROVE  active[o] = 1 /\ o \in 1..created /\ ~ev[o].done
    <2>1. ev[o].running = TRUE /\ active[o] = 1
        BY <1>1, <1>3 DEF LoopInv, Workers
    <2>2. ~(o > created)
        BY <2>1, BlankFields DEF LoopInv, Workers
    <2> QED BY <1>1, <1>2, <2>1, <2>2 DEF LoopInv, Workers, Objects
<1>4. NoOverlap
    BY <1>3 DEF NoOverlap, LoopInv, Linked
<1>5. UndoneIsReachable
    <2> SUFFICES ASSUME NEW o \in 1..created
                 PROVE  /\ ev[o].done \/ events[ev[o].name] = o
                        /\ ev[o].done => active[o] = 0 /\ events[ev[o].name] # o
        BY DEF UndoneIsReachable
    <2>1. ev[o].name \in Names /\ (~ev[o].done => events[ev[o].name] = o)
        BY DEF LoopInv, Linked
    <2>2. ASSUME ev[o].done PROVE active[o] = 0 /\ events[ev[o].name] # o
        <3>1. active[o] = 0
            BY <1>1, <1>2, <2>2 DEF LoopInv, Workers
        <3>2. o # None
            BY DEF None
        <3> QED BY <2>1, <2>2, <3>1, <3>2 DEF LoopInv, Linked
    <2> QED BY <2>1, <2>2
<1>6. CountIsExact
    <2> SUFFICES ASSUME NEW o \in 1..created, ev[o].count # -1
                 PROVE  /\ runs[o] + ev[o].remaining = ev[o].count
                        /\ ev[o].done /\ ev[o].result = "returned" => runs[o] = ev[o].count
        BY DEF CountIsExact
    <2>1. runs[o] + ev[o].remaining = ev[o].count /\ runs[o] \in Nat
        BY <1>2 DEF LoopInv, Counted, TypeOK
    <2>2. ev[o].done /\ ev[o].result = "returned" => ev[o].remaining = 0
        BY DEF LoopInv, Counted
    <2> QED BY <2>1, <2>2
<1>7. StoppedIsQuiet
    BY DEF StoppedIsQuiet, LoopInv, Draining, Workers
<1> QED BY <1>4, <1>5, <1>6, <1>7 DEF LoopIsSound, LoopInv

\* The scheduler loses no wake-up, callbacks of a name never overlap, events can
\* be reached until they are done and run as often as their count says, however
\* callers, workers and the scheduler interleave.
THEOREM LoopSound == Spec => []LoopIsSound
<1>1. Init => LoopInv
    BY LoopInitially
<1>2. LoopInv /\ [Next]_vars => LoopInv'
    BY LoopStepInv
<1>3. LoopInv => LoopIsSound
    BY LoopInvIsEnough
<1> QED BY <1>1, <1>2, <1>3, PTL DEF Spec

-----------------------------------------------------------------------------
(* The Server *)

ServerTypes ==
    /\ tasks \in Seq(Names) /\ registered \in Nat /\ registered <= Len(tasks)
    /\ requests \in Nat /\ closed \in Nat

\* Nothing serves, and nothing can start to, once the shutdown has closed the
\* listener; the loop stays stopped once it has been seen stopped; and the
\* resources come last.
ShutdownInOrder ==
    /\ shutdown # "none" => stopping = TRUE
    /\ starting = TRUE => shutdown = "none"
    /\ shutdown \in {"stopping", "done"} => listening = FALSE
    /\ httpDown = TRUE => shutdown \in {"stopping", "done"} /\ requests = 0
    /\ loopAsked = TRUE => shutdown \in {"stopping", "done"}
    /\ loopDown = TRUE => loopAsked = TRUE /\ state = "stopped"
    /\ closed > 0 => httpDown = TRUE /\ loopDown = TRUE

\* Until a Server is ready, the loop has only the tasks it has registered.
TasksAreOwn ==
    phase # "ready" => \A n \in Names : events[n] # None => phase # "failed" /\ \E i \in 1..registered : tasks[i] = n

ServerInv == LoopInv /\ ServerTypes /\ ShutdownInOrder /\ TasksAreOwn

\* Every step of the Server is a step of its loop, or leaves it alone.
LEMMA ServerUsesLoop ==
    ASSUME ServerTypes, [ServerNext]_allVars
    PROVE  [Next]_vars
<1>1. CASE RegisterTask
    <2>1. registered + 1 \in 1..Len(tasks)
        BY <1>1 DEF RegisterTask, ServerTypes
    <2>2. tasks[registered + 1] \in Names
        BY <2>1 DEF ServerTypes
    <2> QED BY <1>1, <2>2 DEF RegisterTask, Next, CallerStep
<1>2. CASE Rollback
    <2>1. PICK i \in 1..registered : DelEvent(tasks[i])
        BY <1>2 DEF Rollback
    <2>2. tasks[i] \in Names
        <3>1. i \in 1..Len(tasks)
            BY DEF ServerTypes
        <3> QED BY <3>1 DEF ServerTypes
    <2> QED BY <2>1, <2>2 DEF Next, CallerStep
<1>3. CASE StartLoop \/ StopLoop \/ LoopStep
    BY <1>3 DEF StartLoop, StopLoop, LoopStep, Next, CallerStep
<1>4. CASE \/ RegisterTaskFails \/ RollbackDone \/ ServerReady \/ StartServing \/ Request \/ RequestEnds \/ ServeReturns
           \/ BeginShutdown \/ CloseListener \/ HTTPShutdown \/ LoopStopped \/ CloseResource \/ ShutdownDone
           \/ UNCHANGED allVars
    BY <1>4 DEF RegisterTaskFails, RollbackDone, ServerReady, StartServing, Request, RequestEnds, ServeReturns,
                BeginShutdown, CloseListener, HTTPShutdown, LoopStopped, CloseResource, ShutdownDone, allVars
<1> QED BY <1>1, <1>2, <1>3, <1>4 DEF ServerNext, NewServer, FinishShutdown

\* The loop's own steps, and calls of Stop and DelEvent, register nothing and
\* start no loop.
LEMMA LoopOnlyForgets ==
    ASSUME LoopInv,
           \/ CallerSignalsWake \/ SchedulerStep \/ HourPasses \/ Stop \/ (\E n \in Names : DelEvent(n))
           \/ \E o \in Objects : Tick(o) \/ TaskReturns(o) \/ WorkerSignalsWake(o)
    PROVE  /\ \A n \in Names : events'[n] = None \/ events'[n] = events[n]
           /\ state = "stopped" => state' = "stopped"
<1>1. ASSUME NEW S, NEW result, NEW objects, Terminate(S, result, objects)
      PROVE  \A n \in Names : events'[n] = None \/ events'[n] = events[n]
    BY <1>1 DEF Terminate
<1>2. CASE CallerSignalsWake \/ HourPasses \/ SchedulerStep
    BY <1>2 DEF CallerSignalsWake, HourPasses, SchedulerStep, DispatchDue, SeesStop, TakesToken, TimerFires, Drained
<1>3. CASE Stop
    BY <1>1, <1>3 DEF Stop
<1>4. ASSUME NEW n \in Names, DelEvent(n)
      PROVE  (\A m \in Names : events'[m] = None \/ events'[m] = events[m]) /\ state' = state
    BY <1>1, <1>4 DEF DelEvent
<1>5. ASSUME NEW o \in Objects, Tick(o) \/ WorkerSignalsWake(o)
      PROVE  (\A m \in Names : events'[m] = None \/ events'[m] = events[m]) /\ state' = state
    BY <1>5 DEF Tick, WorkerSignalsWake
<1>6. ASSUME NEW o \in Objects, TaskReturns(o)
      PROVE  (\A m \in Names : events'[m] = None \/ events'[m] = events[m]) /\ state' = state
    BY <1>1, <1>6 DEF TaskReturns
<1> QED BY <1>2, <1>3, <1>4, <1>5, <1>6

LEMMA ServerTypesStep ==
    ASSUME ServerTypes, [ServerNext]_allVars
    PROVE  ServerTypes'
<1>1. CASE RegisterTask
    BY <1>1 DEF RegisterTask, ServerTypes, shutdownVars
<1>2. CASE Request \/ RequestEnds \/ CloseResource
    BY <1>2 DEF Request, RequestEnds, CloseResource, ServerTypes, newVars, shutdownVars
<1>3. CASE Rollback \/ LoopStep \/ UNCHANGED allVars
    BY <1>3 DEF Rollback, LoopStep, allVars, serverVars, ServerTypes, newVars, shutdownVars
<1>4. CASE \/ RegisterTaskFails \/ RollbackDone \/ ServerReady \/ StartLoop \/ StartServing \/ ServeReturns \/ BeginShutdown
           \/ CloseListener \/ HTTPShutdown \/ StopLoop \/ LoopStopped \/ ShutdownDone
    BY <1>4 DEF RegisterTaskFails, RollbackDone, ServerReady, StartLoop, StartServing, ServeReturns, BeginShutdown,
                CloseListener, HTTPShutdown, StopLoop, LoopStopped, ShutdownDone, ServerTypes, newVars, shutdownVars
<1> QED BY <1>1, <1>2, <1>3, <1>4 DEF ServerNext, NewServer, FinishShutdown

LEMMA ShutdownStep ==
    ASSUME LoopInv, ServerTypes, ShutdownInOrder, [ServerNext]_allVars
    PROVE  ShutdownInOrder'
<1>1. CASE RegisterTask
    <2>1. state' = state
        BY <1>1 DEF RegisterTask, RegisterEvent
    <2> QED BY <1>1, <2>1 DEF RegisterTask, ShutdownInOrder, startVars, shutdownVars
<1>2. CASE Rollback \/ LoopStep
    <2>1. state = "stopped" => state' = "stopped"
        <3>1. CASE LoopStep
            BY <3>1, LoopOnlyForgets DEF LoopStep
        <3>2. CASE Rollback
            BY <3>2 DEF Rollback, DelEvent
        <3> QED BY <1>2, <3>1, <3>2
    <2> QED BY <1>2, <2>1 DEF Rollback, LoopStep, serverVars, ShutdownInOrder, startVars, shutdownVars
<1>3. CASE StartLoop
    BY <1>3 DEF StartLoop, ShutdownInOrder, shutdownVars
<1>4. CASE StopLoop
    <2>1. state = "stopped" => state' = "stopped"
        BY <1>4 DEF StopLoop, Stop
    <2> QED BY <1>4, <2>1 DEF StopLoop, ShutdownInOrder, startVars
<1>5. CASE RegisterTaskFails \/ RollbackDone \/ ServerReady \/ StartServing \/ ServeReturns
    BY <1>5 DEF RegisterTaskFails, RollbackDone, ServerReady, StartServing, ServeReturns, ShutdownInOrder, vars, newVars,
                startVars, shutdownVars
<1>6. CASE Request \/ RequestEnds
    BY <1>6 DEF Request, RequestEnds, ShutdownInOrder, ServerTypes, vars, newVars, startVars, shutdownVars
<1>7. CASE BeginShutdown \/ CloseListener \/ HTTPShutdown \/ LoopStopped \/ ShutdownDone
    BY <1>7 DEF BeginShutdown, CloseListener, HTTPShutdown, LoopStopped, ShutdownDone, ShutdownInOrder, vars, newVars,
                startVars
<1>8. CASE CloseResource
    BY <1>8 DEF CloseResource, ShutdownInOrder, vars, newVars, startVars
<1>9. CASE UNCHANGED allVars
    BY <1>9 DEF allVars, serverVars, vars, ShutdownInOrder, newVars, startVars, shutdownVars
<1> QED BY <1>1, <1>2, <1>3, <1>4, <1>5, <1>6, <1>7, <1>8, <1>9 DEF ServerNext, NewServer, FinishShutdown

LEMMA TasksStep ==
    ASSUME LoopInv, ServerTypes, TasksAreOwn, [ServerNext]_allVars
    PROVE  TasksAreOwn'
<1>1. CASE RegisterTask
    <2> DEFINE m == tasks[registered + 1]
    <2>1. /\ phase = "registering" /\ phase' = phase /\ tasks' = tasks /\ registered' = registered + 1
          /\ RegisterEvent(m, -1)
        BY <1>1 DEF RegisterTask
    <2>2. \A n \in Names : n # m => events'[n] = events[n]
        BY <2>1 DEF RegisterEvent, LoopInv, TypeOK
    <2> HIDE DEF m
    <2>3. ASSUME NEW n \in Names, events'[n] # None PROVE \E i \in 1..registered' : tasks'[i] = n
        <3>1. CASE n = m
            BY <2>1, <3>1 DEF ServerTypes, m
        <3>2. CASE n # m
            <4>1. PICK i \in 1..registered : tasks[i] = n
                BY <2>1, <2>2, <2>3, <3>2 DEF TasksAreOwn
            <4> QED BY <2>1, <4>1 DEF ServerTypes
        <3> QED BY <3>1, <3>2
    <2> QED BY <2>1, <2>3 DEF TasksAreOwn
<1>2. ASSUME \A n \in Names : events'[n] = None \/ events'[n] = events[n], UNCHANGED newVars
      PROVE  TasksAreOwn'
    BY <1>2 DEF TasksAreOwn, newVars
<1>3. CASE Rollback
    <2>1. PICK i \in 1..registered : DelEvent(tasks[i])
        BY <1>3 DEF Rollback
    <2>2. tasks[i] \in Names
        <3>1. i \in 1..Len(tasks)
            BY DEF ServerTypes
        <3> QED BY <3>1 DEF ServerTypes
    <2>3. UNCHANGED newVars
        BY <1>3 DEF Rollback, serverVars
    <2> QED BY <1>2, <2>1, <2>2, <2>3, LoopOnlyForgets
<1>4. CASE LoopStep
    <2>1. UNCHANGED newVars
        BY <1>4 DEF LoopStep, serverVars
    <2> QED BY <1>2, <1>4, <2>1, LoopOnlyForgets DEF LoopStep
<1>5. CASE StopLoop
    <2>1. UNCHANGED newVars /\ Stop
        BY <1>5 DEF StopLoop
    <2> QED BY <1>2, <2>1, LoopOnlyForgets
<1>6. CASE StartLoop
    BY <1>2, <1>6 DEF StartLoop, Start
<1>7. CASE RegisterTaskFails
    BY <1>7 DEF RegisterTaskFails, vars, TasksAreOwn
<1>8. CASE RollbackDone
    <2>1. \A n \in Names : events[n] = None
        BY <1>8 DEF RollbackDone, TasksAreOwn
    <2> QED BY <1>8, <2>1 DEF RollbackDone, vars, TasksAreOwn
<1>9. CASE ServerReady
    BY <1>9 DEF ServerReady, TasksAreOwn
<1>10. CASE \/ StartServing \/ Request \/ RequestEnds \/ ServeReturns \/ BeginShutdown \/ CloseListener \/ HTTPShutdown
            \/ LoopStopped \/ CloseResource \/ ShutdownDone \/ UNCHANGED allVars
    <2>1. UNCHANGED newVars /\ events' = events
        BY <1>10 DEF StartServing, Request, RequestEnds, ServeReturns, BeginShutdown, CloseListener, HTTPShutdown,
                     LoopStopped, CloseResource, ShutdownDone, allVars, serverVars, vars
    <2> QED BY <1>2, <2>1
<1> QED BY <1>1, <1>3, <1>4, <1>5, <1>6, <1>7, <1>8, <1>9, <1>10 DEF ServerNext, NewServer, FinishShutdown

LEMMA ServerStep ==
    ASSUME ServerInv, [ServerNext]_allVars
    PROVE  ServerInv'
<1>1. LoopInv /\ ServerTypes /\ ShutdownInOrder /\ TasksAreOwn
    BY DEF ServerInv
<1>2. LoopInv'
    BY <1>1, ServerUsesLoop, LoopStepInv
<1> QED BY <1>1, <1>2, ServerTypesStep, ShutdownStep, TasksStep DEF ServerInv

LEMMA ServerInitially ==
    ASSUME ServerInit
    PROVE  ServerInv
<1>1. LoopInv
    BY LoopInitially DEF ServerInit
<1>2. tasks \in Seq(Names)
    BY DEF ServerInit
<1>3. ServerTypes
    BY <1>2 DEF ServerInit, ServerTypes
<1>4. ShutdownInOrder /\ TasksAreOwn
    BY DEF ServerInit, Init, ShutdownInOrder, TasksAreOwn
<1> QED BY <1>1, <1>3, <1>4 DEF ServerInv

\* The Server uses its loop only as callers may, and the loop under it keeps all
\* its promises.
THEOREM ServerRunsTheLoop == ServerSpec => Spec
<1>1. ServerInit => Init /\ ServerInv
    BY ServerInitially DEF ServerInit
<1>2. ServerInv /\ [ServerNext]_allVars => ServerInv' /\ [Next]_vars
    BY ServerStep, ServerUsesLoop DEF ServerInv
<1> QED BY <1>1, <1>2, PTL DEF ServerSpec, Spec

\* No resource is closed under a request or a callback that may use it, and a
\* NewServer that fails leaves no task on the loop.
THEOREM ServerSound == ServerSpec => []ServerIsSound
<1>1. ServerInit => ServerInv
    BY ServerInitially
<1>2. ServerInv /\ [ServerNext]_allVars => ServerInv'
    BY ServerStep
<1>3. ServerInv => ServerIsSound
    <2> SUFFICES ASSUME ServerInv PROVE ServerIsSound
        OBVIOUS
    <2>1. StoppedIsQuiet
        BY LoopInvIsEnough DEF ServerInv, LoopIsSound
    <2>2. ResourcesOutliveTheirUsers
        BY <2>1 DEF ServerInv, ShutdownInOrder, ResourcesOutliveTheirUsers, StoppedIsQuiet
    <2>3. FailedServerLeavesNoTask
        BY DEF ServerInv, TasksAreOwn, FailedServerLeavesNoTask, Registered, Objects, None
    <2> QED BY <2>2, <2>3 DEF ServerIsSound
<1> QED BY <1>1, <1>2, <1>3, PTL DEF ServerSpec
=============================================================================
