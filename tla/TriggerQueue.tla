---------------------------- MODULE TriggerQueue ----------------------------
(***************************************************************************)
(* What agent_server promises about the triggers of a Session              *)
(* (agent_server/spec.md 63.4, 63.5): they are handed to Runs in arrival   *)
(* order, at most MaxTriggersPerRun at a time, none lost, none twice; they *)
(* arrive only while the Session is running; a stop or delete drops        *)
(* exactly the ones not yet handed over.  Nothing is said of Runs,         *)
(* goroutines, faults, crashes or the database.                            *)
(***************************************************************************)
EXTENDS Integers, Sequences

CONSTANTS Sessions, MaxTriggersPerRun

VARIABLES stream,  \* triggers accepted so far and not dropped, in order
          taken,   \* how many of them have been handed to a Run
          open     \* the Session is running

queueVars == <<stream, taken, open>>

QueueInit ==
    /\ stream = [s \in Sessions |-> <<>>]
    /\ taken = [s \in Sessions |-> 0]
    /\ open = [s \in Sessions |-> FALSE]

Begins(q, p) == Len(p) <= Len(q) /\ SubSeq(q, 1, Len(p)) = p

\* New triggers may join the end, and then one batch may be handed over.
Advance(s) ==
    /\ open[s] /\ open'[s]
    /\ Begins(stream'[s], stream[s])
    /\ \/ taken'[s] = taken[s]
       \/ /\ taken'[s] > taken[s]
          /\ \/ taken'[s] = taken[s] + MaxTriggersPerRun
             \/ /\ taken'[s] = Len(stream'[s])
                /\ taken'[s] < taken[s] + MaxTriggersPerRun

Open(s) ==
    /\ ~open[s] /\ open'[s]
    /\ stream'[s] = stream[s] /\ taken'[s] = taken[s]

Close(s) ==
    /\ open[s] /\ ~open'[s]
    /\ stream'[s] = SubSeq(stream[s], 1, taken[s])
    /\ taken'[s] = taken[s]

Idle(s) == open'[s] = open[s] /\ stream'[s] = stream[s] /\ taken'[s] = taken[s]

\* One transaction may serve several Sessions.
QueueNext == \A s \in Sessions : Advance(s) \/ Open(s) \/ Close(s) \/ Idle(s)

QueueSpec == QueueInit /\ [][QueueNext]_queueVars
=============================================================================
