----------------------------- MODULE RunHistory -----------------------------
(***************************************************************************)
(* Run history: the shard files that mirror the runs of a session that     *)
(* have ended (agent_server/internal/history, agent/history.go).  A        *)
(* transaction that ends a run or logs the outcome of an event rewrites    *)
(* the shards it touches before it commits, and puts them back if it does  *)
(* not; a restart rewrites every shard.  Readers resolve a run in the      *)
(* database first and read its file then.                                  *)
(*                                                                         *)
(* The database has one connection, which a transaction keeps from Begin   *)
(* to Commit or Rollback; historyMu is held from the first file that is    *)
(* written until Finish.  r.mu admits one writer at a time.  atomicWrite   *)
(* renames, so a file is written at once or not at all.                    *)
(***************************************************************************)
EXTENDS Integers, Sequences, FiniteSets, SequencesExt

CONSTANTS MaxRuns,    \* bound on the runs of the session
          ShardSize,  \* runs in a shard
          MaxLog,     \* bound on the rows of event_log
          Readers     \* readers of history

ASSUME HistoryAssumption == MaxRuns \in Nat /\ MaxLog \in Nat /\ ShardSize \in Nat \ {0}

VARIABLES
    db,         \* what is committed: last run, runs that have ended, event_log
    index,      \* committed rows of run_history_files
    file,       \* shard files: start -> body, or Absent
    tx,         \* the transaction of the writer
    historyMu,  \* it is held by the writer
    boot,       \* "repair", "recover", "up" or "fault" (latchPersistenceFault)
    repaired,   \* shards repairRunHistory has rewritten
    readers,    \* readers of a run
    damaged     \* ghost: shards that could not be put back since the start

historyVars == <<db, index, file, tx, historyMu, boot, repaired, readers, damaged>>

Runs == 1..MaxRuns

\* Range: the first run of the shard of a run.
ShardOf(run) == ((run - 1) \div ShardSize) * ShardSize + 1
Shards == {ShardOf(r) : r \in Runs}

Absent == [runs |-> {}, log |-> {}]

\* RunsInTx: the runs of a shard that have ended, with the rows of the log that
\* name one of them.
Projection(d, s) ==
    LET ended == {r \in d.ended : ShardOf(r) = s}
    IN  [runs |-> ended, log |-> {e \in d.log : e.created \in ended \/ e.outcome \in ended}]

NoTx == [pc |-> "none", db |-> [last |-> 0, ended |-> {}, log |-> {}], targets |-> {}, staged |-> <<>>, open |-> FALSE]

Reading == [pc |-> "idle", run |-> 1]

HistoryInit ==
    /\ db = [last |-> 0, ended |-> {}, log |-> {}]
    /\ index = {}
    /\ file = [s \in Shards |-> Absent]
    /\ tx = NoTx
    /\ historyMu = FALSE
    /\ boot = "up"
    /\ repaired = {}
    /\ readers = [r \in Readers |-> Reading]
    /\ damaged = {}

Free == ~tx.open    \* the connection

-----------------------------------------------------------------------------
(* Transactions *)

\* A transaction makes d of the database and stages the shards of the runs R;
\* StageTargets drops the shards that hold no run that has ended.
Begin(d, R) ==
    tx' = [NoTx EXCEPT !.pc = "stage", !.db = d, !.open = TRUE,
                       !.targets = {s \in {ShardOf(r) : r \in R \cap Runs} : Projection(d, s).runs # {}}]

Writer == tx.pc = "none" /\ boot = "up"

\* A run begins; with fired events whose outcome it is.
StartRun(E) ==
    LET run == db.last + 1
        rows == {[created |-> c, outcome |-> run] : c \in E}
    IN  /\ Writer /\ run \in Runs /\ db.last \in db.ended \union {0}
        /\ E \subseteq 1..db.last /\ Cardinality(db.log \union rows) <= MaxLog
        /\ Begin([db EXCEPT !.last = run, !.log = @ \union rows], E \union (IF E = {} THEN {} ELSE {run}))
        /\ UNCHANGED <<db, index, file, historyMu, boot, repaired, readers, damaged>>

\* RelatedRunIDsTx: the runs whose events a run is the outcome of.
Related(run) == {run} \union {e.created : e \in {x \in db.log : x.outcome = run}}

\* persistTerminalRunLocked, completeFinalizedRun
EndRun ==
    /\ Writer /\ db.last \notin db.ended \union {0}
    /\ Begin([db EXCEPT !.ended = @ \union {db.last}], Related(db.last))
    /\ UNCHANGED <<db, index, file, historyMu, boot, repaired, readers, damaged>>

\* Mutant: only the run that removed the event is staged.
LogOutcomeOfRun(c, o) ==
    LET row == [created |-> c, outcome |-> o]
    IN  /\ Writer /\ c \in 1..db.last /\ o \in {0, db.last}
        /\ row \notin db.log /\ Cardinality(db.log) < MaxLog
        /\ Begin([db EXCEPT !.log = @ \union {row}], {o})
        /\ UNCHANGED <<db, index, file, historyMu, boot, repaired, readers, damaged>>

\* An event of run c ends: it expires, is canceled by run o or cleared
\* (StageEventSince: the shards of both runs; ClearanceRunIDs).
LogOutcome(c, o) ==
    LET row == [created |-> c, outcome |-> o]
    IN  /\ Writer /\ c \in 1..db.last /\ o \in {0, db.last}
        /\ row \notin db.log /\ Cardinality(db.log) < MaxLog
        /\ Begin([db EXCEPT !.log = @ \union {row}], {c, o})
        /\ UNCHANGED <<db, index, file, historyMu, boot, repaired, readers, damaged>>

\* StageTargets: the lock, unless there is nothing to write.
LockHistory ==
    /\ tx.pc = "stage"
    /\ tx.targets # {} => ~historyMu
    /\ historyMu' = (historyMu \/ tx.targets # {})
    /\ tx' = [tx EXCEPT !.pc = IF tx.targets = {} THEN "commit" ELSE "write"]
    /\ UNCHANGED <<db, index, file, boot, repaired, readers, damaged>>

\* atomicWrite, in the order of the shards; the body it replaces is kept.
WriteShard ==
    LET todo == tx.targets \ {tx.staged[i].shard : i \in DOMAIN tx.staged}
    IN  /\ tx.pc = "write"
        /\ \E s \in todo :
             /\ \A u \in todo : s <= u
             /\ file' = [file EXCEPT ![s] = Projection(tx.db, s)]
             /\ tx' = [tx EXCEPT !.staged = Append(@, [shard |-> s, previous |-> file[s]]),
                                 !.pc = IF todo = {s} THEN "commit" ELSE "write"]
        /\ UNCHANGED <<db, index, historyMu, boot, repaired, readers, damaged>>

\* A file or its row of the index cannot be written: what was written is put
\* back before the rollback.
WriteFails ==
    /\ tx.pc = "write" \/ (tx.pc = "commit" /\ tx.targets # {})
    /\ tx' = [tx EXCEPT !.pc = "restore"]
    /\ UNCHANGED <<db, index, file, historyMu, boot, repaired, readers, damaged>>

Commit ==
    /\ tx.pc = "commit"
    /\ db' = tx.db
    /\ index' = index \union tx.targets
    /\ tx' = [tx EXCEPT !.pc = "finish", !.open = FALSE]
    /\ UNCHANGED <<file, historyMu, boot, repaired, readers, damaged>>

\* The commit fails: the connection is given back before the files are put back.
CommitFails ==
    /\ tx.pc = "commit"
    /\ tx' = [tx EXCEPT !.pc = "restore", !.open = FALSE]
    /\ UNCHANGED <<db, index, file, historyMu, boot, repaired, readers, damaged>>

\* Finish(true)
FinishCommitted ==
    /\ tx.pc = "finish"
    /\ historyMu' = FALSE
    /\ repaired' = repaired \union (IF boot = "repair" THEN tx.targets ELSE {})
    /\ boot' = IF boot = "recover" THEN "up" ELSE boot
    /\ tx' = NoTx
    /\ UNCHANGED <<db, index, file, readers, damaged>>

\* Mutant: what was written is removed, whatever it replaced.
RestoreRemoves ==
    LET f == Last(tx.staged)
    IN  /\ tx.pc = "restore" /\ tx.staged # <<>>
        /\ \/ file' = [file EXCEPT ![f.shard] = Absent] /\ UNCHANGED damaged
           \/ damaged' = damaged \union {f.shard} /\ UNCHANGED file
        /\ tx' = [tx EXCEPT !.staged = Front(@)]
        /\ UNCHANGED <<db, index, historyMu, boot, repaired, readers>>

\* Finish(false): the last file first; a file that cannot be put back is only
\* reported.
RestoreShard ==
    LET f == Last(tx.staged)
    IN  /\ tx.pc = "restore" /\ tx.staged # <<>>
        /\ \/ file' = [file EXCEPT ![f.shard] = f.previous] /\ UNCHANGED damaged
           \/ damaged' = damaged \union {f.shard} /\ UNCHANGED file
        /\ tx' = [tx EXCEPT !.staged = Front(@)]
        /\ UNCHANGED <<db, index, historyMu, boot, repaired, readers>>

\* Then the failure is latched, or ends the start of the server.  It is not
\* latched when the request was given up, nor when a run could not be completed
\* (completeFinalizedRun): that is tried again as a failed run, another EndRun.
FinishRestored ==
    /\ tx.pc = "restore" /\ tx.staged = <<>>
    /\ historyMu' = FALSE
    /\ boot' \in CASE boot = "up" -> {"up", "fault"} [] boot = "fault" -> {"fault"} [] OTHER -> {"down"}
    /\ tx' = NoTx
    /\ UNCHANGED <<db, index, file, repaired, readers, damaged>>

-----------------------------------------------------------------------------
(* Crash and start *)

\* The server stops at any point and starts again: what was not committed is
\* gone, the files are what they are.
HistoryRestart ==
    /\ tx' = NoTx
    /\ historyMu' = FALSE
    /\ boot' = "repair"
    /\ repaired' = {}
    /\ readers' = [r \in Readers |-> Reading]
    /\ damaged' = {}
    /\ UNCHANGED <<db, index, file>>

\* repairRunHistory: every shard that holds a run that has ended.
ToRepair == {ShardOf(r) : r \in db.ended} \ repaired

RepairShard ==
    /\ boot = "repair" /\ tx.pc = "none" /\ ToRepair # {}
    /\ Begin(db, {CHOOSE s \in ToRepair : TRUE})
    /\ UNCHANGED <<db, index, file, historyMu, boot, repaired, readers, damaged>>

\* recoverPersistedRuntime: the run that was running is interrupted.  (The run
\* that takes its place is StartRun({}).)
Recover ==
    /\ boot = "repair" /\ tx.pc = "none" /\ ToRepair = {}
    /\ boot' = "recover"
    /\ Begin([db EXCEPT !.ended = @ \union ({db.last} \ {0})], {db.last} \ db.ended)
    /\ UNCHANGED <<db, index, file, historyMu, repaired, readers, damaged>>

-----------------------------------------------------------------------------
(* serveRunHistory, ReadRun: three steps, the first two on the connection *)

Serving == boot \in {"up", "fault"}

ResolveRun(r, run) ==
    /\ Serving /\ Free /\ readers[r].pc = "idle" /\ run \in db.ended
    /\ readers' = [readers EXCEPT ![r] = [pc |-> "index", run |-> run]]
    /\ UNCHANGED <<db, index, file, tx, historyMu, boot, repaired, damaged>>

\* What is wrong is latched.
Alarm(r) ==
    /\ readers' = [readers EXCEPT ![r].pc = "alarm"]
    /\ boot' = "fault"

ResolveIndex(r) ==
    /\ Serving /\ Free /\ readers[r].pc = "index"
    /\ IF ShardOf(readers[r].run) \in index
       THEN readers' = [readers EXCEPT ![r].pc = "read"] /\ UNCHANGED boot
       ELSE Alarm(r)
    /\ UNCHANGED <<db, index, file, tx, historyMu, repaired, damaged>>

\* ReadFile under historyMu, then ValidBody.
ReadShard(r) ==
    /\ Serving /\ ~historyMu /\ readers[r].pc = "read"
    /\ IF readers[r].run \in file[ShardOf(readers[r].run)].runs
       THEN readers' = [readers EXCEPT ![r] = Reading] /\ UNCHANGED boot
       ELSE Alarm(r)
    /\ UNCHANGED <<db, index, file, tx, historyMu, repaired, damaged>>

-----------------------------------------------------------------------------
HistoryNext ==
    \/ \E E \in SUBSET Runs : StartRun(E)
    \/ EndRun
    \/ \E c \in Runs, o \in Runs \union {0} : LogOutcome(c, o)
    \/ LockHistory \/ WriteShard \/ WriteFails \/ Commit \/ CommitFails
    \/ FinishCommitted \/ RestoreShard \/ FinishRestored
    \/ HistoryRestart \/ RepairShard \/ Recover
    \/ \E r \in Readers : ResolveIndex(r) \/ ReadShard(r) \/ \E run \in Runs : ResolveRun(r, run)

HistorySpec == HistoryInit /\ [][HistoryNext]_historyVars

-----------------------------------------------------------------------------
(* Properties. *)

\* staging.go: whenever a reader may open a file of a server that is up, it is
\* exactly what is committed: every run of its shard that has ended, with the
\* outcomes of its events, whatever write or commit failed and wherever the
\* server stopped before.  Only a file that could not be put back may differ
\* until the next start.
ShardsMirrorTheRuns ==
    boot = "up" /\ ~historyMu =>
        \A s \in Shards \ damaged :
            Projection(db, s).runs # {} => s \in index /\ file[s] = Projection(db, s)

\* serveRunHistory latches a persistence fault, which stops every session, when
\* the index or the shard of an ended run is not there: a race with a writer
\* never does that, only a file that could not be put back.
ReadersRaiseNoFalseAlarm ==
    \A r \in Readers : readers[r].pc = "alarm" => ShardOf(readers[r].run) \in damaged

\* What a reader of history is shown is what was committed, and reading it does
\* no harm.
HistoryIsFaithful == ShardsMirrorTheRuns /\ ReadersRaiseNoFalseAlarm
=============================================================================
