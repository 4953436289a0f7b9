# Stock-Ai: a TLA+ model of the services

Stock-Ai lets language models trade simulated accounts. Four Go services and a
web frontend work together:

| part | directory | role |
|---|---|---|
| Agent Server | `src/agent_server` | Sessions (one agent per trading account), their Runs, Events and conversation |
| Backend | `src/backend` | accounts, orders, matching, drawdown control, market data, message board |
| LLM gateway | `src/llm_provider_server` | model catalogue and provider protocols |
| Middleware | `src/middleware` | login, sessions, reverse proxy |
| Frontend | `src/frontend` | user interface |

This directory models the parts whose correctness depends on interleaving,
failure or order, model-checks them on small instances with TLC, and proves the
central invariants with TLAPS for every value of the constants.

## Inventory

### Session, Run and Event lifecycle (`agent_server/internal/agent`, `events`)

*State.* SQLite tables `sessions`, `runs`, `events`, `event_log`,
`pending_triggers`; in memory `r.active` (one entry per Run goroutine),
`r.closed` and the latched `r.persistenceErr`. *Operations.* create, start, stop,
delete, manual retry and delete-Event handlers; the Event tools of a Run; the end
of a Run; the background rounds (timers and expiry, prices, positions, chat
mentions); fault, shutdown, crash and recovery. *Interaction.* All of them
take `AgentRuntime.mu` and one transaction; the Run goroutine works outside the
lock and comes back for each write. *Hard.* A late write of a stopped Run; a
trigger that arrives while a Run ends; a commit whose history stage fails; what a
crash leaves. *Right when* a running row always has somebody who ends it, a
stopped Session is quiet, triggers are delivered once and in order, terminal rows
stay as they are.

### Event samples (`agent/price_events.go`, `position_events.go`, `events/price.go`, `position.go`)

*State.* the baseline stored with an Event, the last samples a task remembers in memory.
*Operations.* the rounds of the price and the position task: look-up, sample over HTTP,
clock, claim. *Hard.* late answers, a restart that forgets the remembered samples, Events
that are deleted or expire in the middle of a round. *Right when* an Event fires on
evidence that is newer than all it has seen, true, and in time.

### Run loop and conversation (`agent/loop.go`, `conversation.go`, `model_context.go`)

*State.* messages, counters and budgets of the goroutine; the saved conversation
and the progress trace of the row. *Operations.* wake-up message, decision,
Generate with retries, tool calls, finalization, compaction, save and load.
*Hard.* A stop or crash between any two writes, an order whose outcome is not
known, budgets that share counters. *Right when* requests are well formed, every
order that may have been executed is remembered as such (unless the model's own summary
of the history leaves it out), and budgets hold.

### Event loop and server (`eventloop`, `server`)

*State.* registered events, scheduler state, wake channel, timer, workers; the
server's start and shutdown flags. *Hard.* lost wake-ups, overlapping callbacks,
names used again while an old worker is still out, stop against start, resources
closed before their users have left.

### Trading, accounts and risk control (`backend/internal/trading`, `account`)

*State.* account balance, status and `max_dd` fields; orders; positions; the
engine's snapshot of a Tick. *Operations.* place, cancel, close, set stops;
the Tick (risk sweep, limit fills, stops, clean-up); disable, resume, delete.
*Hard.* prices and marks are read outside the transaction that uses them, the
Tick works from a snapshot, one liquidation of several may fail.
*Right when* money is conserved, a stopped account only shrinks, orders end
once, and a stopped account is eventually flat.

### Market data (`backend/internal/market`)

*State.* one entry per symbol, cache and subscription at once; the streams;
the callers of `GetPrice`. *Operations.* `GetPrice`, publish, finish, sweep, `Close`.
*Hard.* a price request against the sweep, the failure or the `Close` that ends the
subscription it relies on. *Right when* whoever waits has a stream that will wake it.

### Message board (`backend/internal/message`, `frontend/.../messages/store.js`) and chat wake-up (`agent/chat_wake.go`, `message_tools.go`)

*State.* message rows, subscribers with bounded buffers, the page's cache; the two
cursors of a Session. *Hard.* publication after the commit and outside a lock, a
subscriber that is dropped, a page that reads while it is pushed; tags read over HTTP
and claimed later, the cursor's message deleted. *Right when* a page that has caught up
shows the board, and a tag that woke the Session and was delivered does not wake it again.

### History shards (`agent_server/internal/history`, `agent/history.go`)

*State.* the index rows, the shard files, the stage of a transaction. *Hard.* files are
written before the commit; a crash, a failed commit or restore; readers that resolve
first and open later. *Right when* an open shard is what is committed.

### LLM gateway and web harness (`llm_provider_server/internal/gateway`, `webharness`)

*State.* providers, tokens, model catalogue (table and memory), requests and replies;
Claude Code sessions (directory, transcript, gate, users); Codex processes, threads and
turns. *Hard.* administrators against requests in flight; a CLI that fails after it has
recorded the prompt; sessions replaced, retired or collected under waiters; a process
that dies, does not shake hands, says too much or stops reading; shutdown waiting for all
of it. *Right when* a token
goes only where it is configured, an answer belongs to its request, and nothing is left
behind.

### Middleware (`middleware/internal/gateway`)

*State.* login attempts and sessions with expiry, in memory; cookies of the browsers.
*Hard.* callbacks, logouts and proxied requests of several browsers in any order, with
cookies that are older than the server's tables. *Right when* a login is used once, by
the browser that started it, and a credential needs a session that is still there.

The remaining parts (tool schemas, memories, monitoring, API routing,
configuration, logging, frontend, deployment) are formatting, validation or
I/O around these and are listed in `PROJECT.json` with the reason they are left
out.

## Modules and the code

`PROJECT.json` maps every definition to its lines. In each module the tables are
variables, one action is one handler or one transaction, and a handler that reads
outside its transaction is split exactly there.

### `AgentRuntime` (with `TriggerQueue`)

Sessions, Runs, Events, the event log and the queue of triggers. `active`,
`canceled` and `phase` are the goroutines of `r.active`; `up`, `closed` and `fault`
the process. `CreateSession`, `StartSession`, `StopSession`, `DeleteSession`,
`RetryRun` and `DeleteEventByUser` are the API handlers; `CreateEventForRun` and
`DeleteEventForRun` the tools of a Run; `RunBrief`, `RunComplete`, `RunFail` and
`RunFinish` the writes of the goroutine, `RunFinish` being the deferred
`finishActive` with its dispatch of the next batch. `EventRound` and `ChatWake`
are the background rounds: they expire and fire Events, admit what arrived and
start Runs in one transaction; `finished = FALSE` is the round that committed and
failed afterwards, which latches the persistence fault. `LatchFault`, `Quiesce`,
`Exit`, `Crash` and `Boot` are the failure of a write, the shutdown, and recovery.
Prices, positions and messages are abstract: any set of Events may fire.

`TriggerQueue` says what the queue promises: a stream of triggers, a prefix of it
delivered, no delivery while closed. `AgentRuntime` implements it with
`stream <- delivered \o pending`.

### `RunLoop` (with `Conversation`)

`Conversation` holds the pure operators: messages (tool calls and their results,
wake-ups, rejected answers, history), `CompleteToolResults`,
`SemanticConversation`, `CompactConversation`. A message is a small record; texts
are cut to what decides (which error, which outcome, long or short).
`RunLoop` is `runAgent`: `Brief`, `Top` (budgets and entry into finalization),
`Compact` and `Summarize` (below), `Attempt` (the counter is written before the request),
`GenerateError`, `InvalidAnswer`, `FinalAnswer`, `ToolCalls`, `ReserveTool`,
`ToolReturns`, `SaveToolResult`, `ToolOverBudget`, `ToolsDone`, and the end.
`Stop` and `Crash` may fall between any two of them; `StartRun` begins the next
Run with what was saved. `effects`, `sent`, `summaries` and `dropped` record what really
happened at the backend and the Gateway and what summaries left out; no action reads them.

Compaction has two stages. The rules (`Compact`) fold messages into at most two blocks and
keep a line for every mutation that may have happened. Then each block that is still at
least 20% of the window is sent to the Gateway by a request of its own
(`summarizeHistory`, action `Summarize`): it fails, its answer is refused, or what the
model wrote takes the block's place and names the calls it likes. So a call of `callModel`
may send two requests more than its attempts. `spec.md` 3634 says that they are not
counted in `model_call_count`: `BudgetsHold` bounds them apart (`summaries`), and
`RecordsCoverTheWork` speaks of the requests for an answer. Nothing in the code keeps a
mutation in such a summary; what one leaves out is collected in `dropped`, and
`VerbatimRemembers` promises the rest.

### `EventLoop` and `AgentServer`

`EventLoop` has the mutex-protected state (`events`, objects, state), the buffered
wake channel of one token, the signals that were promised under the lock and are
sent after it, the scheduler's program counter between its look at the events
and its `select`, and the workers. Objects and names are apart, since a name may
be registered again while the old worker is out. `AgentServer` EXTENDS it and
composes it with `NewServer` (and its roll-back), `Start`, requests, `Shutdown`
and the closing of resources in order. `net/http` is external: a listener that
accepts until it is closed, a shutdown that waits for requests.

### `Trading`

One account. Its rows: status, balance, baseline, `max_dd_stopped_at`, positions,
limit orders. A call (`BeginLimit`, `BeginMarket`, `BeginClose`, `BeginStops`)
reads prices and, for the drawdown check, marks (`ReadMarks`) before its
transaction (`CommitLimit`, `CommitMarket`, `CommitClose`, `CommitStops`), or
ends early (`Abort`); in between everything may move. The matching engine's Tick
is `TickLoad`, `TickPrices`, `Sweep`, `ListPositions`, `Liquidate`, `FillOpenOrder`,
`RejectOpenOrder`, `FillHalts`, `CloseStop`, `CleanUp` and their failures, each one
transaction or one read; it also runs for an account with a limit that has nothing open. `UpdateStatus`, `ResumeTrading` and `Delete` are the
administrator; `Restart` loses calls and the Tick and keeps the rows. `ApplyFill`,
`Settle`, `Refused`, `Precheck` and `PostCheck` are the arithmetic, shared by
callers and the engine as in the code.

Abstracted: the first reads of a Tick are one action (whatever uses them looks again
inside its transaction); orders, stops and liquidations of a Tick are taken in any
order, which includes the code's order of `created_at`; the tolerances 1e-9 and
1e-8 and rounding are left out, since quantities are integer lots and the instances
are chosen so that every division is exact; ledger and trade rows and the Run an
order is attributed to are written and never read by these operations. `cash`
records what was paid and received; no action reads it.

### `ClaudeSessions`, `CodexAppServer` and `HarnessGateway`

`ClaudeSessions` has one action per critical section of `cs.mu`: `Look`, `TakeGate`,
`GiveUp`, `Stale`, `Decide`, `ReserveReplacement`, `CLISucceeds` and `CLIFails`, `Retire`,
`Release`, `CleanUp`, and the collector, the release of a conversation and `RemoveAll`.
The CLI is external. `told` is the transcript it really keeps, which no action of the
server reads; it is compared with the request it answers.
`CodexAppServer` is `acquire` (with eviction and handshake, `c.mu` held throughout),
thread, turn, `collect`, `release` and `Close`; the app-server answers, says, dies or is
silent as it likes. A line of its output that is too long makes the server stop it under its users
(`AppServerOverflows`, the only thing that does), and it may stop reading its input
(`AppServerStopsReading`), after which whatever is written to it blocks until it is gone. `HarnessGateway` EXTENDS both and composes them with `trackRequests`,
`releaseClaudeSession` and `Close`.

### `LLMGateway`

Rows of providers and tokens (a token is its place in the order of `created_at` and id, at
most `MaxTokens` at a time), the catalogue in memory and in its table, administrators'
handlers in as many actions as they have transactions, and Generate requests from
`resolveProviderRequestSnapshot` to the last line of the reply, with the goroutine that
pings. `Restart` keeps the tables and may bring another environment. `meant` (the edits
that were saved) and `had` (a provider row has had a token) only record.

### `MarketRuntime`

Each action is a critical section of `r.mu`: the two ways a round of `GetPrice` ends,
`Publish`, `FinishStream`, `Sweep`, `Close`. Time is two flags per entry: the price is
fresh, the symbol was asked for lately. The source of prices is external.

### `RunHistory`

A transaction is `Begin` (the new contents of the database and the shards it touches),
`LockHistory`, `WriteShard` per file, `Commit` or one of the failures, and `Finish`, with
the files put back one by one. `StartRun`, `EndRun` and `LogOutcome` are the writers,
`RepairShard` and `Recover` the start, `HistoryRestart` a crash at any point.
Readers take three steps as in `serveRunHistory`. A shard file is abstracted to the
Runs and the Event outcomes it lists.

### `MessageBoard`, `MessageStreams` and `ChatWake`

`MessageBoard` has the rows; a message is its place in the order of `created_at`, and
with `MaxOpen` above one (postgres) commits may come out of that order.
`MessageStreams` EXTENDS it with `publish`, the subscription of the page and the cache
of `store.js` (load, resync, reload, epochs, removed messages); `excused` records why a
message may be missed and is read by no action. `ChatWake` EXTENDS it
with the Session's two cursors, the inbox of a Run (read, cursor saved, message saved:
three steps) and `ChatWakeTask` (read, claim: two steps).

### `LoginSessions`

A request carries the cookies its browser had when it was sent and its answer sets
cookies when it arrives; in between every other request may be handled. `TakeAttempt`,
`Exchange`, `Verify`, `MakeSession` are the callback. Cookies are signed, so a browser has
only cookies the server set. Time is ticks; the identity provider is external.

### `EventSamples`

A price is a time at which it was quoted; a sample is that time, and the Backend may
answer with an old one. Prices are below, at or above the level of the Events. A round
takes four steps (`WatchPrices`, `SamplePrice`, `ReadClock`, `ClaimPrices`, and the same
for positions), the two tasks interleave, and `EventsRestart` may come between any two.
The clocks of the two servers are taken to agree: the code accepts a sample dated up to
30 seconds ahead, with which `fired_at` would be earlier than the sample.

### Instances

`MCAgentRuntime`, `MCRunLoop`, `MCAgentServer`, `MCTrading`, `MCHarnessGateway`,
`MCLLMGateway` and `MCMessageStreams` give the constants their values. `MCAgentServer` has behaviours in which
a Server owns the event loop and others in which callers use the loop as they like.
`MCServices` puts six services without common state side by side: the first state chooses
which of them runs.

## Runs

| run | config | states | shows |
|---|---|---|---|
| `lifecycle` | `AgentRuntime` | 616k | a running row is driven, no trigger is stranded, a stopped Session is quiet, retry chains are unbroken and bounded, an Event has one outcome and is delivered at most once; terminal rows and saved restart facts are written once (`RecordsAreWriteOnce`); the queue implements `TriggerQueue`; triggers are served and a stopped Session can be started again (`SessionsMakeProgress`) |
| `restart_facts` | `AgentRuntime_restart` | | *violated*: see below |
| `run_loop` | `RunLoop` | 499k | budgets hold, for summaries too; counters and trace cover what was sent and executed (`RecordsCoverTheWork`); a verbatim Session remembers every call that may have been executed and that no summary of the model left out; requests pair calls and results whatever was cut; every Run ends |
| `fold_loses_order` | `RunLoop_fold` | | *violated* |
| `settled` | `RunLoop_settled` | | *violated* |
| `server` | `AgentServer` | 262k | `LoopIsSound`: no lost wake-up, no overlapping callbacks, exact counts, undone registrations stay reachable, a stopped loop is quiet; `ServerIsSound`: resources outlive requests and callbacks, a failed construction leaves no task; stops complete and due events are dispatched; shutdown completes, also the one a failed listener begins |
| `trading` | `Trading` | 785k | money is conserved (`AccountIsSound`), a stop cancels all orders, deletion leaves nothing, orders end once, closes hit what they were aimed at, orders, limit and market, that are filled respect the drawdown floor (closes are not checked by the code until the next Tick) and a stopped account only shrinks (`FloorIsEnforced`) and is flat in the end |
| `harness` | `HarnessGateway` | 548k | one CLI per directory, and no directory lost or removed under a user; answers are given to the messages of their request; no process or directory is left behind and none is stopped under its users but for its own output; a shutdown ends unless an app-server holds a request for ever |
| `llm_gateway` | `LLMGateway` | 464k | a token is sent only to the endpoint it is configured for; no token outlives its provider; saved catalogue edits are kept; a reply has exactly one last line and nothing after it |
| `services` | `Services` | 1.08M | waiters have a stream and `Close` releases everyone; shards mirror the committed Runs and readers raise no false alarm (`HistoryIsFaithful`); a page that has caught up misses nothing; a tag that woke the Session and was told does not wake it again; logins are one-shot and credentials need a session; Events fire on samples that are new, true and in time |
| `chat_tags` | `ChatWake_tags` | | *violated* |
| `reconnects` | `MessageStreams_reconnect` | | *violated* |

Properties that belong together are one definition, a conjunction of named parts each
with its own comment, and have a mutant for each part that can be broken alone.

Five runs show where the code and the repository's own words part:

* `restart_facts`. `spec.md` 2806-2813 promises that what a stop cleared reaches
  the next `session_restart` Run. `changeSessionState` overwrites `restart_context`
  when the Session is running, also when that Run was stopped, failed or was cut
  before it had saved its initial context: start, stop, start, stop loses them.
* `fold_loses_order`. `semanticConversation` folds a failed mutation into the
  previous one when tool, code and message agree; `failureKey` does not compare the
  outcome, so an order with outcome *unknown* can disappear behind one that was *not
  executed*. `spec.md` 3695 says mutation results stay whole. (A verbatim Session
  has no such fold, and the property holds there.)
* `settled`. The comment at `conversation.go:201` says `semanticConversation` is
  idempotent; keys are compared before the text is cut to 300 runes on the first
  pass and after it on the second.
* `chat_tags`. `message_tools.go:157` says each tag is delivered once. When the message
  the cursor names was deleted, `fetchAfter` starts without a cursor and tags newer than
  the previous Run's start are delivered again.
* `reconnects`. The comment of `connect` (`store.js:92`) and `backend/SPEC.md` 846 say that
  each reconnection reads the cached range again and adds what was posted meanwhile.
  `resync` replaces the whole cache by what it read from the message that was the oldest when it
  was called, and only a clear makes it give up. A page shows 1 and is away while 2 and 3
  are posted; it reconnects, its resync from 1 is answered with 2 and 3, event 3 is
  pushed, 1 is deleted, the connection is lost again and the next resync starts from 3.
  The first answer is applied (2 and 3), then the second one (3), and 2 is gone with
  nothing under way. The inductive invariant of `PagesMissNothing` could not be
  completed until this case was excused (`overtaken`); three messages and three connections
  are needed, more than the run `services` has.

### Bounds

* `AgentRuntime`: one Session (Sessions share only the process), three Runs, two
  Events and mentions, batches of two, two active Events, two manual retries: a full
  batch, a remainder, an Event limit and a retry chain of three all happen.
* `RunLoop`: two Runs (one writes the conversation, the next reads it), verbatim and
  semantic, three calls with ids of their own, up to two per response, odd ones mutating;
  two decisions or one tool end the budget, whichever comes first; retries are taken once.
* `AgentServer`: two event objects of one name or two (two are needed for a name used
  again behind an old worker), counts 1 and forever, two starts; two tasks, or a list with
  a repeated name that must be rolled back; two resources, one request.
* `Trading`: prices 16 and 32 with levels at 24, two lots, two orders, fees in
  sixteenths, so that every margin, fee and average is an integer. With a loss limit
  of 12 of 64 a single move of the price stops the account, and so does a fill at a
  bad price, which the check after a fill must see. Futures and spot, one restart.
  One client and the engine are two actors with every interleaving of their reads
  and transactions; the administrator acts at any time.
* `HarnessGateway`: two callers of one conversation that grows, is continued or is told
  differently, two session objects at a time; two clients over two processes of one
  credential, a tool call per turn. The two harnesses share no state, so a behaviour has
  requests for one.
* `LLMGateway`: one provider id (it can be deleted and created again), two tokens, URLs,
  secrets and administrators, one model, one request: a request and two administrators are
  the actors that race. URLs, secrets and administrators are symmetric; tokens are not, as
  their order decides which is used.
* `Services`: two symbols and callers; three Runs in shards of two with two Event outcomes;
  two messages that commit out of order, two connections and a buffer of one; three Runs
  of the Session that is woken; two browsers, two handlers, two logins that live one tick; one Event,
  three ticks and samples up to two ticks old, enough for a baseline, a newer sample, a
  restart and a late one. Constraints cut off pages of which nothing is claimed and
  behaviours that differ by the names of browsers or slots only (`MCServices`). What needs
  more messages or connections is covered by `PagesAreComplete`, proved for any number.
* `MCMessageStreams`: three messages and three connections, so that a resync overtakes
  another; behaviours with a gap, of which nothing is claimed, are cut off.

`CHECK_DEADLOCK FALSE`: the systems may really stop (the process stays down, the
loop is not started again, the account is deleted), and identifiers are bounded.

### Fairness

* `AgentRuntime`: weak fairness of a goroutine's own writes. Requests have timeouts,
  budgets bound the loop (which `RunEnds` shows of `RunLoop`), `finishActive` is
  deferred. Nothing is assumed of users, the background or the process, which may
  crash at any time.
* `RunLoop`: weak fairness of the goroutine, not of any answer: the model may err or
  answer badly for ever.
* `EventLoop` and `AgentServer`: the scheduler and promised signals run, time passes, callbacks return
  (they watch their context). The hourly fallback timer is not fair: due events do not
  need it. Requests end and the Server's goroutines run.
* `Trading`: the Tick keeps going; strong fairness of a Tick that gets all prices and
  of a liquidation that succeeds, since each is tried again in every Tick and fails
  only by chance (network, database). Restarts are finite. Callers and the market
  are unconstrained.
* `HarnessGateway`: goroutines run and a process that was told to stop exits. Of the CLIs
  nothing is assumed: `providerTimeout` ends a wait for an answer (that a wait for a gate
  ends is not put down to it). But `codexProcess.write` has no deadline and no context: a
  request whose app-server runs and does not read is blocked in it, so the fairness asks no
  step of such a request (`Heard`), and `ShutdownEnds` is claimed of the behaviours in which
  no app-server holds a request for ever (`Holds`). In the others `Close`, which stops the
  pool only after the requests, waits for ever; the comment at `codex_app_server.go:65`
  (each step "must answer within the idle timeout") does not think of the write.
* `MarketRuntime`: callers and `Close` run, and a canceled source returns, which its
  interface demands. The other services are checked for safety only.

## Proofs

Eight modules hold the proofs. Each theorem holds for every value of the constants that
satisfies the module's named `ASSUME`; the assumptions say only that the bounds are
numbers, that a set of ids is finite where rows are counted, that marker values differ
from real ones, and that a conversation is a sequence with at least one message. The shape is the same everywhere: an inductive invariant, checked by TLC
before it was proved; small lemmas on what a helper or an action does to the state; one
step per action; PTL at the end.

`AgentRuntimeProofs` (any Sessions, any finite set of Events, any limits):

* `TypeCorrect`: `Spec => []TypeOK`.
* `LifecycleInvariant`: `RunningRunIsDriven`, `StoppedSessionIsQuiet` and
  `NoStrandedTrigger` do not survive a step by themselves. The inductive invariant
  `Lifecycle` adds to the types that a goroutine's Run is the Session's current one
  and that no row lies beyond `current_run_id`, and takes the three together, since
  each needs the others. `RunsAreDriven`, `StoppedSessionsAreQuiet` and
  `TriggersAreNotStranded` follow.
* `RetriesAreContiguous` from `RowsInv`: a row that is not used is blank (an insertion
  finds no old fields), and a retry stands on an unbroken line of failed Runs (what a retry
  of a retry extends).
* `RecordsStay`, an action property, from the two invariants above.
* `TriggersAreOneShot` from `OneShot`: the log names an Event once, every fired Event is in
  at most one of the places of `Layout` (the queues and the Runs' batches), and only fired
  ones are there. `EventsAreOneShot` speaks of places (`Place`), not of the
  concatenated stream, so no induction over the Runs is needed.
* `QueueIsImplemented`: `Spec => TriggerQueueSpec`, the refinement of `TriggerQueue` under
  `stream <- delivered \o pending`. `Delivered` is a recursive function over the Runs; what it
  returns (it depends only on the batches, it grows by the batch of the newest Run) is
  proved by the least Run id at which a claim would fail (`LeastElement`), since the library's
  induction theorems cannot be used. Each action is then a step of the queue or a
  stutter.

`RunLoopProofs` (any limits, Runs and calls):

* `BudgetsAreKept`. A bound on the requests of a Run is not inductive. `Paid` says who
  pays for them: d decisions grant d times the attempts of one, the latest one only what
  its attempts have used while the model is asked, and terminal attempts pay for the rest.
  `SummaryInv` does the same for the summaries: every call of `callModel` that has begun
  pays for two, those of the blocks not yet looked at included (`BlocksAre`: at most two).
* `RecordsAreComplete`. `CountInv` ties the row's counters to the goroutine's; `QueueInv`
  says that the calls still to be handled are the latest ids and that only the first may
  have taken effect, which is why "not executed" is never written over a call that was.
  Summary requests are not counted by the code, and not claimed to be.
* `RequestsArePaired` and `VerbatimIsRemembered` need to know what the operators of
  `Conversation` compute of any conversation. `IsWellFormed` is no use for that, since what
  a cut Run has stored is not well formed. `Sound` is: a result answers a call that waits
  for one, and nothing else comes before all have been answered (`Open`, `Pending`).
  `completeToolResults` answers what is pending, in place (`Completed`), `semanticConversation`
  and `compactConversation` leave a sound conversation sound with the same calls pending
  (`Semantic`, `Compacted`), and a sound one with nothing pending is well formed
  (`SoundIsWellFormed`, a count of distinct results). Of what is remembered, completion adds
  the pending mutations and the rules of compaction lose nothing; a summary loses at most what
  it puts into `dropped` (`Summarized`). These are statements about folds
  and a loop, proved like those about `Delivered`: by the first position at which one would
  fail (`LeastFailure`). The inductive invariant is `TalkInv`: what is stored is sound
  (`StoredInv`), what the goroutine holds is sound and waits for just the calls in its
  queue (`HeldInv`), and a result about to be recorded does not deny an effect (`ResultInv`);
  `BlocksInv` adds that the blocks a summary may replace are folded messages, never a call or a
  result.
  Of the semantic mode no theorem says what is remembered: the run `fold_loses_order` shows
  an order that is lost.

`AgentServerProofs` (any names, counts, callers, tasks, resources):

* `LoopSound` from `LoopInv`: names and objects lead to each other, an object that is not
  registered is blank, `active` is `running`, counts add up, and only a stopping loop is drained.
* `ServerRunsTheLoop`: `ServerSpec => Spec`, step by step: the server uses its loop only
  as callers may. Hence everything of the loop holds under the server.
* `ServerSound` from `ServerInv`, which adds the order of a shutdown (listener, requests,
  loop, resources) and whose the tasks of an unfinished server are.

`TradingProofs` (any clients, instruments, orders, prices and fees):

* `AccountInvariant`: `QuietInv` (a stopped or deleted account has no open order, a
  deleted one no position) and `FreshInv` (an order id that was drawn belongs to one
  call and is not in the table until that call writes it). The second is needed
  because an id is drawn before the transaction, and a call that came back late could
  otherwise write over an order that has ended.
* `StopsAreComplete`, `DeletionsAreComplete` and the action property `EndedOrdersStay`.
* `RowsAreSound`: `TypeOK`, which includes that no two positions share an id. `PosIds` says
  that a position's id is one of an order that was placed and has ended, and that no call
  still holds it.
* `FloorHolds` and `ClosesHitTheirAim`, action properties, from the types and
  `AccountInvariant`. `FloorHolds` is about orders: a fill by the Tick (`FillOpenOrder`) or by
  the caller (`CommitMarket`, lemma `FilledAtTheMarket`) that reaches the floor stops the account.
  A close has no such check in the code.

`LLMGatewayProofs` (any providers, tokens, models, administrators and requests, replies of
any length): `GatewayInvariant` is `LLMInv`, of three parts. `RowsInv` (an administrator's
request has what its next transaction needs; a provider with a token has had one) gives
`TokensStayOwned` and, as an action property, `CredentialsStayConfigured`. `CatalogInv`
(the holder of `catalogMu` works on what the saved edits amount to) gives
`CatalogEditsStay`. `RepliesInv` (no last line before the handler returns, nobody pings
after it) gives `RepliesEndOnce`.

`HarnessProofs` (any callers, keys, clients, credentials and sets of conversations, any bounds;
the CLI and the app-server do as they like): `HarnessInv` is `ClaudeInv`, `CodexInv` and
`CloseInv`.

* `DirectoriesAlwaysFollow`. That one caller works in a directory is not inductive: `ClaudeInv`
  says who is counted by `active` (`UsersAreCounted`), that the token of a gate is in it or with
  one caller (`GatesAreHeld`), that what is being removed is unused, out of the map
  and removed by one (`RemovalsAreFinal`), and that everything else can be found
  (`LiveIsReachable`).
* `AnswersStayInContext` needs `TranscriptsAreKept`: what the CLI was told is what the session
  says was delivered, except in a session that is about to be retired, and a call that
  resumes has seen that the conversation continues it.
* `NothingIsEverLeftBehind` from `CodexInv` (users are counted; a process in use that was
  stopped has failed; `c.mu` is held by the one
  client whose process starts, and that process is not in the pool) and `CloseInv`, which
  says what each phase of `Close` has already emptied.

`LoginSessionsProofs` (any browsers, handlers, logins and life times): `LoginsOnce` from
`AttemptsInv` (an attempt is in the table, with one handler, or exchanged) and
`CredentialsAreEarned` from `OwnershipInv` (every cookie and id under way belongs to
a login its browser started) and `SessionsInv`.

`ServicesProofs`:

* `WaitersAreServed` (any symbols and callers): `WaitersHaveAStream` with types is inductive.
* `EventsFireOnEvidence` (any Events, any number of quotes): `SamplesInv` adds that what a
  round has read lies in the past, that an Event observed a position only if it was open,
  and that unused ids have no history.
* `TagsWakeOnce` (any messages, page size and Runs): `CursorCoversTheTold` says that the
  delivered cursor is at or after everything that was told and is still there, and that an
  inbox between its read and its write will not move it back; `WokenAreOld` that tags that
  woke the Session are not younger than its latest Run. The first needs that even a page of one
  message that was read without a cursor contains the newest message (`PagesReachTheTold`).
* `HistoryStaysFaithful` (any number of Runs, shards of any size, any readers) from `FilesInv`
  (a transaction that may still fail holds in `staged` what every shard was, one that has
  committed has written it) and `StagingInv` (each shard is written once, with what
  will be committed, and the others are untouched).
* `PagesAreComplete` (any number of messages, connections and reads, any buffer):
  `PagesMissNothing` speaks of pages with nothing under way; `FlowInv` says what holds on
  the way there. `Complete` is the heart: a visible message the page was not told of is
  newer than all it was told of, the page and the channel have no gap below a message they
  have, and while the subscription lasts the message is on the page, in the channel or
  still to be published. `ReadsInv` claims it of the page, or of the page with the answer
  that is under way; `OrderInv` and `ClearsInv` say that events wait in the order of
  `created_at` and that no clearing waits behind a message that survived it; `KnownInv`
  that nobody knows a message before its commit.

Only model-checked:

* liveness: `SessionsMakeProgress`, `RunEnds`, `LoopMakesProgress`, `ShutdownCompletes`,
  `StoppedIsLiquidated`, `ShutdownEnds`, `CloseReleasesEveryone`. Fairness is beyond the prover;
* `MoneyIsConserved`, the other half of `AccountIsSound`: a sum over positions, and true only
  with prices whose averages are whole.

## Not modelled

* Memories and skills: single transactions with validation under one lock.
* The provider protocols, the venue client, tool schemas, monitoring, routing,
  configuration, logging, the rest of the frontend and the deployment: validation,
  formatting or I/O.
* Of the modelled parts, what `PROJECT.json` names in each component's note: permissions
  and mutes of the board, the cursor of the `message_read` tool, route tables of the
  middleware, command lines and output of the CLIs.

Some gaps of the code are modelled and excused rather than checked. Two were named above: a
summary that leaves out a call, and an app-server that does not read. Another: a
tag that a Run was told of while it worked may wake the Session once more, since without the
delivered message in what the poll has read (it is younger, or was deleted) every tag since
the latest Run's start counts as new (`chat_wake.go:109`); `ToldTagsWakeOnce` is about the
second time. Nothing in the repository promises more of the following either (the ghost
`excused` holds `gap` for the last two): a mention whose cursor was saved and whose message was not
(`message_tools.go:188`), posts that commit or are published out of order
(`message.go:82`), and a resync of the page that fails (`store.js:128`). A message that
was deleted while a page was away may stay on that page; `PagesMissNothing` only speaks of
messages that are there. A Codex thread drops events when its channel, of 256 in the
code, is full (`codex_app_server.go:377`); `AppServerSays` models the drop, and no property
says that an answer has every tool call.

## Plan

1. Done: the lifecycle, the Run loop and conversation, the event loop and server, trading,
   market data, history shards, message board and streams, chat wake-up, LLM gateway, web
   harness, login sessions and Event samples, each with its proofs.
2. Left: `EventSamples` with two Events, one of them created in the middle of a round, and
   the components listed under "Not modelled".
