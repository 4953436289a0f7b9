------------------------------ MODULE RunLoop ------------------------------
(***************************************************************************)
(* One Session's Run goroutine: runAgent and callModel of                  *)
(* agent_server/internal/agent/loop.go, with the conversation it saves and *)
(* the progress trace it persists.  The model, the Gateway and the Backend *)
(* answer as they like.  A stop may come between any two writes of the     *)
(* goroutine (every write is conditional on the row still being running)   *)
(* and a crash loses everything but the database.                          *)
(*                                                                         *)
(* How Runs are started, stopped and recovered is AgentRuntime's subject;  *)
(* here a new Run may start as soon as no goroutine is left.               *)
(***************************************************************************)
EXTENDS Conversation

CONSTANTS MaxRuns,                 \* bound on the number of Runs
          MaxLoop,                 \* session.MaxLoop
          MaxToolCall,             \* session.MaxToolCall
          MaxModelGenerateRetries, \* maxModelGenerateRetries
          MaxFinalizationRetries,  \* maxFinalizationRetries
          MaxCalls,                \* bound on tool calls over all Runs
          MaxCallsPerResponse      \* bound on tool calls of one response

CallIds == 1..MaxCalls

ASSUME RunLoopAssumption ==
    /\ MaxLoop \in Nat \ {0} /\ MaxToolCall \in Nat \ {0}
    /\ MaxModelGenerateRetries \in Nat /\ MaxFinalizationRetries \in Nat
    /\ MaxRuns \in Nat /\ MaxCalls \in Nat /\ MaxCallsPerResponse \in Nat
    /\ Mutations \subseteq CallIds

VARIABLES
    verbatim,   \* session.ConversationMode = "verbatim", else "semantic"
    run,        \* Runs started so far
    row,        \* runs.status of the latest one
    modelCount, \* runs.model_call_count
    toolCount,  \* runs.tool_call_count
    trace,      \* outcome that progress_json has for each tool call
    conv,       \* session_conversations.messages_json
    pc,         \* where the goroutine is ("gone": it has returned)
    messages,   \* its messages[1:]
    decisions, modelCalls, toolCalls, finalizing, finalAttempts,
    attempt,    \* of callModel
    blocks,     \* what compaction wrote and has not looked at yet
    queue,      \* tool calls of the response not yet handled
    pendingResult, \* result of the executed tool, not yet in messages
    fresh,      \* tool call ids used so far
    sent,       \* Generate requests this Run has really sent for an answer
    summaries,  \* and those it has sent to have its history summarized
    effects,    \* calls that may have taken effect
    dropped     \* calls of which the model's summary of a history says nothing

dbVars   == <<verbatim, run, row, modelCount, toolCount, trace, conv>>
countVars == <<decisions, modelCalls, toolCalls, finalizing, finalAttempts>>
worldVars == <<fresh, sent, summaries, effects, dropped>>
vars == <<dbVars, countVars, worldVars, pc, messages, attempt, blocks, queue, pendingResult>>

NoResult == [kind |-> "none"]

\* Fresh goroutine-local variables.
Reset ==
    /\ decisions' = 0 /\ modelCalls' = 0 /\ toolCalls' = 0
    /\ finalizing' = FALSE /\ finalAttempts' = 0
    /\ attempt' = 0 /\ queue' = <<>> /\ messages' = <<>> /\ pendingResult' = NoResult
    /\ blocks' = <<>>

Init ==
    /\ verbatim \in BOOLEAN
    /\ run = 0 /\ row = "none" /\ modelCount = 0 /\ toolCount = 0
    /\ trace = [c \in CallIds |-> "none"]
    /\ conv = <<>> /\ pc = "gone" /\ messages = <<>>
    /\ decisions = 0 /\ modelCalls = 0 /\ toolCalls = 0
    /\ finalizing = FALSE /\ finalAttempts = 0 /\ attempt = 0
    /\ blocks = <<>> /\ queue = <<>> /\ pendingResult = NoResult
    /\ fresh = 0 /\ sent = 0 /\ summaries = 0 /\ effects = {} /\ dropped = {}

-----------------------------------------------------------------------------
(* Around the goroutine. *)

StartRun ==
    /\ pc = "gone" /\ row # "running"
    /\ run < MaxRuns
    /\ run' = run + 1 /\ row' = "running"
    /\ modelCount' = 0 /\ toolCount' = 0 /\ sent' = 0 /\ summaries' = 0
    /\ pc' = "brief"
    /\ Reset
    /\ UNCHANGED <<verbatim, trace, conv, fresh, effects, dropped>>

\* Stop, delete or shutdown: the row is interrupted, the context canceled.
Stop ==
    /\ row = "running"
    /\ row' = "interrupted"
    /\ UNCHANGED <<verbatim, run, modelCount, toolCount, trace, conv, countVars, worldVars,
                   pc, messages, attempt, blocks, queue, pendingResult>>

\* The process dies; recovery marks the row at the next start.
Crash ==
    /\ pc # "gone"
    /\ row' = IF row = "running" THEN "interrupted" ELSE row
    /\ pc' = "gone"
    /\ Reset
    /\ UNCHANGED <<verbatim, run, modelCount, toolCount, trace, conv, worldVars>>

\* The next check or conditional write notices the stop.
Leave ==
    /\ pc \notin {"gone", "executing"}
    /\ row # "running"
    /\ pc' = "gone"
    /\ Reset
    /\ UNCHANGED <<dbVars, worldVars>>

-----------------------------------------------------------------------------
(* Pieces of runAgent.  Working is the guard of every write. *)

Working(at) == pc = at /\ row = "running"

\* saveConversation: the form in which the conversation is stored.
Stored(q) == IF verbatim THEN q ELSE SemanticConversation(q)

EndAs(status) ==
    /\ row' = status /\ pc' = "gone"
    /\ Reset

\* Mutant: the stored conversation is used as it is.
LoadUncompleted == conv

\* loadConversation.
LoadConversation == CompleteToolResults(conv)

\* The Run continues the conversation with its wake-up message.
Brief ==
    /\ Working("brief")
    /\ messages' = Append(LoadConversation, Wake)
    /\ conv' = Stored(messages')
    /\ pc' = "top"
    /\ UNCHANGED <<verbatim, run, row, modelCount, toolCount, trace, countVars, worldVars,
                   attempt, blocks, queue, pendingResult>>

\* A persistence error, a panic, or any failure before the loop.
Fails ==
    /\ row = "running" /\ pc \in {"brief", "top", "call", "compacted", "tool", "record"}
    /\ EndAs("failed")
    /\ UNCHANGED <<verbatim, run, modelCount, toolCount, trace, conv, worldVars>>

OverBudget == decisions >= MaxLoop \/ toolCalls >= MaxToolCall

\* Attempts callModel may make.
AttemptLimit ==
    IF finalizing THEN MaxFinalizationRetries + 1 - finalAttempts
                  ELSE MaxModelGenerateRetries + 1

\* Top of the loop: enter finalization when a budget is spent, else deliver
\* new mentions, then take a decision.
Top ==
    /\ Working("top")
    /\ \/ /\ ~finalizing /\ OverBudget
          /\ finalizing' = TRUE
          /\ messages' = Append(messages, Instruction)
          /\ UNCHANGED <<decisions, conv>>
       \/ /\ finalizing
          /\ UNCHANGED <<finalizing, decisions, messages, conv>>
       \/ /\ ~finalizing /\ ~OverBudget
          /\ decisions' = decisions + 1
          /\ \/ UNCHANGED <<messages, conv>>
             \/ /\ decisions > 0
                /\ messages' = Append(messages, ChatMention)
                /\ conv' = Stored(messages')
          /\ UNCHANGED finalizing
    /\ attempt' = 0
    /\ pc' = "call"
    /\ UNCHANGED <<verbatim, run, row, modelCount, toolCount, trace, modelCalls, toolCalls,
                   finalAttempts, worldVars, blocks, queue, pendingResult>>

\* compactContext, before the first attempt of a call: the rules.
Compact ==
    /\ Working("call") /\ attempt = 0
    /\ \E enough \in BOOLEAN :
         LET compacted == CompactConversation(messages, enough)
         IN /\ compacted.blocks # <<>>
            /\ messages' = compacted.messages
            /\ blocks' = compacted.blocks
    /\ pc' = "compacted"
    /\ UNCHANGED <<dbVars, countVars, worldVars, attempt, queue, pendingResult>>

\* Mutant: a summary of no use is asked for again.
SummarizeUntilItHelps ==
    LET b == Head(blocks) IN
    /\ Working("compacted") /\ blocks # <<>>
    /\ summaries' = summaries + 1
    /\ \/ UNCHANGED <<messages, dropped, blocks>>
       \/ \E text \in SUBSET messages[b].lines :
            /\ blocks' = Tail(blocks)
            /\ messages' = [messages EXCEPT ![b] = History(text)]
            /\ dropped' = dropped \cup (messages[b].lines \ text)
    /\ UNCHANGED <<dbVars, countVars, fresh, sent, effects, pc, attempt, queue, pendingResult>>

\* summarizeHistory, for one block after the other: a block that is small, or
\* whose request could not be sent, stays as it is; one that was sent too when
\* the request fails or the summary is of no use; or what the model wrote takes
\* its place, naming the calls it likes.
Summarize ==
    LET b == Head(blocks) IN
    /\ Working("compacted") /\ blocks # <<>>
    /\ blocks' = Tail(blocks)
    /\ \/ UNCHANGED <<messages, summaries, dropped>>
       \/ /\ summaries' = summaries + 1
          /\ UNCHANGED <<messages, dropped>>
       \/ \E text \in SUBSET messages[b].lines :
            /\ summaries' = summaries + 1
            /\ messages' = [messages EXCEPT ![b] = History(text)]
            /\ dropped' = dropped \cup (messages[b].lines \ text)
    /\ UNCHANGED <<dbVars, countVars, fresh, sent, effects, pc, attempt, queue, pendingResult>>

\* Mutant: the attempt is counted when its answer arrives.
AttemptUncounted ==
    /\ row = "running" /\ pc \in {"call", "compacted"} /\ blocks = <<>>
    /\ attempt' = attempt + 1 /\ sent' = sent + 1
    /\ modelCalls' = modelCalls + 1
    /\ pc' = "generating"
    /\ UNCHANGED <<dbVars, decisions, toolCalls, finalizing, finalAttempts, fresh, summaries, effects,
                   dropped, messages, blocks, queue, pendingResult>>

\* One attempt: counted in the database, then sent.
Attempt ==
    /\ row = "running" /\ pc \in {"call", "compacted"} /\ blocks = <<>>
    /\ attempt' = attempt + 1 /\ sent' = sent + 1
    /\ modelCalls' = modelCalls + 1
    /\ modelCount' = modelCalls'
    /\ pc' = "generating"
    /\ UNCHANGED <<verbatim, run, row, toolCount, trace, conv, decisions, toolCalls, finalizing,
                   finalAttempts, fresh, summaries, effects, dropped, messages, blocks, queue,
                   pendingResult>>

-----------------------------------------------------------------------------
(* What generate returns. *)

\* The request was never sent (too large): the count is taken back, Run fails.
NotDispatched ==
    /\ Working("generating")
    /\ modelCount' = modelCalls - 1 /\ sent' = sent - 1
    /\ EndAs("failed")
    /\ UNCHANGED <<verbatim, run, toolCount, trace, conv, fresh, summaries, effects, dropped>>

Retries(retryable) == retryable /\ attempt < AttemptLimit

\* An error: another attempt while it may be retried, else the Run fails.
GenerateError(retryable) ==
    /\ Working("generating")
    /\ IF Retries(retryable)
       THEN /\ pc' = "call"
            /\ UNCHANGED <<dbVars, countVars, messages, attempt, blocks, queue, pendingResult>>
       ELSE /\ EndAs("failed")
            /\ UNCHANGED <<verbatim, run, modelCount, toolCount, trace, conv>>
    /\ UNCHANGED worldVars

\* finalizationAttempts after the answer; the first rejected answer of a
\* decision is terminal attempt 1.
Attempts == IF finalizing THEN finalAttempts + attempt ELSE 1

\* The answer was not acceptable: one more terminal attempt, or failure.
\* `said` is what joins the conversation, `stored` what has been saved of it.
Reject(said, stored) ==
    /\ conv' = stored
    /\ IF Attempts >= MaxFinalizationRetries + 1
       THEN /\ EndAs("failed")
            /\ UNCHANGED <<verbatim, run, modelCount, toolCount>>
       ELSE /\ finalizing' = TRUE
            /\ finalAttempts' = Attempts
            /\ messages' = messages \o said \o <<Instruction>>
            /\ pc' = "top"
            /\ UNCHANGED <<verbatim, run, row, modelCount, toolCount, decisions, modelCalls, toolCalls,
                           attempt, blocks, queue, pendingResult>>

InvalidAnswer ==
    /\ Working("generating")
    /\ Reject(<<Answer>>, conv)
    /\ UNCHANGED <<trace, worldVars>>

\* A valid finalization: saved, and then the row ends.
FinalAnswer(status) ==
    /\ Working("generating")
    /\ messages' = Append(messages, Answer)
    /\ conv' = Stored(messages')
    /\ pc' = status
    /\ UNCHANGED <<verbatim, run, row, modelCount, toolCount, trace, countVars, worldVars, attempt,
                   blocks, queue, pendingResult>>

\* completeFinalizedRun, or persistRunFailure with TASK_FAILED.
EndRun(status) ==
    /\ Working(status)
    /\ EndAs(status)
    /\ UNCHANGED <<verbatim, run, modelCount, toolCount, trace, conv, worldVars>>

NewCalls(n) == [k \in 1..n |-> fresh + k]

\* The model asks for n tools (allowed: finish_reason is tool_call).  While
\* finalizing, or with another finish_reason, they are denied.
ToolCalls(n, allowed) ==
    LET ids    == NewCalls(n)
        denied == [k \in 1..n |-> Result(ids[k], "TOOL_DISABLED", "not_executed")]
        asked  == Append(messages, Calls(ids))
    IN /\ Working("generating")
       /\ fresh + n <= MaxCalls
       /\ fresh' = fresh + n
       /\ IF finalizing \/ ~allowed
          THEN /\ Reject(<<Calls(ids)>> \o denied, Stored(asked))
               /\ trace' = [c \in CallIds |-> IF c \in ToSet(ids) THEN "not_executed" ELSE trace[c]]
          ELSE /\ messages' = asked
               /\ conv' = Stored(asked)
               /\ queue' = ids
               /\ pc' = "tool"
               /\ UNCHANGED <<verbatim, run, row, modelCount, toolCount, trace, countVars, attempt, blocks,
                              pendingResult>>
       /\ UNCHANGED <<sent, summaries, effects, dropped>>

-----------------------------------------------------------------------------
(* The calls of a response, one after the other. *)

\* Mutant: the last unit is given out twice.
ToolUnitLeftLate == toolCalls <= MaxToolCall

ToolUnitLeft == toolCalls < MaxToolCall

\* Mutant: the loop over the calls ends only while the budget lasts.
ToolsDoneInBudget ==
    /\ Working("tool") /\ queue = <<>> /\ ToolUnitLeft
    /\ pc' = "top"
    /\ UNCHANGED <<dbVars, countVars, worldVars, messages, attempt, blocks, queue, pendingResult>>

ToolsDone ==
    /\ Working("tool") /\ queue = <<>>
    /\ pc' = "top"
    /\ UNCHANGED <<dbVars, countVars, worldVars, messages, attempt, blocks, queue, pendingResult>>

ToolOverBudget ==
    /\ Working("tool") /\ queue # <<>> /\ ~ToolUnitLeft
    /\ messages' = Append(messages, Result(Head(queue), "MAX_TOOL_CALL_REACHED", "not_executed"))
    /\ conv' = Stored(messages')
    /\ trace' = [trace EXCEPT ![Head(queue)] = "not_executed"]
    /\ queue' = Tail(queue)
    /\ UNCHANGED <<verbatim, run, row, modelCount, toolCount, countVars, worldVars, pc, attempt, blocks,
                   pendingResult>>

\* Mutant: the tool runs before its entry is written.
ExecuteUnreserved ==
    /\ Working("tool") /\ queue # <<>> /\ ToolUnitLeft
    /\ toolCalls' = toolCalls + 1
    /\ effects' = effects \cup {Head(queue)}
    /\ pc' = "executing"
    /\ UNCHANGED <<dbVars, decisions, modelCalls, finalizing, finalAttempts, fresh, sent,
                   summaries, dropped, messages, attempt, blocks, queue, pendingResult>>

\* The unit is taken and the entry written with an unknown outcome; then
\* executeTool is called, and from here on the call may take effect.
ReserveTool ==
    /\ Working("tool") /\ queue # <<>> /\ ToolUnitLeft
    /\ toolCalls' = toolCalls + 1
    /\ toolCount' = toolCalls'
    /\ trace' = [trace EXCEPT ![Head(queue)] = "unknown"]
    /\ effects' = effects \cup {Head(queue)}
    /\ pc' = "executing"
    /\ UNCHANGED <<verbatim, run, row, modelCount, conv, decisions, modelCalls, finalizing,
                   finalAttempts, fresh, sent, summaries, dropped, messages, attempt, blocks, queue,
                   pendingResult>>

\* What executeTool may answer (backendToolRequest): success, a refusal, or a
\* timeout before (not_executed) or after (unknown) the request was sent.  A
\* refusal may carry a page of the dependency's text (failureText), which tells
\* only reads apart here: the results of mutations are never shortened.
ToolAnswers(c) ==
    {Result(c, "", "ok"), Result(c, "rejected", "not_executed"),
     Result(c, "TOOL_TIMEOUT", "not_executed"), Result(c, "TOOL_TIMEOUT", "unknown")}
    \cup {Result(c, e, "not_executed") : e \in IF c \in Mutations THEN {} ELSE LongErrors}

\* executeTool returns; the outcome is recorded if the Run is still running.
ToolReturns ==
    LET c == Head(queue) IN
    /\ pc = "executing"
    /\ \E r \in ToolAnswers(c) :
         /\ pendingResult' = r
         /\ effects' = IF r.outcome = "not_executed" THEN effects \ {c} ELSE effects
         /\ trace' = IF row = "running" THEN [trace EXCEPT ![c] = r.outcome] ELSE trace
    /\ pc' = "record"
    /\ UNCHANGED <<verbatim, run, row, modelCount, toolCount, conv, countVars, fresh, sent, summaries,
                   dropped, messages, attempt, blocks, queue>>

SaveToolResult ==
    /\ Working("record")
    /\ messages' = Append(messages, pendingResult)
    /\ conv' = Stored(messages')
    /\ queue' = Tail(queue)
    /\ pendingResult' = NoResult
    /\ pc' = "tool"
    /\ UNCHANGED <<verbatim, run, row, modelCount, toolCount, trace, countVars, worldVars, attempt, blocks>>

-----------------------------------------------------------------------------
Generated ==
    \/ NotDispatched
    \/ \E retryable \in BOOLEAN : GenerateError(retryable)
    \/ InvalidAnswer
    \/ \E status \in {"completed", "failed"} : FinalAnswer(status)
    \/ \E n \in 1..MaxCallsPerResponse, allowed \in BOOLEAN : ToolCalls(n, allowed)

GoroutineStep ==
    \/ Brief
    \/ Top
    \/ Attempt
    \/ Compact
    \/ Summarize
    \/ Generated
    \/ \E status \in {"completed", "failed"} : EndRun(status)
    \/ ToolsDone
    \/ ToolOverBudget
    \/ ReserveTool
    \/ ToolReturns
    \/ SaveToolResult
    \/ Leave

Next ==
    \/ StartRun
    \/ Stop
    \/ Crash
    \/ Fails
    \/ GoroutineStep

Spec == Init /\ [][Next]_vars

\* The goroutine keeps running, and every request it makes is answered or
\* times out.
FairSpec == Spec /\ WF_vars(GoroutineStep)

-----------------------------------------------------------------------------
(* Properties. *)

\* spec.md 61, 67.1: no more decisions and tools than the Session allows, at
\* most MaxFinalizationRetries + 1 terminal attempts however finalization was
\* entered, and hence a fixed bound on the answers a Run may ask for; and on the
\* summaries: two for each decision and each terminal attempt.
BudgetsHold ==
    /\ decisions <= MaxLoop
    /\ toolCalls <= MaxToolCall
    /\ pc = "generating" /\ finalizing =>
         finalAttempts + attempt <= MaxFinalizationRetries + 1
    /\ pc = "generating" => attempt <= AttemptLimit
    /\ sent <= MaxLoop * (MaxModelGenerateRetries + 1) + MaxFinalizationRetries + 1
    /\ summaries <= 2 * (MaxLoop + MaxFinalizationRetries + 1)

\* spec.md 61: the counters of the row count every Generate really sent for a
\* decision or a terminal attempt (by spec.md 3634 a summary is none) and every
\* tool attempted, and the progress trace, from which recovery and retry
\* contexts and the History shard are made, never says of a call that may have
\* taken effect that it was not executed; also when the Run is cut at any point.
RecordsCoverTheWork ==
    /\ modelCount >= sent /\ toolCount >= toolCalls
    /\ \A c \in effects : trace[c] \in {"unknown", "ok"}

\* Whatever was cut before, every request sent to the Gateway pairs calls and
\* results.
RequestsAreWellFormed == pc = "generating" => IsWellFormed(messages)

\* A mutating call that may have taken effect is what the next Run reads of
\* it: done or uncertain, never missing and never "not executed", unless the
\* model itself left it out when it was asked to summarize the history.
ExecutedCallsAreRemembered ==
    effects \cap Mutations \subseteq Remembered(LoadConversation) \cup dropped

\* The same of the Sessions that keep their conversation verbatim.
VerbatimRemembers == verbatim => ExecutedCallsAreRemembered

\* conversation.go:201: "It is idempotent, so stored conversations can pass
\* through it again with the next Run appended."
StoredIsSettled == ~verbatim => SemanticConversation(conv) = conv

\* Every Run ends: the budgets bound the loop whatever the model answers.
RunEnds == row = "running" ~> row # "running"
=============================================================================
