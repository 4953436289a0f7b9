--------------------------- MODULE RunLoopProofs ---------------------------
(***************************************************************************)
(* Theorems about RunLoop: the budgets of a Run, the records of its work,  *)
(* and what it reads and sends of the conversation its Session stores, for *)
(* every limit, for any number of Runs and calls, and wherever a stop or a *)
(* crash cuts a Run.  Budgets and records do not look into the             *)
(* conversation.  The rest does: the second half says what the operators   *)
(* of Conversation compute of any conversation, then what each step of the *)
(* loop leaves in the stored one and in the one at hand.                   *)
(***************************************************************************)
EXTENDS RunLoop, TLAPS, WellFoundedInduction, NaturalsInduction, SequenceTheorems,
        FiniteSetTheorems, FunctionTheorems

Pcs == {"gone", "brief", "top", "call", "compacted", "generating", "tool", "executing", "record", "completed", "failed"}

Outcomes == {"none", "unknown", "ok", "not_executed"}

\* The blocks a compaction wrote are listed in a sequence.
IsSequence(b) == \E S : b \in Seq(S)

LoopTypes ==
    /\ pc \in Pcs
    /\ finalizing \in BOOLEAN
    /\ decisions \in Nat /\ modelCalls \in Nat /\ toolCalls \in Nat /\ finalAttempts \in Nat
    /\ attempt \in Nat /\ sent \in Int /\ modelCount \in Int /\ toolCount \in Nat
    /\ fresh \in 0..MaxCalls
    /\ queue \in Seq(CallIds)
    /\ pc \in {"executing", "record"} => queue # <<>>
    /\ trace \in [CallIds -> Outcomes]
    /\ effects \subseteq CallIds
    /\ summaries \in Nat
    /\ IsSequence(blocks)
    /\ pc # "compacted" => blocks = <<>>

-----------------------------------------------------------------------------
(* The budgets. *)

\* Requests that d decisions may make.
Granted(d) == d * (MaxModelGenerateRetries + 1)

LEMMA GrantedGrows ==
    /\ \A d \in Nat : Granted(d) \in Nat
    /\ \A d \in Nat : Granted(d + 1) = Granted(d) + MaxModelGenerateRetries + 1
    /\ \A d \in Nat : d <= MaxLoop => Granted(d) <= Granted(MaxLoop)
<1> DEFINE a == MaxModelGenerateRetries + 1
<1>1. a \in Nat /\ MaxLoop \in Nat
    BY RunLoopAssumption
<1> HIDE DEF a
<1>2. \A d \in Nat : d * a \in Nat
    BY <1>1
<1>3. \A d \in Nat : (d + 1) * a = d * a + a
    BY <1>1
<1>4. \A d \in Nat : d <= MaxLoop => d * a <= MaxLoop * a
    <2> SUFFICES ASSUME NEW d \in Nat, d <= MaxLoop PROVE d * a <= MaxLoop * a
        OBVIOUS
    <2>1. PICK e \in Nat : MaxLoop = d + e
        <3>1. MaxLoop - d \in Nat /\ MaxLoop = d + (MaxLoop - d)
            BY <1>1
        <3> QED BY <3>1
    <2>2. (d + e) * a = d * a + e * a /\ e * a \in Nat /\ d * a \in Nat
        BY <1>1
    <2> QED BY <2>1, <2>2
<1> QED BY <1>2, <1>3, <1>4, RunLoopAssumption DEF Granted, a

\* The decisions taken pay for the requests sent: all of the latest one's
\* while it is being worked on, what its attempts have used while the model is
\* asked; the terminal attempts pay for the rest.
Paid ==
    /\ pc = "brief" => ~finalizing /\ decisions = 0 /\ sent = 0
    /\ pc \in {"tool", "executing", "record"} => ~finalizing
    /\ pc \in {"top", "tool", "executing", "record"} /\ ~finalizing => sent <= Granted(decisions)
    /\ pc \in {"call", "compacted", "generating"} /\ ~finalizing
       => sent <= Granted(decisions) - (MaxModelGenerateRetries + 1) + attempt
    /\ pc = "top" /\ finalizing => sent <= Granted(MaxLoop) + finalAttempts
    /\ pc \in {"call", "compacted", "generating"} /\ finalizing => sent <= Granted(MaxLoop) + finalAttempts + attempt
    /\ sent <= Granted(MaxLoop) + MaxFinalizationRetries + 1

BudgetInv ==
    /\ decisions <= MaxLoop
    /\ toolCalls <= MaxToolCall
    /\ finalAttempts <= MaxFinalizationRetries
    /\ ~finalizing => finalAttempts = 0
    /\ pc \in {"call", "compacted"} => attempt < AttemptLimit
    /\ pc = "generating" => attempt <= AttemptLimit
    /\ Paid

\* The calls of callModel that are over, or whose history has been looked at.
Called == IF finalizing THEN MaxLoop + finalAttempts ELSE decisions

\* Each of them pays for two summaries; the one at hand does once its history
\* has been compacted, and after its first attempt at the latest.
SummaryInv ==
    /\ pc \in {"brief", "top", "tool", "executing", "record"} => summaries <= 2 * Called
    /\ pc = "call" /\ attempt = 0 /\ finalizing => summaries <= 2 * Called
    /\ pc = "call" /\ attempt = 0 /\ ~finalizing => summaries + 2 <= 2 * Called
    /\ pc \in {"call", "compacted", "generating"} /\ finalizing => summaries + Len(blocks) <= 2 * Called + 2
    /\ pc \in {"call", "compacted", "generating"} /\ ~finalizing => summaries + Len(blocks) <= 2 * Called
    /\ pc = "generating" => attempt > 0
    /\ pc = "brief" => summaries = 0
    /\ summaries <= 2 * (MaxLoop + MaxFinalizationRetries + 1)

-----------------------------------------------------------------------------
(* The records. *)

Handling == {"tool", "executing", "record"}

CountInv ==
    /\ modelCount = sent
    /\ pc # "gone" => modelCount = modelCalls /\ toolCount = toolCalls
    /\ pc = "gone" => toolCalls = 0

\* The calls still to be handled are the latest ones; only the first of them
\* may have taken effect, and only once its tool was started.
QueueInv ==
    /\ \A k \in 1..Len(queue) : queue[k] = fresh - Len(queue) + k
    /\ \A k \in 1..Len(queue) : queue[k] \in effects => k = 1 /\ pc \in {"executing", "record"}
    /\ queue # <<>> => pc \in Handling

TraceInv ==
    \A c \in effects : c <= fresh /\ trace[c] \in {"unknown", "ok"}

RecordInv == CountInv /\ QueueInv /\ TraceInv

-----------------------------------------------------------------------------
(* What the steps change. *)

\* The blocks that a compaction wrote: at most two, if any.
LEMMA BlocksAre ==
    ASSUME NEW q, NEW enough
    PROVE  LET b == CompactConversation(q, enough).blocks
           IN  IsSequence(b) /\ Len(b) \in 0..2
<1>1. PICK f, g, w : CompactConversation(q, enough).blocks = (IF f THEN <<1>> ELSE <<>>) \o (IF g THEN <<w>> ELSE <<>>)
    BY Zenon DEF CompactConversation
<1>2. PICK S : S = {1, w}
    OBVIOUS
<1>3. PICK a \in Seq(S) : a = (IF f THEN <<1>> ELSE <<>>) /\ Len(a) \in 0..1
    <2>1. <<1>> \in Seq(S) /\ Len(<<1>>) = 1 /\ <<>> \in Seq(S) /\ Len(<<>>) = 0
        BY <1>2
    <2>2. PICK a : a = (IF f THEN <<1>> ELSE <<>>) /\ (a = <<1>> \/ a = <<>>)
        BY Zenon
    <2>3. a \in Seq(S) /\ Len(a) \in 0..1
        BY <2>1, <2>2
    <2> QED BY <2>2, <2>3
<1>4. PICK b \in Seq(S) : b = (IF g THEN <<w>> ELSE <<>>) /\ Len(b) \in 0..1
    <2>1. <<w>> \in Seq(S) /\ Len(<<w>>) = 1 /\ <<>> \in Seq(S) /\ Len(<<>>) = 0
        BY <1>2
    <2>2. PICK b : b = (IF g THEN <<w>> ELSE <<>>) /\ (b = <<w>> \/ b = <<>>)
        BY Zenon
    <2>3. b \in Seq(S) /\ Len(b) \in 0..1
        BY <2>1, <2>2
    <2> QED BY <2>2, <2>3
<1>5. a \o b \in Seq(S) /\ Len(a \o b) = Len(a) + Len(b)
    OBVIOUS
<1>6. CompactConversation(q, enough).blocks = a \o b
    BY <1>1, <1>3, <1>4
<1>7. IsSequence(a \o b)
    BY <1>5 DEF IsSequence
<1>8. Len(a \o b) \in 0..2
    BY <1>3, <1>4, <1>5
<1> QED BY <1>6, <1>7, <1>8

\* A goroutine that ends leaves fresh variables behind.
LEMMA ResetTypes ==
    ASSUME Reset
    PROVE  /\ decisions' = 0 /\ modelCalls' = 0 /\ toolCalls' = 0
           /\ finalizing' = FALSE /\ finalAttempts' = 0
           /\ attempt' = 0 /\ queue' = <<>>
           /\ queue' \in Seq(CallIds)
           /\ blocks' = <<>> /\ IsSequence(blocks')
<1>1. <<>> \in Seq({})
    OBVIOUS
<1>2. blocks' = <<>>
    BY DEF Reset
<1>3. IsSequence(blocks')
    BY <1>1, <1>2 DEF IsSequence
<1> QED BY <1>2, <1>3 DEF Reset

\* An answer that is rejected: the Run ends, or goes back to the top with one
\* more terminal attempt.
LEMMA RejectShape ==
    ASSUME NEW said, NEW stored, Reject(said, stored)
    PROVE  /\ UNCHANGED <<modelCount, toolCount>>
           /\ \/ pc' = "gone" /\ Reset
              \/ /\ ~(Attempts >= MaxFinalizationRetries + 1)
                 /\ finalizing' = TRUE /\ finalAttempts' = Attempts /\ pc' = "top"
                 /\ UNCHANGED <<decisions, modelCalls, toolCalls, attempt, blocks, queue>>
BY DEF Reject, EndAs

\* The calls of a response are the next ones, in order.
LEMMA NewCallsAre ==
    ASSUME LoopTypes, NEW n \in Nat, fresh + n <= MaxCalls
    PROVE  /\ NewCalls(n) \in Seq(CallIds) /\ Len(NewCalls(n)) = n
           /\ \A k \in 1..n : NewCalls(n)[k] = fresh + k
           /\ fresh + n \in 0..MaxCalls
           /\ ToSet(NewCalls(n)) = {fresh + k : k \in 1..n}
<1>1. fresh \in Nat /\ fresh <= MaxCalls /\ MaxCalls \in Nat
    BY RunLoopAssumption DEF LoopTypes
<1>2. \A k \in 1..n : fresh + k \in CallIds
    BY <1>1 DEF CallIds
<1>3. NewCalls(n) \in [1..n -> CallIds]
    BY <1>2 DEF NewCalls
<1>4. NewCalls(n) \in Seq(CallIds) /\ Len(NewCalls(n)) = n
    BY <1>3
<1> QED BY <1>1, <1>4 DEF NewCalls, ToSet

\* A response with tool calls is rejected with them, or they are to be handled.
LEMMA ToolCallsShape ==
    ASSUME NEW n, NEW allowed, ToolCalls(n, allowed)
    PROVE  /\ Working("generating") /\ fresh + n <= MaxCalls /\ fresh' = fresh + n
           /\ UNCHANGED <<sent, summaries, effects, dropped>>
           /\ \/ /\ \E said, stored : Reject(said, stored)
                 /\ trace' = [c \in CallIds |-> IF c \in ToSet(NewCalls(n)) THEN "not_executed" ELSE trace[c]]
              \/ /\ ~finalizing /\ queue' = NewCalls(n) /\ pc' = "tool"
                 /\ UNCHANGED <<modelCount, toolCount, trace, countVars, attempt, blocks>>
BY Zenon DEF ToolCalls

LEMMA AnswersAre ==
    ASSUME NEW c, NEW r \in ToolAnswers(c)
    PROVE  r.outcome \in {"ok", "unknown", "not_executed"}
<1>1. \E e, o : r = Result(c, e, o) /\ o \in {"ok", "unknown", "not_executed"}
    BY Zenon DEF ToolAnswers
<1>2. PICK e, o : r = Result(c, e, o) /\ o \in {"ok", "unknown", "not_executed"}
    BY <1>1
<1>3. r.outcome = o
    BY <1>2 DEF Result
<1> QED BY <1>2, <1>3

\* The first call of the queue, and the others.
LEMMA QueueParts ==
    ASSUME LoopTypes, queue # <<>>
    PROVE  /\ Head(queue) \in CallIds /\ Head(queue) = queue[1] /\ Len(queue) \in Nat \ {0}
           /\ Tail(queue) \in Seq(CallIds) /\ Len(Tail(queue)) = Len(queue) - 1
           /\ \A k \in 1..(Len(queue) - 1) : Tail(queue)[k] = queue[k + 1]
<1>1. queue \in Seq(CallIds) /\ Len(queue) \in Nat
    BY DEF LoopTypes
<1>2. Len(queue) # 0
    BY <1>1
<1>3. queue[1] \in CallIds
    BY <1>1, <1>2
<1> QED BY <1>1, <1>2, <1>3

\* The loop's top: finalization is entered, goes on, or a decision is taken.
LEMMA TopShape ==
    ASSUME Top
    PROVE  /\ Working("top") /\ attempt' = 0 /\ pc' = "call"
           /\ \/ ~finalizing /\ finalizing' = TRUE /\ decisions' = decisions
              \/ finalizing /\ finalizing' = finalizing /\ decisions' = decisions
              \/ ~finalizing /\ finalizing' = finalizing /\ ~OverBudget /\ decisions' = decisions + 1
           /\ UNCHANGED <<modelCount, toolCount, trace, modelCalls, toolCalls, finalAttempts, fresh, sent,
                          summaries, effects, dropped, blocks, queue>>
BY DEF Top, worldVars

\* An error of the model: another attempt, or the Run ends.
LEMMA ErrorShape ==
    ASSUME NEW retryable, GenerateError(retryable)
    PROVE  /\ Working("generating") /\ UNCHANGED <<modelCount, toolCount, trace, worldVars>>
           /\ \/ pc' = "call" /\ attempt < AttemptLimit /\ UNCHANGED <<countVars, attempt, blocks, queue>>
              \/ pc' = "gone" /\ Reset
BY DEF GenerateError, Retries, EndAs, dbVars

-----------------------------------------------------------------------------
(* Types *)

LEMMA TypesStep ==
    ASSUME LoopTypes, [Next]_vars
    PROVE  LoopTypes'
<1>1. CASE StartRun
    BY <1>1, ResetTypes DEF StartRun, LoopTypes, Pcs
<1>2. CASE Stop
    BY <1>2 DEF Stop, LoopTypes, countVars, worldVars
<1>3. CASE Crash
    BY <1>3, ResetTypes DEF Crash, LoopTypes, Pcs, worldVars
<1>4. CASE Leave
    BY <1>4, ResetTypes DEF Leave, LoopTypes, Pcs, worldVars, dbVars
<1>5. CASE Fails
    BY <1>5, ResetTypes DEF Fails, EndAs, LoopTypes, Pcs, worldVars
<1>6. CASE Brief
    BY <1>6 DEF Brief, Working, LoopTypes, Pcs, countVars, worldVars
<1>7. CASE Top
    <2>1. /\ attempt' = 0 /\ pc' = "call"
          /\ UNCHANGED <<modelCount, toolCount, trace, modelCalls, toolCalls, finalAttempts, fresh, sent,
                         summaries, effects, blocks, queue>>
          /\ pc = "top"
        BY <1>7, TopShape DEF Working
    <2>2. finalizing' \in BOOLEAN
        BY <1>7, TopShape DEF LoopTypes
    <2>3. decisions' \in Nat
        <3>1. decisions' = decisions \/ decisions' = decisions + 1
            BY <1>7, TopShape, Zenon
        <3> QED BY <3>1 DEF LoopTypes
    <2> QED BY <2>1, <2>2, <2>3 DEF LoopTypes, Pcs
<1>8. CASE Compact
    <2>1. PICK enough \in BOOLEAN : blocks' = CompactConversation(messages, enough).blocks
        BY <1>8 DEF Compact
    <2>2. IsSequence(blocks')
        BY <2>1, BlocksAre
    <2> QED BY <1>8, <2>2 DEF Compact, Working, LoopTypes, Pcs, dbVars, countVars, worldVars
<1>23. CASE Summarize
    <2>1. PICK S : blocks \in Seq(S)
        BY DEF LoopTypes, IsSequence
    <2>2. pc = "compacted" /\ pc' = pc /\ blocks # <<>> /\ blocks' = Tail(blocks)
        BY <1>23 DEF Summarize, Working
    <2>3. IsSequence(blocks')
        <3>1. Tail(blocks) \in Seq(S)
            BY <2>1, <2>2
        <3> QED BY <2>2, <3>1 DEF IsSequence
    <2>4. summaries' = summaries \/ summaries' = summaries + 1
        BY <1>23 DEF Summarize
    <2> QED BY <1>23, <2>2, <2>3, <2>4 DEF Summarize, LoopTypes, Pcs, dbVars, countVars
<1>9. CASE Attempt
    BY <1>9 DEF Attempt, LoopTypes, Pcs
<1>10. CASE NotDispatched
    BY <1>10, ResetTypes DEF NotDispatched, EndAs, LoopTypes, Pcs
<1>11. CASE \E retryable \in BOOLEAN : GenerateError(retryable)
    <2>1. pc = "generating" /\ UNCHANGED <<modelCount, toolCount, trace, fresh, sent, summaries, effects>>
        BY <1>11, ErrorShape DEF Working, worldVars
    <2>2. CASE pc' = "call" /\ UNCHANGED <<countVars, attempt, blocks, queue>>
        BY <2>1, <2>2 DEF LoopTypes, Pcs, countVars
    <2>3. CASE pc' = "gone" /\ Reset
        BY <2>1, <2>3, ResetTypes DEF LoopTypes, Pcs
    <2> QED BY <1>11, <2>2, <2>3, ErrorShape
<1>12. ASSUME pc = "generating", UNCHANGED <<sent, summaries, effects>>, fresh' \in 0..MaxCalls, trace' \in [CallIds -> Outcomes],
              NEW said, NEW stored, Reject(said, stored)
       PROVE  LoopTypes'
    <2>1. Attempts \in Nat
        BY DEF Attempts, LoopTypes
    <2>2. UNCHANGED <<modelCount, toolCount>>
        BY <1>12, RejectShape
    <2>3. CASE pc' = "gone" /\ Reset
        BY <1>12, <2>2, <2>3, ResetTypes DEF LoopTypes, Pcs
    <2>4. CASE /\ finalizing' = TRUE /\ finalAttempts' = Attempts /\ pc' = "top"
               /\ UNCHANGED <<decisions, modelCalls, toolCalls, attempt, blocks, queue>>
        BY <1>12, <2>1, <2>2, <2>4 DEF LoopTypes, Pcs
    <2> QED BY <1>12, <2>3, <2>4, RejectShape
<1>13. CASE InvalidAnswer
    <2>1. Reject(<<Answer>>, conv) /\ pc = "generating" /\ UNCHANGED <<trace, sent, summaries, effects, fresh>>
        BY <1>13 DEF InvalidAnswer, Working, worldVars
    <2>2. fresh' \in 0..MaxCalls /\ trace' \in [CallIds -> Outcomes]
        BY <2>1 DEF LoopTypes
    <2> QED BY <1>12, <2>1, <2>2
<1>14. CASE \E status \in {"completed", "failed"} : FinalAnswer(status)
    BY <1>14 DEF FinalAnswer, Working, LoopTypes, Pcs, countVars, worldVars
<1>15. ASSUME NEW n \in 1..MaxCallsPerResponse, NEW allowed \in BOOLEAN, ToolCalls(n, allowed)
       PROVE  LoopTypes'
    <2>1. n \in Nat
        BY RunLoopAssumption
    <2>2. /\ pc = "generating" /\ fresh + n <= MaxCalls /\ fresh' = fresh + n
          /\ UNCHANGED <<sent, summaries, effects>>
        BY <1>15, ToolCallsShape DEF Working
    <2>3. fresh' \in 0..MaxCalls /\ NewCalls(n) \in Seq(CallIds)
        BY <2>1, <2>2, NewCallsAre
    <2>4. CASE /\ \E said, stored : Reject(said, stored)
               /\ trace' = [c \in CallIds |-> IF c \in ToSet(NewCalls(n)) THEN "not_executed" ELSE trace[c]]
        <3>1. trace' \in [CallIds -> Outcomes]
            BY <2>4 DEF LoopTypes, Outcomes
        <3> QED BY <1>12, <2>2, <2>3, <2>4, <3>1
    <2>5. CASE /\ queue' = NewCalls(n) /\ pc' = "tool"
               /\ UNCHANGED <<modelCount, toolCount, trace, countVars, attempt, blocks>>
        BY <2>2, <2>3, <2>5 DEF LoopTypes, Pcs, countVars
    <2> QED BY <1>15, <2>4, <2>5, ToolCallsShape
<1>16. CASE \E status \in {"completed", "failed"} : EndRun(status)
    BY <1>16, ResetTypes DEF EndRun, EndAs, LoopTypes, Pcs, worldVars
<1>17. CASE ToolsDone
    BY <1>17 DEF ToolsDone, Working, LoopTypes, Pcs, dbVars, countVars, worldVars
<1>18. CASE ToolOverBudget
    BY <1>18, QueueParts DEF ToolOverBudget, Working, LoopTypes, Outcomes, countVars, worldVars
<1>19. CASE ReserveTool
    BY <1>19, QueueParts DEF ReserveTool, Working, LoopTypes, Outcomes, Pcs
<1>20. CASE ToolReturns
    <2>1. PICK r \in ToolAnswers(Head(queue)) :
            /\ effects' = IF r.outcome = "not_executed" THEN effects \ {Head(queue)} ELSE effects
            /\ trace' = IF row = "running" THEN [trace EXCEPT ![Head(queue)] = r.outcome] ELSE trace
        BY <1>20 DEF ToolReturns
    <2>2. r.outcome \in Outcomes
        BY AnswersAre DEF Outcomes
    <2>3. effects' \subseteq CallIds /\ trace' \in [CallIds -> Outcomes]
        BY <2>1, <2>2 DEF LoopTypes
    <2> QED BY <1>20, <2>3 DEF ToolReturns, LoopTypes, Pcs, countVars
<1>21. CASE SaveToolResult
    BY <1>21, QueueParts DEF SaveToolResult, Working, LoopTypes, Pcs, countVars, worldVars
<1>22. CASE UNCHANGED vars
    BY <1>22 DEF vars, dbVars, countVars, worldVars, LoopTypes
<1> QED
    BY <1>1, <1>2, <1>3, <1>4, <1>5, <1>6, <1>7, <1>8, <1>9, <1>10, <1>11, <1>13, <1>14, <1>15, <1>16,
       <1>17, <1>18, <1>19, <1>20, <1>21, <1>22, <1>23 DEF Next, GoroutineStep, Generated

-----------------------------------------------------------------------------
(* The budgets *)

LEMMA BudgetConstants ==
    /\ MaxLoop \in Nat /\ MaxToolCall \in Nat /\ MaxFinalizationRetries \in Nat /\ MaxModelGenerateRetries \in Nat
    /\ Granted(MaxLoop) \in Nat
BY RunLoopAssumption, GrantedGrows

\* A goroutine that ends keeps the Run's requests and forgets the rest.
LEMMA EndedInBudget ==
    ASSUME LoopTypes, BudgetInv, pc' = "gone", Reset, sent' \in Int, sent' <= sent
    PROVE  BudgetInv'
<1>1. /\ decisions' = 0 /\ toolCalls' = 0 /\ finalizing' = FALSE /\ finalAttempts' = 0
    BY DEF Reset
<1>2. sent' <= Granted(MaxLoop) + MaxFinalizationRetries + 1
    BY BudgetConstants DEF LoopTypes, BudgetInv, Paid
<1>3. Paid'
    BY <1>2 DEF Paid
<1> QED BY <1>1, <1>3, BudgetConstants DEF BudgetInv

\* A step that counts nothing and does not go to or from the model.
LEMMA SameBudget ==
    ASSUME LoopTypes, BudgetInv, UNCHANGED <<decisions, finalizing, finalAttempts, attempt, sent>>,
           toolCalls' <= MaxToolCall,
           \/ pc' = pc
           \/ pc = "call" /\ pc' = "compacted"
           \/ pc \in {"tool", "executing", "record"} /\ pc' \in {"top", "tool", "executing", "record"}
           \/ pc' \in {"completed", "failed"}
    PROVE  BudgetInv'
<1>1. Paid'
    BY DEF BudgetInv, Paid
<1>2. AttemptLimit' = AttemptLimit
    BY DEF AttemptLimit
<1> QED BY <1>1, <1>2 DEF BudgetInv

\* A rejected answer is the first terminal attempt, or uses up those made.
LEMMA RejectInBudget ==
    ASSUME LoopTypes, BudgetInv, pc = "generating", sent' = sent,
           NEW said, NEW stored, Reject(said, stored)
    PROVE  BudgetInv'
<1>1. CASE pc' = "gone" /\ Reset
    BY <1>1, EndedInBudget DEF LoopTypes
<1>2. CASE /\ ~(Attempts >= MaxFinalizationRetries + 1)
           /\ finalizing' = TRUE /\ finalAttempts' = Attempts /\ pc' = "top"
           /\ UNCHANGED <<decisions, modelCalls, toolCalls, attempt, blocks, queue>>
    <2>1. /\ decisions \in Nat /\ attempt \in Nat /\ finalAttempts \in Nat /\ sent \in Int
          /\ decisions <= MaxLoop /\ toolCalls <= MaxToolCall
        BY DEF LoopTypes, BudgetInv
    <2>2. sent <= Granted(MaxLoop) + Attempts /\ Attempts \in Nat
        <3>1. CASE finalizing
            <4>1. Attempts = finalAttempts + attempt
                BY <3>1 DEF Attempts
            <4>2. sent <= Granted(MaxLoop) + finalAttempts + attempt
                BY <3>1 DEF BudgetInv, Paid
            <4> QED BY <2>1, <4>1, <4>2, BudgetConstants
        <3>2. CASE ~finalizing
            <4>1. Attempts = 1
                BY <3>2 DEF Attempts
            <4>2. attempt <= MaxModelGenerateRetries + 1
                BY <3>2 DEF BudgetInv, AttemptLimit
            <4>3. sent <= Granted(decisions) - (MaxModelGenerateRetries + 1) + attempt
                BY <3>2 DEF BudgetInv, Paid
            <4>4. Granted(decisions) \in Nat /\ Granted(decisions) <= Granted(MaxLoop)
                BY <2>1, GrantedGrows
            <4> QED BY <2>1, <4>1, <4>2, <4>3, <4>4, BudgetConstants
        <3> QED BY <3>1, <3>2
    <2>3. Attempts <= MaxFinalizationRetries
        BY <1>2, <2>2, BudgetConstants
    <2>4. sent <= Granted(MaxLoop) + MaxFinalizationRetries + 1
        BY <2>1, <2>2, <2>3, BudgetConstants
    <2>5. Paid'
        BY <1>2, <2>2, <2>4 DEF Paid
    <2> QED BY <1>2, <2>1, <2>3, <2>5 DEF BudgetInv
<1> QED BY <1>1, <1>2, RejectShape

LEMMA TopInBudget ==
    ASSUME LoopTypes, BudgetInv, Top
    PROVE  BudgetInv'
<1>1. /\ pc = "top" /\ attempt' = 0 /\ pc' = "call"
      /\ UNCHANGED <<toolCalls, finalAttempts, sent>>
    BY TopShape DEF Working
<1>2. /\ decisions \in Nat /\ finalAttempts \in Nat /\ sent \in Int
      /\ decisions <= MaxLoop /\ toolCalls <= MaxToolCall /\ finalAttempts <= MaxFinalizationRetries
      /\ sent <= Granted(MaxLoop) + MaxFinalizationRetries + 1
      /\ ~finalizing => finalAttempts = 0
    BY DEF LoopTypes, BudgetInv, Paid
<1>3. Granted(decisions) \in Nat /\ Granted(decisions) <= Granted(MaxLoop)
    BY <1>2, GrantedGrows
<1>4. CASE finalizing' = TRUE /\ decisions' = decisions
    <2>1. sent <= Granted(MaxLoop) + finalAttempts + 0
        <3>1. finalizing => sent <= Granted(MaxLoop) + finalAttempts
            BY <1>1 DEF BudgetInv, Paid
        <3>2. ~finalizing => sent <= Granted(decisions)
            BY <1>1 DEF BudgetInv, Paid
        <3> QED BY <1>2, <1>3, <3>1, <3>2, BudgetConstants
    <2>2. Paid'
        BY <1>1, <1>2, <1>4, <2>1 DEF Paid
    <2>3. attempt' < AttemptLimit'
        <3>1. AttemptLimit' = MaxFinalizationRetries + 1 - finalAttempts
            BY <1>1, <1>4 DEF AttemptLimit
        <3> QED BY <1>1, <1>2, <3>1, BudgetConstants
    <2> QED BY <1>1, <1>2, <1>4, <2>2, <2>3 DEF BudgetInv
<1>5. CASE ~finalizing /\ ~finalizing' /\ ~OverBudget /\ decisions' = decisions + 1
    <2>1. decisions + 1 <= MaxLoop
        BY <1>2, <1>5, BudgetConstants DEF OverBudget
    <2>2. sent <= Granted(decisions)
        BY <1>1, <1>5 DEF BudgetInv, Paid
    <2>3. Granted(decisions + 1) = Granted(decisions) + MaxModelGenerateRetries + 1
        BY <1>2, GrantedGrows
    <2>4. sent <= Granted(decisions + 1) - (MaxModelGenerateRetries + 1) + 0
        BY <1>2, <1>3, <2>2, <2>3, BudgetConstants
    <2>5. Paid'
        BY <1>1, <1>2, <1>5, <2>4 DEF Paid
    <2>6. attempt' < AttemptLimit'
        <3>1. AttemptLimit' = MaxModelGenerateRetries + 1
            BY <1>5 DEF AttemptLimit
        <3> QED BY <1>1, <3>1, BudgetConstants
    <2> QED BY <1>1, <1>2, <1>5, <2>1, <2>5, <2>6 DEF BudgetInv
<1>6. \/ finalizing' = TRUE /\ decisions' = decisions
      \/ ~finalizing /\ ~finalizing' /\ ~OverBudget /\ decisions' = decisions + 1
    BY TopShape, Zenon DEF LoopTypes
<1> QED BY <1>4, <1>5, <1>6

LEMMA AttemptInBudget ==
    ASSUME LoopTypes, BudgetInv, Attempt
    PROVE  BudgetInv'
<1>1. /\ pc \in {"call", "compacted"} /\ pc' = "generating" /\ attempt' = attempt + 1 /\ sent' = sent + 1
      /\ UNCHANGED <<decisions, toolCalls, finalizing, finalAttempts>>
    BY DEF Attempt
<1>2. /\ decisions \in Nat /\ finalAttempts \in Nat /\ attempt \in Nat /\ sent \in Int
      /\ decisions <= MaxLoop /\ toolCalls <= MaxToolCall /\ finalAttempts <= MaxFinalizationRetries
      /\ ~finalizing => finalAttempts = 0
    BY DEF LoopTypes, BudgetInv
<1>3. Granted(decisions) \in Nat /\ Granted(decisions) <= Granted(MaxLoop)
    BY <1>2, GrantedGrows
<1>4. AttemptLimit' = AttemptLimit
    BY <1>1 DEF AttemptLimit
<1>5. CASE finalizing
    <2>1. attempt < MaxFinalizationRetries + 1 - finalAttempts
        BY <1>1, <1>5 DEF BudgetInv, AttemptLimit
    <2>2. sent <= Granted(MaxLoop) + finalAttempts + attempt
        BY <1>1, <1>5 DEF BudgetInv, Paid
    <2>3. /\ sent + 1 <= Granted(MaxLoop) + finalAttempts + (attempt + 1)
          /\ sent + 1 <= Granted(MaxLoop) + MaxFinalizationRetries + 1
          /\ attempt + 1 <= MaxFinalizationRetries + 1 - finalAttempts
        BY <1>2, <2>1, <2>2, BudgetConstants
    <2>4. Paid'
        BY <1>1, <1>5, <2>3 DEF Paid
    <2>5. attempt' <= AttemptLimit'
        BY <1>1, <1>4, <1>5, <2>3 DEF AttemptLimit
    <2> QED BY <1>1, <1>2, <2>4, <2>5 DEF BudgetInv
<1>6. CASE ~finalizing
    <2>1. attempt < MaxModelGenerateRetries + 1
        BY <1>1, <1>6 DEF BudgetInv, AttemptLimit
    <2>2. sent <= Granted(decisions) - (MaxModelGenerateRetries + 1) + attempt
        BY <1>1, <1>6 DEF BudgetInv, Paid
    <2>3. /\ sent + 1 <= Granted(decisions) - (MaxModelGenerateRetries + 1) + (attempt + 1)
          /\ sent + 1 <= Granted(MaxLoop) + MaxFinalizationRetries + 1
          /\ attempt + 1 <= MaxModelGenerateRetries + 1
        BY <1>2, <1>3, <2>1, <2>2, BudgetConstants
    <2>4. Paid'
        BY <1>1, <1>6, <2>3 DEF Paid
    <2>5. attempt' <= AttemptLimit'
        BY <1>1, <1>4, <1>6, <2>3 DEF AttemptLimit
    <2> QED BY <1>1, <1>2, <2>4, <2>5 DEF BudgetInv
<1> QED BY <1>5, <1>6

\* The decision's calls are to be handled: its attempts are over.
LEMMA AnsweredInBudget ==
    ASSUME LoopTypes, BudgetInv, pc = "generating", ~finalizing, pc' = "tool",
           UNCHANGED <<decisions, toolCalls, finalizing, finalAttempts, attempt, sent>>
    PROVE  BudgetInv'
<1>1. /\ decisions \in Nat /\ attempt \in Nat /\ sent \in Int /\ decisions <= MaxLoop
      /\ sent <= Granted(MaxLoop) + MaxFinalizationRetries + 1
    BY DEF LoopTypes, BudgetInv, Paid
<1>2. attempt <= MaxModelGenerateRetries + 1
    BY DEF BudgetInv, AttemptLimit
<1>3. sent <= Granted(decisions) - (MaxModelGenerateRetries + 1) + attempt
    BY DEF BudgetInv, Paid
<1>4. Granted(decisions) \in Nat
    BY <1>1, GrantedGrows
<1>5. sent <= Granted(decisions)
    BY <1>1, <1>2, <1>3, <1>4, BudgetConstants
<1>6. Paid'
    BY <1>1, <1>5 DEF Paid
<1> QED BY <1>6 DEF BudgetInv

LEMMA BudgetStep ==
    ASSUME LoopTypes, BudgetInv, [Next]_vars
    PROVE  BudgetInv'
<1>0. sent \in Int /\ sent <= sent /\ toolCalls \in Nat /\ toolCalls <= MaxToolCall
    BY DEF LoopTypes, BudgetInv
<1>1. CASE StartRun
    <2>1. /\ pc' = "brief" /\ sent' = 0 /\ decisions' = 0 /\ toolCalls' = 0 /\ finalizing' = FALSE
          /\ finalAttempts' = 0
        BY <1>1, ResetTypes DEF StartRun
    <2>2. Paid'
        BY <2>1, BudgetConstants DEF Paid
    <2> QED BY <2>1, <2>2, BudgetConstants DEF BudgetInv
<1>2. CASE Stop
    <2>1. UNCHANGED <<decisions, toolCalls, finalizing, finalAttempts, attempt, sent, pc>>
        BY <1>2 DEF Stop, countVars, worldVars
    <2> QED BY <1>0, <2>1, SameBudget
<1>3. CASE Crash \/ Leave \/ Fails
    <2>1. pc' = "gone" /\ Reset /\ sent' = sent
        BY <1>3 DEF Crash, Leave, Fails, EndAs, worldVars
    <2> QED BY <1>0, <2>1, EndedInBudget
<1>6. CASE Brief
    <2>1. /\ pc = "brief" /\ pc' = "top"
          /\ UNCHANGED <<decisions, toolCalls, finalizing, finalAttempts, attempt, sent>>
        BY <1>6 DEF Brief, Working, countVars, worldVars
    <2>2. ~finalizing /\ decisions = 0 /\ sent = 0
        BY <2>1 DEF BudgetInv, Paid
    <2>3. Granted(0) \in Nat
        BY GrantedGrows
    <2>4. Paid'
        BY <2>1, <2>2, <2>3, BudgetConstants DEF Paid
    <2> QED BY <2>1, <2>4 DEF BudgetInv
<1>7. CASE Top
    BY <1>7, TopInBudget
<1>8. CASE Compact
    <2>1. /\ pc = "call" /\ pc' = "compacted"
          /\ UNCHANGED <<decisions, toolCalls, finalizing, finalAttempts, attempt, sent>>
        BY <1>8 DEF Compact, Working, countVars, worldVars
    <2> QED BY <1>0, <2>1, SameBudget
<1>23. CASE Summarize
    <2>1. UNCHANGED <<decisions, toolCalls, finalizing, finalAttempts, attempt, sent, pc>>
        BY <1>23 DEF Summarize, countVars
    <2> QED BY <1>0, <2>1, SameBudget
<1>9. CASE Attempt
    BY <1>9, AttemptInBudget
<1>10. CASE NotDispatched
    <2>1. pc' = "gone" /\ Reset /\ sent' = sent - 1
        BY <1>10 DEF NotDispatched, EndAs
    <2>2. sent' \in Int /\ sent' <= sent
        BY <1>0, <2>1
    <2> QED BY <2>1, <2>2, EndedInBudget
<1>11. CASE \E retryable \in BOOLEAN : GenerateError(retryable)
    <2>1. pc = "generating" /\ sent' = sent
        BY <1>11, ErrorShape DEF Working, worldVars
    <2>2. CASE pc' = "call" /\ attempt < AttemptLimit /\ UNCHANGED <<countVars, attempt, blocks, queue>>
        <3>1. UNCHANGED <<decisions, toolCalls, finalizing, finalAttempts, attempt>>
            BY <2>2 DEF countVars
        <3>2. AttemptLimit' = AttemptLimit
            BY <3>1 DEF AttemptLimit
        <3>3. Paid'
            BY <2>1, <2>2, <3>1 DEF BudgetInv, Paid
        <3> QED BY <2>2, <3>1, <3>2, <3>3 DEF BudgetInv
    <2>3. CASE pc' = "gone" /\ Reset
        BY <1>0, <2>1, <2>3, EndedInBudget
    <2> QED BY <1>11, <2>2, <2>3, ErrorShape
<1>13. CASE InvalidAnswer
    <2>1. pc = "generating" /\ sent' = sent /\ Reject(<<Answer>>, conv)
        BY <1>13 DEF InvalidAnswer, Working, worldVars
    <2> QED BY <2>1, RejectInBudget
<1>14. CASE \E status \in {"completed", "failed"} : FinalAnswer(status)
    <2>1. /\ pc' \in {"completed", "failed"}
          /\ UNCHANGED <<decisions, toolCalls, finalizing, finalAttempts, attempt, sent>>
        BY <1>14 DEF FinalAnswer, countVars, worldVars
    <2> QED BY <1>0, <2>1, SameBudget
<1>15. ASSUME NEW n \in 1..MaxCallsPerResponse, NEW allowed \in BOOLEAN, ToolCalls(n, allowed)
       PROVE  BudgetInv'
    <2>1. pc = "generating" /\ sent' = sent
        BY <1>15, ToolCallsShape DEF Working
    <2>2. CASE \E said, stored : Reject(said, stored)
        BY <2>1, <2>2, RejectInBudget
    <2>3. CASE /\ ~finalizing /\ pc' = "tool" /\ UNCHANGED <<countVars, attempt>>
        <3>1. UNCHANGED <<decisions, toolCalls, finalizing, finalAttempts, attempt>>
            BY <2>3 DEF countVars
        <3> QED BY <2>1, <2>3, <3>1, AnsweredInBudget
    <2> QED BY <1>15, <2>2, <2>3, ToolCallsShape
<1>16. CASE \E status \in {"completed", "failed"} : EndRun(status)
    <2>1. pc' = "gone" /\ Reset /\ sent' = sent
        BY <1>16 DEF EndRun, EndAs, worldVars
    <2> QED BY <1>0, <2>1, EndedInBudget
<1>17. CASE ToolsDone
    <2>1. /\ pc = "tool" /\ pc' = "top"
          /\ UNCHANGED <<decisions, toolCalls, finalizing, finalAttempts, attempt, sent>>
        BY <1>17 DEF ToolsDone, Working, countVars, worldVars
    <2> QED BY <1>0, <2>1, SameBudget
<1>18. CASE ToolOverBudget
    <2>1. UNCHANGED <<decisions, toolCalls, finalizing, finalAttempts, attempt, sent, pc>>
        BY <1>18 DEF ToolOverBudget, countVars, worldVars
    <2> QED BY <1>0, <2>1, SameBudget
<1>19. CASE ReserveTool
    <2>1. /\ pc = "tool" /\ pc' = "executing" /\ toolCalls < MaxToolCall /\ toolCalls' = toolCalls + 1
          /\ UNCHANGED <<decisions, finalizing, finalAttempts, attempt, sent>>
        BY <1>19 DEF ReserveTool, Working, ToolUnitLeft
    <2>2. toolCalls' <= MaxToolCall
        BY <1>0, <2>1, BudgetConstants
    <2> QED BY <2>1, <2>2, SameBudget
<1>20. CASE ToolReturns
    <2>1. /\ pc = "executing" /\ pc' = "record"
          /\ UNCHANGED <<decisions, toolCalls, finalizing, finalAttempts, attempt, sent>>
        BY <1>20 DEF ToolReturns, countVars
    <2> QED BY <1>0, <2>1, SameBudget
<1>21. CASE SaveToolResult
    <2>1. /\ pc = "record" /\ pc' = "tool"
          /\ UNCHANGED <<decisions, toolCalls, finalizing, finalAttempts, attempt, sent>>
        BY <1>21 DEF SaveToolResult, Working, countVars, worldVars
    <2> QED BY <1>0, <2>1, SameBudget
<1>22. CASE UNCHANGED vars
    <2>1. UNCHANGED <<decisions, toolCalls, finalizing, finalAttempts, attempt, sent, pc>>
        BY <1>22 DEF vars, countVars, worldVars
    <2> QED BY <1>0, <2>1, SameBudget
<1> QED
    BY <1>1, <1>2, <1>3, <1>6, <1>7, <1>8, <1>9, <1>10, <1>11, <1>13, <1>14, <1>15, <1>16,
       <1>17, <1>18, <1>19, <1>20, <1>21, <1>22, <1>23 DEF Next, GoroutineStep, Generated

LEMMA LoopInit == Init => LoopTypes
<1>1. Init => queue = <<>> /\ queue \in Seq(CallIds)
    BY DEF Init
<1>2. Init => fresh \in 0..MaxCalls
    BY RunLoopAssumption DEF Init
<1>3. Init => trace \in [CallIds -> Outcomes] /\ effects \subseteq CallIds
    BY DEF Init, Outcomes
<1>4. Init => finalizing \in BOOLEAN
    BY DEF Init
<1>5. Init => blocks = <<>> /\ IsSequence(blocks)
    <2>1. <<>> \in Seq({})
        OBVIOUS
    <2>2. IsSequence(<<>>)
        BY <2>1 DEF IsSequence
    <2> QED BY <2>2 DEF Init
<1> QED BY <1>1, <1>2, <1>3, <1>4, <1>5 DEF Init, LoopTypes, Pcs

-----------------------------------------------------------------------------
(* The summaries *)

LEMMA BlocksLength ==
    ASSUME LoopTypes
    PROVE  Len(blocks) \in Nat /\ (pc # "compacted" => Len(blocks) = 0)
<1>1. PICK S : blocks \in Seq(S)
    BY DEF LoopTypes, IsSequence
<1>2. Len(<<>>) = 0
    OBVIOUS
<1> QED BY <1>1, <1>2 DEF LoopTypes

\* What the sums of SummaryInv are made of.
LEMMA CalledIs ==
    ASSUME LoopTypes, BudgetInv
    PROVE  /\ Called \in Nat /\ summaries \in Nat /\ decisions \in Nat /\ finalAttempts \in Nat /\ attempt \in Nat
           /\ decisions <= MaxLoop /\ finalAttempts <= MaxFinalizationRetries
           /\ finalizing => Called = MaxLoop + finalAttempts
           /\ ~finalizing => Called = decisions
BY BudgetConstants DEF LoopTypes, BudgetInv, Called

LEMMA EndedSummary ==
    ASSUME SummaryInv, pc' = "gone", summaries' = summaries
    PROVE  SummaryInv'
BY DEF SummaryInv

LEMMA SameSummary ==
    ASSUME LoopTypes, SummaryInv, UNCHANGED <<decisions, finalizing, finalAttempts, attempt, summaries, blocks>>,
           \/ pc' = pc
           \/ /\ pc \in {"brief", "tool", "executing", "record"}
              /\ pc' \in {"top", "tool", "executing", "record"}
           \/ pc' \in {"completed", "failed"}
    PROVE  SummaryInv'
<1>1. Called' = Called
    BY DEF Called
<1> QED BY <1>1 DEF SummaryInv

\* A rejected answer ends a call of the model.
LEMMA RejectSummary ==
    ASSUME LoopTypes, BudgetInv, SummaryInv, pc = "generating", summaries' = summaries,
           NEW said, NEW stored, Reject(said, stored)
    PROVE  SummaryInv'
<1>1. CASE pc' = "gone" /\ Reset
    BY <1>1, EndedSummary
<1>2. CASE /\ ~(Attempts >= MaxFinalizationRetries + 1)
           /\ finalizing' = TRUE /\ finalAttempts' = Attempts /\ pc' = "top"
    <2>1. /\ Called \in Nat /\ summaries \in Nat /\ decisions \in Nat /\ finalAttempts \in Nat /\ attempt \in Nat
          /\ decisions <= MaxLoop
          /\ finalizing => Called = MaxLoop + finalAttempts
          /\ ~finalizing => Called = decisions
        BY CalledIs
    <2>2. Called' = MaxLoop + Attempts
        BY <1>2 DEF Called
    <2>3. /\ attempt > 0 /\ (finalizing => summaries <= 2 * Called + 2) /\ (~finalizing => summaries <= 2 * Called)
        BY <2>1, BlocksLength DEF SummaryInv
    <2>4. Attempts = IF finalizing THEN finalAttempts + attempt ELSE 1
        BY DEF Attempts
    <2>5. summaries <= 2 * (MaxLoop + Attempts)
        <3>1. CASE finalizing
            <4>1. Attempts = finalAttempts + attempt
                BY <2>4, <3>1
            <4> QED BY <2>1, <2>3, <3>1, <4>1, BudgetConstants
        <3>2. CASE ~finalizing
            <4>1. Attempts = 1
                BY <2>4, <3>2
            <4> QED BY <2>1, <2>3, <3>2, <4>1, BudgetConstants
        <3> QED BY <3>1, <3>2
    <2> QED BY <1>2, <2>2, <2>5 DEF SummaryInv
<1> QED BY <1>1, <1>2, RejectShape

\* The history of a call is compacted, and its blocks are looked at.
LEMMA CompactSummary ==
    ASSUME LoopTypes, BudgetInv, SummaryInv, Compact \/ Summarize
    PROVE  SummaryInv'
<1>1. UNCHANGED <<decisions, finalizing, finalAttempts, attempt>> /\ pc' = "compacted"
    BY DEF Compact, Summarize, Working, countVars
<1>2. Called' = Called
    BY <1>1 DEF Called
<1>3. /\ Called \in Nat /\ summaries \in Nat /\ finalizing \in BOOLEAN /\ decisions <= MaxLoop
      /\ decisions \in Nat /\ finalAttempts \in Nat
      /\ finalAttempts <= MaxFinalizationRetries
      /\ finalizing => Called = MaxLoop + finalAttempts
      /\ ~finalizing => Called = decisions
    BY CalledIs DEF LoopTypes
<1>4. /\ summaries' + Len(blocks') <= (IF finalizing THEN 2 * Called + 2 ELSE 2 * Called)
      /\ Len(blocks') \in Nat /\ summaries' \in Nat
    <2>1. CASE Compact
        <3>1. PICK enough \in BOOLEAN : blocks' = CompactConversation(messages, enough).blocks
            BY <2>1 DEF Compact
        <3>2. Len(blocks') \in 0..2
            BY <3>1, BlocksAre
        <3>3. pc = "call" /\ attempt = 0 /\ summaries' = summaries
            BY <2>1 DEF Compact, Working, worldVars
        <3>4. (finalizing => summaries <= 2 * Called) /\ (~finalizing => summaries + 2 <= 2 * Called)
            BY <3>3 DEF SummaryInv
        <3>5. PICK n \in 0..2 : n = Len(blocks')
            BY <3>2
        <3>6. n \in Nat /\ n <= 2 /\ summaries' = summaries
            BY <3>3
        <3>7. CASE finalizing
            BY <1>3, <3>4, <3>5, <3>6, <3>7
        <3>8. CASE ~finalizing
            BY <1>3, <3>4, <3>5, <3>6, <3>8
        <3> QED BY <3>7, <3>8
    <2>2. CASE Summarize
        <3>1. pc = "compacted" /\ blocks # <<>> /\ blocks' = Tail(blocks)
            BY <2>2 DEF Summarize, Working
        <3>2. PICK S : blocks \in Seq(S)
            BY DEF LoopTypes, IsSequence
        <3>3. Len(blocks') = Len(blocks) - 1 /\ Len(blocks) \in Nat /\ Len(blocks) > 0
            BY <3>1, <3>2
        <3>4. summaries' = summaries \/ summaries' = summaries + 1
            BY <2>2 DEF Summarize
        <3>5. /\ finalizing => summaries + Len(blocks) <= 2 * Called + 2
              /\ ~finalizing => summaries + Len(blocks) <= 2 * Called
            BY <3>1 DEF SummaryInv
        <3>6. CASE finalizing
            BY <1>3, <3>3, <3>4, <3>5, <3>6
        <3>7. CASE ~finalizing
            BY <1>3, <3>3, <3>4, <3>5, <3>7
        <3> QED BY <3>6, <3>7
    <2> QED BY <2>1, <2>2
<1>5. summaries' <= 2 * (MaxLoop + MaxFinalizationRetries + 1)
    <2>1. CASE finalizing
        BY <1>3, <1>4, <2>1, BudgetConstants
    <2>2. CASE ~finalizing
        BY <1>3, <1>4, <2>2, BudgetConstants
    <2> QED BY <2>1, <2>2
<1> QED BY <1>1, <1>2, <1>4, <1>5 DEF SummaryInv

LEMMA TopSummary ==
    ASSUME LoopTypes, BudgetInv, SummaryInv, Top
    PROVE  SummaryInv'
<1>1. /\ pc = "top" /\ attempt' = 0 /\ pc' = "call" /\ UNCHANGED <<finalAttempts, summaries, blocks>>
    BY TopShape DEF Working
<1>2. /\ Called \in Nat /\ summaries \in Nat /\ decisions \in Nat /\ finalAttempts \in Nat
      /\ decisions <= MaxLoop
      /\ finalizing => Called = MaxLoop + finalAttempts
      /\ ~finalizing => Called = decisions
    BY CalledIs
<1>3. summaries <= 2 * Called /\ summaries <= 2 * (MaxLoop + MaxFinalizationRetries + 1)
    BY <1>1 DEF SummaryInv
<1>4. Len(blocks') = 0
    BY <1>1, BlocksLength
<1>5. CASE finalizing' = TRUE /\ decisions' = decisions
    <2>1. Called' = MaxLoop + finalAttempts
        BY <1>1, <1>5 DEF Called
    <2>2. summaries <= 2 * (MaxLoop + finalAttempts)
        BY <1>2, <1>3, BudgetConstants
    <2>3. summaries + 0 <= 2 * (MaxLoop + finalAttempts) + 2
        BY <1>2, <2>2, BudgetConstants
    <2> QED BY <1>1, <1>3, <1>4, <1>5, <2>1, <2>2, <2>3 DEF SummaryInv
<1>6. CASE ~finalizing /\ ~finalizing' /\ decisions' = decisions + 1
    <2>1. Called' = decisions + 1
        BY <1>6 DEF Called
    <2>2. summaries + 2 <= 2 * (decisions + 1) /\ summaries + 0 <= 2 * (decisions + 1)
        BY <1>2, <1>3, <1>6
    <2> QED BY <1>1, <1>3, <1>4, <1>6, <2>1, <2>2 DEF SummaryInv
<1>7. \/ finalizing' = TRUE /\ decisions' = decisions
      \/ ~finalizing /\ ~finalizing' /\ decisions' = decisions + 1
    BY TopShape, Zenon DEF LoopTypes
<1> QED BY <1>5, <1>6, <1>7

LEMMA SummaryStep ==
    ASSUME LoopTypes, BudgetInv, SummaryInv, [Next]_vars
    PROVE  SummaryInv'
<1>1. CASE StartRun
    <2>1. pc' = "brief" /\ summaries' = 0 /\ finalizing' = FALSE /\ decisions' = 0
        BY <1>1, ResetTypes DEF StartRun
    <2>2. Called' = 0
        BY <2>1 DEF Called
    <2> QED BY <2>1, <2>2, BudgetConstants DEF SummaryInv
<1>2. CASE Stop
    <2>1. UNCHANGED <<decisions, finalizing, finalAttempts, attempt, summaries, blocks, pc>>
        BY <1>2 DEF Stop, countVars, worldVars
    <2> QED BY <2>1, SameSummary
<1>3. CASE Crash \/ Leave \/ Fails
    BY <1>3, EndedSummary DEF Crash, Leave, Fails, EndAs, worldVars
<1>4. CASE Brief
    <2>1. /\ pc = "brief" /\ pc' = "top"
          /\ UNCHANGED <<decisions, finalizing, finalAttempts, attempt, summaries, blocks>>
        BY <1>4 DEF Brief, Working, countVars, worldVars
    <2> QED BY <2>1, SameSummary
<1>5. CASE Top
    BY <1>5, TopSummary
<1>6. CASE Compact \/ Summarize
    BY <1>6, CompactSummary
<1>7. CASE Attempt
    <2>1. /\ pc \in {"call", "compacted"} /\ pc' = "generating" /\ attempt' = attempt + 1
          /\ UNCHANGED <<decisions, finalizing, finalAttempts, summaries, blocks>>
        BY <1>7 DEF Attempt
    <2>2. Called' = Called
        BY <2>1 DEF Called
    <2>3. attempt' > 0
        BY <2>1 DEF LoopTypes
    <2>4. /\ finalizing => summaries + Len(blocks) <= 2 * Called + 2
          /\ ~finalizing => summaries + Len(blocks) <= 2 * Called
          /\ summaries <= 2 * (MaxLoop + MaxFinalizationRetries + 1)
        BY <2>1 DEF SummaryInv
    <2> QED BY <2>1, <2>2, <2>3, <2>4 DEF SummaryInv
<1>8. CASE NotDispatched
    BY <1>8, EndedSummary DEF NotDispatched, EndAs
<1>9. ASSUME NEW retryable, GenerateError(retryable)
      PROVE  SummaryInv'
    <2>1. /\ pc = "generating" /\ summaries' = summaries
          /\ \/ pc' = "call" /\ UNCHANGED <<countVars, attempt, blocks, queue>>
             \/ pc' = "gone" /\ Reset
        BY <1>9, ErrorShape DEF Working, worldVars
    <2>2. CASE pc' = "call" /\ UNCHANGED <<countVars, attempt, blocks, queue>>
        <3>1. UNCHANGED <<decisions, finalizing, finalAttempts, attempt, blocks>>
            BY <2>2 DEF countVars
        <3>2. Called' = Called
            BY <3>1 DEF Called
        <3>3. attempt > 0 /\ attempt \in Nat
            BY <2>1 DEF SummaryInv, LoopTypes
        <3>4. attempt' # 0
            BY <3>1, <3>3
        <3> QED BY <2>1, <2>2, <3>1, <3>2, <3>4 DEF SummaryInv
    <2>3. CASE pc' = "gone" /\ Reset
        BY <2>1, <2>3, EndedSummary
    <2> QED BY <2>1, <2>2, <2>3
<1>10. CASE InvalidAnswer
    <2>1. pc = "generating" /\ summaries' = summaries /\ Reject(<<Answer>>, conv)
        BY <1>10 DEF InvalidAnswer, Working, worldVars
    <2> QED BY <2>1, RejectSummary
<1>11. CASE \E status \in {"completed", "failed"} : FinalAnswer(status)
    <2>1. /\ pc' \in {"completed", "failed"}
          /\ UNCHANGED <<decisions, finalizing, finalAttempts, attempt, summaries, blocks>>
        BY <1>11 DEF FinalAnswer, countVars, worldVars
    <2> QED BY <2>1, SameSummary
<1>12. ASSUME NEW n \in 1..MaxCallsPerResponse, NEW allowed \in BOOLEAN, ToolCalls(n, allowed)
       PROVE  SummaryInv'
    <2>1. pc = "generating" /\ summaries' = summaries
        BY <1>12, ToolCallsShape DEF Working
    <2>2. CASE \E said, stored : Reject(said, stored)
        BY <2>1, <2>2, RejectSummary
    <2>3. CASE /\ ~finalizing /\ pc' = "tool" /\ UNCHANGED <<countVars, attempt, blocks>>
        <3>1. UNCHANGED <<decisions, finalizing, finalAttempts, attempt, blocks>>
            BY <2>3 DEF countVars
        <3>2. Called' = Called
            BY <3>1 DEF Called
        <3>3. summaries + Len(blocks) <= 2 * Called /\ summaries <= 2 * (MaxLoop + MaxFinalizationRetries + 1)
            BY <2>1, <2>3 DEF SummaryInv
        <3>4. summaries <= 2 * Called
            BY <2>1, <3>3, BlocksLength, CalledIs
        <3> QED BY <2>1, <2>3, <3>2, <3>3, <3>4 DEF SummaryInv
    <2> QED BY <1>12, <2>2, <2>3, ToolCallsShape
<1>13. ASSUME NEW status, EndRun(status)
       PROVE  SummaryInv'
    BY <1>13, EndedSummary DEF EndRun, EndAs, worldVars
<1>14. CASE ToolsDone
    <2>1. /\ pc = "tool" /\ pc' = "top"
          /\ UNCHANGED <<decisions, finalizing, finalAttempts, attempt, summaries, blocks>>
        BY <1>14 DEF ToolsDone, Working, countVars, worldVars
    <2> QED BY <2>1, SameSummary
<1>15. CASE ToolOverBudget
    <2>1. UNCHANGED <<decisions, finalizing, finalAttempts, attempt, summaries, blocks, pc>>
        BY <1>15 DEF ToolOverBudget, countVars, worldVars
    <2> QED BY <2>1, SameSummary
<1>16. CASE ReserveTool
    <2>1. /\ pc = "tool" /\ pc' = "executing"
          /\ UNCHANGED <<decisions, finalizing, finalAttempts, attempt, summaries, blocks>>
        BY <1>16 DEF ReserveTool, Working
    <2> QED BY <2>1, SameSummary
<1>17. CASE ToolReturns
    <2>1. /\ pc = "executing" /\ pc' = "record"
          /\ UNCHANGED <<decisions, finalizing, finalAttempts, attempt, summaries, blocks>>
        BY <1>17 DEF ToolReturns, countVars
    <2> QED BY <2>1, SameSummary
<1>18. CASE SaveToolResult
    <2>1. /\ pc = "record" /\ pc' = "tool"
          /\ UNCHANGED <<decisions, finalizing, finalAttempts, attempt, summaries, blocks>>
        BY <1>18 DEF SaveToolResult, Working, countVars, worldVars
    <2> QED BY <2>1, SameSummary
<1>19. CASE UNCHANGED vars
    <2>1. UNCHANGED <<decisions, finalizing, finalAttempts, attempt, summaries, blocks, pc>>
        BY <1>19 DEF vars, countVars, worldVars
    <2> QED BY <2>1, SameSummary
<1> QED
    BY <1>1, <1>2, <1>3, <1>4, <1>5, <1>6, <1>7, <1>8, <1>9, <1>10, <1>11, <1>12, <1>13, <1>14, <1>15,
       <1>16, <1>17, <1>18, <1>19 DEF Next, GoroutineStep, Generated

\* runAgent, callModel and compactContext: for every limit of the Session, whatever
\* the model answers and wherever errors come, a Run takes no more decisions, tools
\* and attempts than the limits allow, and sends no more requests: neither for
\* answers nor for summaries of its history.
THEOREM BudgetsAreKept == Spec => []BudgetsHold
<1>1. Init => LoopTypes /\ BudgetInv /\ SummaryInv
    <2> SUFFICES ASSUME Init PROVE BudgetInv /\ SummaryInv
        BY LoopInit
    <2>1. /\ pc = "gone" /\ sent = 0 /\ decisions = 0 /\ toolCalls = 0 /\ finalizing = FALSE
          /\ finalAttempts = 0 /\ summaries = 0
        BY DEF Init
    <2>2. Paid /\ SummaryInv
        BY <2>1, BudgetConstants DEF Paid, SummaryInv
    <2> QED BY <2>1, <2>2, BudgetConstants DEF BudgetInv
<1>2. LoopTypes /\ BudgetInv /\ SummaryInv /\ [Next]_vars => (LoopTypes /\ BudgetInv /\ SummaryInv)'
    BY TypesStep, BudgetStep, SummaryStep
<1>3. LoopTypes /\ BudgetInv /\ SummaryInv => BudgetsHold
    <2> SUFFICES ASSUME LoopTypes, BudgetInv, SummaryInv PROVE BudgetsHold
        OBVIOUS
    <2>1. decisions <= MaxLoop /\ toolCalls <= MaxToolCall /\ (pc = "generating" => attempt <= AttemptLimit)
        BY DEF BudgetInv
    <2>2. pc = "generating" /\ finalizing => finalAttempts + attempt <= MaxFinalizationRetries + 1
        <3>1. AttemptLimit = IF finalizing THEN MaxFinalizationRetries + 1 - finalAttempts
                                           ELSE MaxModelGenerateRetries + 1
            BY DEF AttemptLimit
        <3>2. finalAttempts \in Nat /\ attempt \in Nat
            BY DEF LoopTypes
        <3> QED BY <2>1, <3>1, <3>2, BudgetConstants
    <2>3. sent <= MaxLoop * (MaxModelGenerateRetries + 1) + MaxFinalizationRetries + 1
        BY DEF BudgetInv, Paid, Granted
    <2>4. summaries <= 2 * (MaxLoop + MaxFinalizationRetries + 1)
        BY DEF SummaryInv
    <2> QED BY <2>1, <2>2, <2>3, <2>4 DEF BudgetsHold
<1> QED BY <1>1, <1>2, <1>3, PTL DEF Spec

-----------------------------------------------------------------------------
(* The records *)

\* A goroutine that ends, also one that leaves before a request was sent.
LEMMA EndedOnRecord ==
    ASSUME LoopTypes, RecordInv, pc' = "gone", Reset, modelCount' = sent',
           UNCHANGED <<fresh, effects, trace>>
    PROVE  RecordInv'
<1>1. toolCalls' = 0 /\ queue' = <<>>
    BY DEF Reset
<1>2. CountInv'
    BY <1>1 DEF CountInv
<1>3. QueueInv'
    BY <1>1 DEF QueueInv
<1>4. TraceInv'
    BY DEF RecordInv, TraceInv
<1> QED BY <1>2, <1>3, <1>4 DEF RecordInv

\* A step that records nothing, with the calls still to be handled left alone.
LEMMA SameRecord ==
    ASSUME LoopTypes, RecordInv, pc # "gone" \/ pc' = pc, pc' # "gone" \/ pc' = pc,
           UNCHANGED <<modelCount, toolCount, modelCalls, toolCalls, sent, fresh, effects, trace, queue>>,
           pc' = pc \/ queue = <<>>
    PROVE  RecordInv'
<1>1. CountInv' /\ TraceInv'
    BY DEF RecordInv, CountInv, TraceInv
<1>2. QueueInv'
    BY DEF RecordInv, QueueInv
<1> QED BY <1>1, <1>2 DEF RecordInv

\* A rejected answer, with calls that were all denied and are new.
LEMMA RejectOnRecord ==
    ASSUME LoopTypes, RecordInv, pc = "generating", UNCHANGED <<sent, effects>>,
           NEW n \in Nat, fresh' = fresh + n,
           \A c \in CallIds : c <= fresh => trace'[c] = trace[c],
           NEW said, NEW stored, Reject(said, stored)
    PROVE  RecordInv'
<1>1. fresh \in Nat /\ effects \subseteq CallIds /\ queue \in Seq(CallIds)
    BY DEF LoopTypes
<1>2. CountInv /\ QueueInv /\ TraceInv
    BY DEF RecordInv
<1>3. TraceInv'
    <2> SUFFICES ASSUME NEW c \in effects PROVE c <= fresh' /\ trace'[c] \in {"unknown", "ok"}
        BY DEF TraceInv
    <2>1. c \in CallIds /\ c \in Int /\ c <= fresh /\ trace[c] \in {"unknown", "ok"}
        BY <1>1, <1>2 DEF TraceInv, CallIds
    <2> QED BY <1>1, <2>1
<1>4. queue = <<>>
    BY <1>2 DEF QueueInv, Handling
<1>5. queue' = <<>>
    BY <1>4, RejectShape DEF Reset
<1>6. QueueInv'
    BY <1>5 DEF QueueInv
<1>7. CountInv'
    <2>1. UNCHANGED <<modelCount, toolCount>>
        BY RejectShape
    <2>2. CASE pc' = "gone" /\ Reset
        BY <1>2, <2>1, <2>2 DEF CountInv, Reset
    <2>3. CASE pc' = "top" /\ UNCHANGED <<decisions, modelCalls, toolCalls, attempt, queue>>
        BY <1>2, <2>1, <2>3 DEF CountInv
    <2> QED BY <2>2, <2>3, RejectShape
<1> QED BY <1>3, <1>6, <1>7 DEF RecordInv

\* The calls of a response are to be handled.
LEMMA AskedOnRecord ==
    ASSUME LoopTypes, RecordInv, pc = "generating", pc' = "tool", UNCHANGED <<sent, effects>>,
           NEW n \in Nat, fresh + n <= MaxCalls, fresh' = fresh + n, queue' = NewCalls(n),
           UNCHANGED <<modelCount, toolCount, modelCalls, toolCalls, trace>>
    PROVE  RecordInv'
<1>1. fresh \in Nat /\ effects \subseteq CallIds
    BY DEF LoopTypes
<1>2. CountInv /\ TraceInv
    BY DEF RecordInv
<1>3. Len(queue') = n /\ \A k \in 1..n : queue'[k] = fresh + k
    BY NewCallsAre
<1>4. \A c \in effects : c \in Int /\ c <= fresh
    BY <1>1, <1>2 DEF TraceInv, CallIds
<1>5. QueueInv'
    <2>1. \A k \in 1..n : queue'[k] = fresh' - n + k
        BY <1>1, <1>3
    <2>2. \A k \in 1..n : queue'[k] \notin effects'
        BY <1>1, <1>3, <1>4
    <2>3. pc' \in Handling
        BY DEF Handling
    <2> QED BY <1>3, <2>1, <2>2, <2>3 DEF QueueInv
<1>6. TraceInv'
    BY <1>1, <1>2, <1>4 DEF TraceInv
<1>7. CountInv'
    BY <1>2 DEF CountInv
<1> QED BY <1>5, <1>6, <1>7 DEF RecordInv

\* The first call leaves the queue; if its effect is uncertain the trace says so.
LEMMA HandledOnRecord ==
    ASSUME LoopTypes, RecordInv, pc \in Handling, pc' = "tool", queue # <<>>, queue' = Tail(queue),
           UNCHANGED <<modelCount, toolCount, modelCalls, toolCalls, sent, fresh, effects>>,
           \A c \in effects : trace'[c] = trace[c]
    PROVE  RecordInv'
<1>1. CountInv /\ QueueInv /\ TraceInv
    BY DEF RecordInv
<1>2. /\ Len(queue) \in Nat \ {0} /\ Len(queue') = Len(queue) - 1
      /\ \A k \in 1..(Len(queue) - 1) : queue'[k] = queue[k + 1]
    BY QueueParts
<1>3. fresh \in Int
    BY DEF LoopTypes
<1>4. \A k \in 1..Len(queue') : queue'[k] = fresh' - Len(queue') + k
    BY <1>1, <1>2, <1>3 DEF QueueInv
<1>5. \A k \in 1..Len(queue') : queue'[k] \notin effects'
    BY <1>1, <1>2 DEF QueueInv
<1>6. QueueInv'
    BY <1>4, <1>5 DEF QueueInv, Handling
<1>7. TraceInv' /\ CountInv'
    BY <1>1 DEF TraceInv, CountInv, Handling
<1> QED BY <1>6, <1>7 DEF RecordInv

LEMMA ReservedOnRecord ==
    ASSUME LoopTypes, RecordInv, ReserveTool
    PROVE  RecordInv'
<1>1. CountInv /\ QueueInv /\ TraceInv
    BY DEF RecordInv
<1>2. /\ pc = "tool" /\ queue # <<>> /\ toolCalls' = toolCalls + 1 /\ toolCount' = toolCalls'
      /\ trace' = [trace EXCEPT ![Head(queue)] = "unknown"] /\ effects' = effects \cup {Head(queue)}
      /\ pc' = "executing" /\ UNCHANGED <<modelCount, modelCalls, sent, fresh, queue>>
    BY DEF ReserveTool, Working
<1>3. /\ Head(queue) \in CallIds /\ Head(queue) = queue[1] /\ Len(queue) \in Nat \ {0}
      /\ fresh \in Nat /\ trace \in [CallIds -> Outcomes] /\ effects \subseteq CallIds
    BY <1>2, QueueParts DEF LoopTypes
<1>4. queue[1] = fresh - Len(queue) + 1
    BY <1>1, <1>3 DEF QueueInv
<1>5. \A k \in 1..Len(queue) : queue[k] = queue[1] => k = 1
    BY <1>1, <1>3, <1>4 DEF QueueInv
<1>6. QueueInv'
    <2>1. \A k \in 1..Len(queue) : queue[k] \in effects' => k = 1
        BY <1>1, <1>2, <1>3, <1>5 DEF QueueInv
    <2>2. \A k \in 1..Len(queue) : queue[k] = fresh - Len(queue) + k
        BY <1>1 DEF QueueInv
    <2> QED BY <1>2, <2>1, <2>2 DEF QueueInv, Handling
<1>7. TraceInv'
    <2> SUFFICES ASSUME NEW c \in effects' PROVE c <= fresh' /\ trace'[c] \in {"unknown", "ok"}
        BY DEF TraceInv
    <2>1. CASE c = Head(queue)
        BY <1>2, <1>3, <1>4, <2>1
    <2>2. CASE c \in effects /\ c # Head(queue)
        BY <1>1, <1>2, <1>3, <2>2 DEF TraceInv
    <2> QED BY <1>2, <2>1, <2>2
<1>8. CountInv'
    BY <1>1, <1>2 DEF CountInv
<1> QED BY <1>6, <1>7, <1>8 DEF RecordInv

LEMMA ReturnedOnRecord ==
    ASSUME LoopTypes, RecordInv, ToolReturns
    PROVE  RecordInv'
<1>1. CountInv /\ QueueInv /\ TraceInv
    BY DEF RecordInv
<1>2. /\ pc = "executing" /\ pc' = "record"
      /\ UNCHANGED <<modelCount, toolCount, modelCalls, toolCalls, sent, fresh, queue>>
    BY DEF ToolReturns, countVars
<1>3. PICK r \in ToolAnswers(Head(queue)) :
        /\ effects' = IF r.outcome = "not_executed" THEN effects \ {Head(queue)} ELSE effects
        /\ trace' = IF row = "running" THEN [trace EXCEPT ![Head(queue)] = r.outcome] ELSE trace
    BY DEF ToolReturns
<1>4. r.outcome \in {"ok", "unknown", "not_executed"}
    BY AnswersAre
<1>5. trace \in [CallIds -> Outcomes] /\ effects \subseteq CallIds /\ effects' \subseteq effects
    BY <1>3 DEF LoopTypes
<1>6. QueueInv'
    BY <1>1, <1>2, <1>5 DEF QueueInv, Handling
<1>7. TraceInv'
    <2> SUFFICES ASSUME NEW c \in effects' PROVE c <= fresh' /\ trace'[c] \in {"unknown", "ok"}
        BY DEF TraceInv
    <2>1. c \in CallIds /\ c <= fresh /\ trace[c] \in {"unknown", "ok"}
        BY <1>1, <1>5 DEF TraceInv
    <2>2. trace'[c] = trace[c] \/ (c = Head(queue) /\ trace'[c] = r.outcome)
        BY <1>3, <1>5, <2>1
    <2>3. c = Head(queue) => r.outcome # "not_executed"
        BY <1>3
    <2> QED BY <1>2, <1>4, <2>1, <2>2, <2>3
<1>8. CountInv'
    BY <1>1, <1>2 DEF CountInv
<1> QED BY <1>6, <1>7, <1>8 DEF RecordInv

LEMMA RecordStep ==
    ASSUME LoopTypes, RecordInv, [Next]_vars
    PROVE  RecordInv'
<1>0. CountInv /\ QueueInv /\ TraceInv
    BY DEF RecordInv
<1>1. CASE StartRun
    <2>1. /\ pc' = "brief" /\ modelCount' = 0 /\ toolCount' = 0 /\ sent' = 0 /\ modelCalls' = 0 /\ toolCalls' = 0
          /\ queue' = <<>> /\ UNCHANGED <<fresh, effects, trace>>
        BY <1>1, ResetTypes DEF StartRun
    <2>2. CountInv' /\ QueueInv' /\ TraceInv'
        BY <1>0, <2>1 DEF CountInv, QueueInv, TraceInv
    <2> QED BY <2>2 DEF RecordInv
<1>2. CASE Stop
    <2>1. UNCHANGED <<modelCount, toolCount, modelCalls, toolCalls, sent, fresh, effects, trace, queue, pc>>
        BY <1>2 DEF Stop, countVars, worldVars
    <2> QED BY <2>1, SameRecord
<1>3. CASE Crash \/ Leave \/ Fails
    <2>1. pc' = "gone" /\ Reset /\ UNCHANGED <<modelCount, sent, fresh, effects, trace>>
        BY <1>3 DEF Crash, Leave, Fails, EndAs, dbVars, worldVars
    <2>2. modelCount' = sent'
        BY <1>0, <2>1 DEF CountInv
    <2> QED BY <2>1, <2>2, EndedOnRecord
<1>6. CASE Brief
    <2>1. /\ pc = "brief" /\ pc' = "top"
          /\ UNCHANGED <<modelCount, toolCount, modelCalls, toolCalls, sent, fresh, effects, trace, queue>>
        BY <1>6 DEF Brief, Working, countVars, worldVars
    <2>2. queue = <<>>
        BY <1>0, <2>1 DEF QueueInv, Handling
    <2> QED BY <2>1, <2>2, SameRecord
<1>7. CASE Top
    <2>1. /\ pc = "top" /\ pc' = "call"
          /\ UNCHANGED <<modelCount, toolCount, modelCalls, toolCalls, sent, fresh, effects, trace, queue>>
        BY <1>7, TopShape DEF Working
    <2>2. queue = <<>>
        BY <1>0, <2>1 DEF QueueInv, Handling
    <2> QED BY <2>1, <2>2, SameRecord
<1>8. CASE Compact
    <2>1. /\ pc = "call" /\ pc' = "compacted"
          /\ UNCHANGED <<modelCount, toolCount, modelCalls, toolCalls, sent, fresh, effects, trace, queue>>
        BY <1>8 DEF Compact, Working, dbVars, countVars, worldVars
    <2>2. queue = <<>>
        BY <1>0, <2>1 DEF QueueInv, Handling
    <2> QED BY <2>1, <2>2, SameRecord
<1>23. CASE Summarize
    <2>1. UNCHANGED <<modelCount, toolCount, modelCalls, toolCalls, sent, fresh, effects, trace, queue, pc>>
        BY <1>23 DEF Summarize, dbVars, countVars
    <2> QED BY <2>1, SameRecord
<1>9. CASE Attempt
    <2>1. /\ pc \in {"call", "compacted"} /\ pc' = "generating" /\ sent' = sent + 1 /\ modelCalls' = modelCalls + 1
          /\ modelCount' = modelCalls' /\ UNCHANGED <<toolCount, toolCalls, fresh, effects, trace, queue>>
        BY <1>9 DEF Attempt
    <2>2. queue = <<>> /\ modelCalls = sent
        BY <1>0, <2>1 DEF QueueInv, CountInv, Handling
    <2>3. CountInv' /\ QueueInv' /\ TraceInv'
        BY <1>0, <2>1, <2>2 DEF CountInv, QueueInv, TraceInv
    <2> QED BY <2>3 DEF RecordInv
<1>10. CASE NotDispatched
    <2>1. /\ pc = "generating" /\ pc' = "gone" /\ Reset /\ sent' = sent - 1 /\ modelCount' = modelCalls - 1
          /\ UNCHANGED <<fresh, effects, trace>>
        BY <1>10 DEF NotDispatched, Working, EndAs
    <2>2. modelCount' = sent'
        BY <1>0, <2>1 DEF CountInv
    <2> QED BY <2>1, <2>2, EndedOnRecord
<1>11. CASE \E retryable \in BOOLEAN : GenerateError(retryable)
    <2>1. pc = "generating" /\ UNCHANGED <<modelCount, toolCount, trace, fresh, sent, effects>>
        BY <1>11, ErrorShape DEF Working, worldVars
    <2>2. CASE pc' = "call" /\ UNCHANGED <<countVars, attempt, blocks, queue>>
        <3>1. UNCHANGED <<modelCalls, toolCalls, queue>>
            BY <2>2 DEF countVars
        <3>2. queue = <<>>
            BY <1>0, <2>1 DEF QueueInv, Handling
        <3> QED BY <2>1, <2>2, <3>1, <3>2, SameRecord
    <2>3. CASE pc' = "gone" /\ Reset
        <3>1. modelCount' = sent'
            BY <1>0, <2>1 DEF CountInv
        <3> QED BY <2>1, <2>3, <3>1, EndedOnRecord
    <2> QED BY <1>11, <2>2, <2>3, ErrorShape
<1>13. CASE InvalidAnswer
    <2>1. pc = "generating" /\ UNCHANGED <<sent, effects, fresh, trace>> /\ Reject(<<Answer>>, conv)
        BY <1>13 DEF InvalidAnswer, Working, worldVars
    <2>2. fresh' = fresh + 0
        BY <2>1 DEF LoopTypes
    <2> QED BY <2>1, <2>2, RejectOnRecord
<1>14. CASE \E status \in {"completed", "failed"} : FinalAnswer(status)
    <2>1. /\ pc = "generating" /\ pc' # "gone"
          /\ UNCHANGED <<modelCount, toolCount, modelCalls, toolCalls, sent, fresh, effects, trace, queue>>
        BY <1>14 DEF FinalAnswer, Working, countVars, worldVars
    <2>2. queue = <<>>
        BY <1>0, <2>1 DEF QueueInv, Handling
    <2> QED BY <2>1, <2>2, SameRecord
<1>15. ASSUME NEW n \in 1..MaxCallsPerResponse, NEW allowed \in BOOLEAN, ToolCalls(n, allowed)
       PROVE  RecordInv'
    <2>1. /\ pc = "generating" /\ UNCHANGED <<sent, effects>>
          /\ fresh + n <= MaxCalls /\ fresh' = fresh + n
        BY <1>15, ToolCallsShape DEF Working
    <2>2. n \in Nat
        BY RunLoopAssumption
    <2>3. CASE /\ \E said, stored : Reject(said, stored)
               /\ trace' = [c \in CallIds |-> IF c \in ToSet(NewCalls(n)) THEN "not_executed" ELSE trace[c]]
        <3>1. \A c \in CallIds : c <= fresh => trace'[c] = trace[c]
            <4> SUFFICES ASSUME NEW c \in CallIds, c <= fresh PROVE c \notin ToSet(NewCalls(n))
                BY <2>3
            <4>1. ToSet(NewCalls(n)) = {fresh + k : k \in 1..n}
                BY <2>1, <2>2, NewCallsAre
            <4>2. fresh \in Nat /\ c \in Nat
                BY RunLoopAssumption DEF LoopTypes, CallIds
            <4> QED BY <2>2, <4>1, <4>2
        <3> QED BY <2>1, <2>2, <2>3, <3>1, RejectOnRecord
    <2>4. CASE /\ queue' = NewCalls(n) /\ pc' = "tool"
               /\ UNCHANGED <<modelCount, toolCount, trace, countVars, attempt, blocks>>
        <3>1. UNCHANGED <<modelCount, toolCount, modelCalls, toolCalls, trace>>
            BY <2>4 DEF countVars
        <3> QED BY <2>1, <2>2, <2>4, <3>1, AskedOnRecord
    <2> QED BY <1>15, <2>3, <2>4, ToolCallsShape
<1>16. CASE \E status \in {"completed", "failed"} : EndRun(status)
    <2>1. pc' = "gone" /\ Reset /\ UNCHANGED <<modelCount, sent, fresh, effects, trace>>
        BY <1>16 DEF EndRun, EndAs, worldVars
    <2>2. modelCount' = sent'
        BY <1>0, <2>1 DEF CountInv
    <2> QED BY <2>1, <2>2, EndedOnRecord
<1>17. CASE ToolsDone
    <2>1. /\ pc = "tool" /\ pc' = "top" /\ queue = <<>>
          /\ UNCHANGED <<modelCount, toolCount, modelCalls, toolCalls, sent, fresh, effects, trace, queue>>
        BY <1>17 DEF ToolsDone, Working, dbVars, countVars, worldVars
    <2> QED BY <2>1, SameRecord
<1>18. CASE ToolOverBudget
    <2>1. /\ pc = "tool" /\ pc' = pc /\ queue # <<>> /\ queue' = Tail(queue)
          /\ trace' = [trace EXCEPT ![Head(queue)] = "not_executed"]
          /\ UNCHANGED <<modelCount, toolCount, modelCalls, toolCalls, sent, fresh, effects>>
        BY <1>18 DEF ToolOverBudget, Working, countVars, worldVars
    <2>2. Head(queue) = queue[1] /\ 1 \in 1..Len(queue)
        BY <2>1, QueueParts
    <2>3. Head(queue) \notin effects
        BY <1>0, <2>1, <2>2 DEF QueueInv
    <2>4. \A c \in effects : trace'[c] = trace[c]
        BY <2>1, <2>3 DEF LoopTypes
    <2> QED BY <2>1, <2>4, HandledOnRecord DEF Handling
<1>19. CASE ReserveTool
    BY <1>19, ReservedOnRecord
<1>20. CASE ToolReturns
    BY <1>20, ReturnedOnRecord
<1>21. CASE SaveToolResult
    <2>1. /\ pc = "record" /\ pc' = "tool" /\ queue' = Tail(queue)
          /\ UNCHANGED <<modelCount, toolCount, modelCalls, toolCalls, sent, fresh, effects, trace>>
        BY <1>21 DEF SaveToolResult, Working, countVars, worldVars
    <2>2. queue # <<>>
        BY <2>1 DEF LoopTypes
    <2> QED BY <2>1, <2>2, HandledOnRecord DEF Handling
<1>22. CASE UNCHANGED vars
    <2>1. UNCHANGED <<modelCount, toolCount, modelCalls, toolCalls, sent, fresh, effects, trace, queue, pc>>
        BY <1>22 DEF vars, dbVars, countVars, worldVars
    <2> QED BY <2>1, SameRecord
<1> QED
    BY <1>1, <1>2, <1>3, <1>6, <1>7, <1>8, <1>9, <1>10, <1>11, <1>13, <1>14, <1>15, <1>16,
       <1>17, <1>18, <1>19, <1>20, <1>21, <1>22, <1>23 DEF Next, GoroutineStep, Generated

LEMMA RecordInit == Init => RecordInv
<1> SUFFICES ASSUME Init PROVE RecordInv
    OBVIOUS
<1>1. CountInv /\ QueueInv /\ TraceInv
    BY DEF Init, CountInv, QueueInv, TraceInv
<1> QED BY <1>1 DEF RecordInv

\* runAgent: wherever a stop, an error or a crash cuts the Run, its row has
\* counted every request sent for a decision or a terminal attempt (those of
\* compactContext, for summaries, are counted nowhere) and every tool started, and
\* the progress trace does not call a tool "not executed" that may have taken effect.
THEOREM RecordsAreComplete == Spec => []RecordsCoverTheWork
<1>1. Init => LoopTypes /\ RecordInv
    BY LoopInit, RecordInit
<1>2. LoopTypes /\ RecordInv /\ [Next]_vars => (LoopTypes /\ RecordInv)'
    BY TypesStep, RecordStep
<1>3. LoopTypes /\ RecordInv => RecordsCoverTheWork
    <2> SUFFICES ASSUME LoopTypes, RecordInv PROVE RecordsCoverTheWork
        OBVIOUS
    <2>1. modelCount >= sent /\ toolCount >= toolCalls
        BY DEF LoopTypes, RecordInv, CountInv
    <2> QED BY <2>1 DEF RecordInv, TraceInv, RecordsCoverTheWork
<1> QED BY <1>1, <1>2, <1>3, PTL DEF Spec

-----------------------------------------------------------------------------
(* Conversations.  What the model's operators on sequences compute, for any    *)
(* conversation; induction is on positions, as the least one where a claim     *)
(* fails.                                                                      *)

LEMMA LeastElement ==
    ASSUME NEW S \in SUBSET Nat, S # {}
    PROVE  \E n \in S : \A m \in S : n <= m
<1> DEFINE R == OpToRel(<, Nat)
<1>1. IsWellFoundedOn(R, Nat)
    BY NatLessThanWellFounded
<1> HIDE DEF R
<1>2. PICK n \in S : \A m \in S : ~(<<m, n>> \in R)
    BY <1>1, WFMin, Zenon
<1>3. \A m \in S : ~(m < n)
    BY <1>2 DEF OpToRel, R
<1> QED BY <1>3

\* The least number at which a claim fails.
LEMMA LeastFailure ==
    ASSUME NEW n \in Nat, NEW Good \in SUBSET (0..n), 0 \in Good,
           \A k \in 1..n : k - 1 \in Good => k \in Good
    PROVE  Good = 0..n
<1> DEFINE Bad == (0..n) \ Good
<1> SUFFICES ASSUME Bad # {} PROVE FALSE
    OBVIOUS
<1>1. Bad \in SUBSET Nat
    OBVIOUS
<1>2. PICK k \in Bad : \A m \in Bad : k <= m
    BY <1>1, LeastElement
<1>3. k \in 1..n /\ k - 1 \in 0..n /\ ~(k <= k - 1)
    OBVIOUS
<1>4. k - 1 \in Good
    BY <1>2, <1>3
<1> QED BY <1>3, <1>4

\* The calls of one turn have ids of their own.
IdSequences == {s \in Seq(CallIds) : \A k, n \in DOMAIN s : s[k] = s[n] => k = n}

ErrorTexts == {"", "rejected", "long", "TOOL_TIMEOUT", "TOOL_DISABLED", "MAX_TOOL_CALL_REACHED", "RUN_INTERRUPTED"}
              \union LongErrors

Results == [kind : {"result"}, call : CallIds, error : ErrorTexts, outcome : Outcomes, stands : SUBSET CallIds]

Plain == {Wake, ChatMention, Instruction, Answer} \union {History(l) : l \in SUBSET CallIds}

\* Every message that the loop, a fold or a digest can leave behind.
MessageSet == Plain \union {Calls(s) : s \in IdSequences} \union Results

\* The kind of a message says which fields it has.
LEMMA Kinds ==
    /\ \A m \in Plain : m.kind \in {"wake", "mention", "instruction", "answer", "history"}
    /\ \A m \in Plain : m.kind = "history" => m.lines \in SUBSET CallIds
    /\ \A m \in MessageSet : m.kind = "calls" => m.calls \in IdSequences
    /\ \A m \in MessageSet : m.kind = "result" => m \in Results
    /\ \A m \in MessageSet : m.kind \notin {"calls", "result"} => m \in Plain
    /\ \A s \in IdSequences : Calls(s) \in MessageSet /\ Calls(s).kind = "calls" /\ Calls(s).calls = s
    /\ \A m \in Results : m.kind = "result" /\ m.call \in CallIds /\ m.stands \in SUBSET CallIds /\ m \in MessageSet
    /\ {Wake, ChatMention, Instruction, Answer} \subseteq Plain
    /\ Plain \subseteq MessageSet
<1>1. \A m \in Plain : m.kind \in {"wake", "mention", "instruction", "answer", "history"}
    BY DEF Plain, Wake, ChatMention, Instruction, Answer, History
<1>2. \A m \in Plain : m.kind = "history" => m.lines \in SUBSET CallIds
    BY DEF Plain, Wake, ChatMention, Instruction, Answer, History
<1>3. \A s \in IdSequences : Calls(s) \in MessageSet /\ Calls(s).kind = "calls" /\ Calls(s).calls = s
    BY DEF MessageSet, Calls
<1>4. \A m \in Results : m.kind = "result" /\ m.call \in CallIds /\ m.stands \in SUBSET CallIds /\ m \in MessageSet
    BY DEF Results, MessageSet
<1>5. \A m \in MessageSet : m \in Plain \/ m \in Results \/ \E s \in IdSequences : m = Calls(s)
    BY DEF MessageSet
<1>6. \A m \in MessageSet : m.kind = "calls" => m.calls \in IdSequences
    BY <1>1, <1>3, <1>4, <1>5
<1>7. \A m \in MessageSet : m.kind = "result" => m \in Results
    BY <1>1, <1>3, <1>5
<1>8. \A m \in MessageSet : m.kind \notin {"calls", "result"} => m \in Plain
    BY <1>3, <1>4, <1>5
<1> QED BY <1>1, <1>2, <1>3, <1>4, <1>6, <1>7, <1>8 DEF Plain, MessageSet

\* The calls of a conversation that wait for a result behind position j.
Open(q, j) ==
    LET i == CallsOf(q, j)
    IN  IF i = 0 THEN {} ELSE {c \in ToSet(q[i].calls) : \A k \in (i + 1)..j : q[k].call # c}

Pending(q) == Open(q, Len(q))

\* Every result answers a call that waits for one, and nothing else comes
\* before all have been answered.
Sound(q) ==
    \A j \in DOMAIN q : IF q[j].kind = "result" THEN q[j].call \in Open(q, j - 1) ELSE Open(q, j - 1) = {}

\* CallsOf and Open, position by position.
Reaches(q, i, j) == i \in 1..j /\ q[i].kind = "calls" /\ \A k \in (i + 1)..j : q[k].kind = "result"

LEMMA CallsOfIs ==
    ASSUME NEW q \in Seq(MessageSet), NEW j \in 0..Len(q)
    PROVE  /\ CallsOf(q, j) = 0 => \A i \in 1..j : ~Reaches(q, i, j)
           /\ CallsOf(q, j) # 0 => Reaches(q, CallsOf(q, j), j)
           /\ \A i : Reaches(q, i, j) => CallsOf(q, j) = i
<1> DEFINE I == {i \in 1..j : q[i].kind = "calls" /\ \A k \in (i + 1)..j : q[k].kind = "result"}
<1>1. \A i : i \in I <=> Reaches(q, i, j)
    BY DEF Reaches
<1>2. CallsOf(q, j) = IF I = {} THEN 0 ELSE CHOOSE i \in I : TRUE
    BY DEF CallsOf
<1>3. \A i \in I : i \in Nat /\ i # 0
    OBVIOUS
<1>4. ASSUME NEW a \in I, NEW b \in I, a < b PROVE FALSE
    <2>1. b \in (a + 1)..j /\ q[b].kind = "calls"
        BY <1>4
    <2>2. q[b].kind = "result"
        BY <1>4, <2>1
    <2> QED BY <2>1, <2>2
<1>5. \A a, b \in I : a = b
    BY <1>3, <1>4
<1> HIDE DEF I
<1>6. I # {} => (CHOOSE i \in I : TRUE) \in I
    OBVIOUS
<1> QED BY <1>1, <1>2, <1>3, <1>5, <1>6

\* What waits behind a prefix, position by position.
LEMMA OpenStart ==
    ASSUME NEW q \in Seq(MessageSet)
    PROVE  CallsOf(q, 0) = 0 /\ Open(q, 0) = {}
<1>1. 0 \in 0..Len(q) /\ \A i : ~Reaches(q, i, 0)
    BY DEF Reaches
<1>2. CallsOf(q, 0) = 0
    BY <1>1, CallsOfIs
<1> QED BY <1>2 DEF Open

LEMMA OpenStep ==
    ASSUME NEW q \in Seq(MessageSet), NEW j \in 1..Len(q)
    PROVE  /\ q[j].kind = "calls" => CallsOf(q, j) = j /\ Open(q, j) = ToSet(q[j].calls)
           /\ q[j].kind = "result" => CallsOf(q, j) = CallsOf(q, j - 1) /\ Open(q, j) = Open(q, j - 1) \ {q[j].call}
           /\ q[j].kind \notin {"calls", "result"} => CallsOf(q, j) = 0 /\ Open(q, j) = {}
<1>0. j \in 0..Len(q) /\ j - 1 \in 0..Len(q) /\ j \in Nat /\ j # 0
    OBVIOUS
<1>1. CASE q[j].kind = "calls"
    <2>1. Reaches(q, j, j)
        BY <1>0, <1>1 DEF Reaches
    <2>2. CallsOf(q, j) = j
        BY <1>0, <2>1, CallsOfIs
    <2>3. Open(q, j) = {c \in ToSet(q[j].calls) : \A k \in (j + 1)..j : q[k].call # c}
        BY <1>0, <2>2 DEF Open
    <2>4. (j + 1)..j = {}
        BY <1>0
    <2>5. Open(q, j) = ToSet(q[j].calls)
        BY <2>3, <2>4
    <2> QED BY <1>1, <2>2, <2>5
<1>2. CASE q[j].kind = "result"
    <2>1. \A i : Reaches(q, i, j) <=> Reaches(q, i, j - 1)
        <3>1. ASSUME NEW i, Reaches(q, i, j) PROVE Reaches(q, i, j - 1)
            <4>1. i \in 1..j /\ i # j
                BY <1>2, <3>1 DEF Reaches
            <4> QED BY <1>0, <3>1, <4>1 DEF Reaches
        <3>2. ASSUME NEW i, Reaches(q, i, j - 1) PROVE Reaches(q, i, j)
            <4>1. i \in 1..(j - 1) /\ \A k \in (i + 1)..j : k \in (i + 1)..(j - 1) \/ k = j
                BY <1>0, <3>2 DEF Reaches
            <4> QED BY <1>0, <1>2, <3>2, <4>1 DEF Reaches
        <3> QED BY <3>1, <3>2
    <2>2. CallsOf(q, j) = CallsOf(q, j - 1)
        <3>1. CASE CallsOf(q, j) = 0
            <4>1. \A i : ~Reaches(q, i, j)
                BY <1>0, <3>1, CallsOfIs DEF Reaches
            <4> QED BY <1>0, <2>1, <3>1, <4>1, CallsOfIs
        <3>2. CASE CallsOf(q, j) # 0
            BY <1>0, <2>1, <3>2, CallsOfIs
        <3> QED BY <3>1, <3>2
    <2> DEFINE i == CallsOf(q, j)
    <2>3. CASE i = 0
        BY <1>2, <2>2, <2>3 DEF Open
    <2>4. CASE i # 0
        <3>1. i \in 1..(j - 1)
            BY <1>0, <2>1, <2>4, CallsOfIs DEF Reaches
        <3> HIDE DEF i
        <3>2. \A k \in (i + 1)..j : k \in (i + 1)..(j - 1) \/ k = j
            BY <1>0, <3>1
        <3>3. (i + 1)..(j - 1) \subseteq (i + 1)..j /\ j \in (i + 1)..j
            BY <1>0, <3>1
        <3>4. Open(q, j) = {c \in ToSet(q[i].calls) : \A k \in (i + 1)..j : q[k].call # c}
            BY <2>4 DEF Open, i
        <3>5. Open(q, j - 1) = {c \in ToSet(q[i].calls) : \A k \in (i + 1)..(j - 1) : q[k].call # c}
            BY <2>2, <2>4 DEF Open, i
        <3>6. Open(q, j) = Open(q, j - 1) \ {q[j].call}
            BY <3>2, <3>3, <3>4, <3>5
        <3> QED BY <1>2, <2>2, <3>6
    <2> QED BY <1>2, <2>2, <2>3, <2>4
<1>3. CASE q[j].kind \notin {"calls", "result"}
    <2>1. ASSUME NEW i, Reaches(q, i, j) PROVE FALSE
        <3>1. i \in 1..j /\ i # j
            BY <1>3, <2>1 DEF Reaches
        <3>2. j \in (i + 1)..j
            BY <1>0, <3>1
        <3> QED BY <1>3, <2>1, <3>2 DEF Reaches
    <2>2. CallsOf(q, j) = 0
        BY <1>0, <2>1, CallsOfIs
    <2> QED BY <1>3, <2>2 DEF Open
<1> QED BY <1>1, <1>2, <1>3

\* Messages that are alike leave the same calls open.
Alike(m, x) == m.kind = x.kind /\ (m.kind = "calls" => m.calls = x.calls) /\ (m.kind = "result" => m.call = x.call)

\* n messages of q behind a are like those of r behind b, or the same as the first ones of r.
MatchAt(q, a, r, b, n) ==
    a + n <= Len(q) /\ b + n <= Len(r) /\ \A k \in 1..n : Alike(q[a + k], r[b + k])

BeginsAt(q, a, r, n) == a + n <= Len(q) /\ n <= Len(r) /\ \A k \in 1..n : q[a + k] = r[k]

LEMMA OpenAlike ==
    ASSUME NEW q \in Seq(MessageSet), NEW r \in Seq(MessageSet), NEW a \in Nat, NEW b \in Nat, NEW n \in Nat,
           MatchAt(q, a, r, b, n), Open(q, a) = Open(r, b)
    PROVE  \A k \in 0..n : Open(q, a + k) = Open(r, b + k)
<1>0. a + n <= Len(q) /\ b + n <= Len(r) /\ \A k \in 1..n : Alike(q[a + k], r[b + k])
    BY DEF MatchAt
<1> DEFINE Good == {k \in 0..n : Open(q, a + k) = Open(r, b + k)}
<1>1. 0 \in Good
    <2>1. a + 0 = a /\ b + 0 = b /\ 0 \in 0..n
        OBVIOUS
    <2> QED BY <2>1
<1>2. ASSUME NEW k \in 1..n, k - 1 \in Good PROVE k \in Good
    <2>1. k \in 0..n /\ a + k \in 1..Len(q) /\ b + k \in 1..Len(r) /\ a + (k - 1) = (a + k) - 1 /\ b + (k - 1) = (b + k) - 1
        BY <1>0
    <2>2. Open(q, (a + k) - 1) = Open(r, (b + k) - 1)
        BY <1>2, <2>1
    <2> DEFINE x == q[a + k]
               y == r[b + k]
    <2>3. Alike(x, y)
        BY <1>0
    <2> HIDE DEF x, y
    <2>4. CASE x.kind = "calls"
        <3>1. y.kind = "calls" /\ y.calls = x.calls
            BY <2>3, <2>4 DEF Alike
        <3>2. Open(q, a + k) = ToSet(x.calls) /\ Open(r, b + k) = ToSet(y.calls)
            BY <2>1, <2>4, <3>1, OpenStep DEF x, y
        <3> QED BY <2>1, <3>1, <3>2
    <2>5. CASE x.kind = "result"
        <3>1. Open(q, a + k) = Open(q, (a + k) - 1) \ {x.call}
            BY <2>1, <2>5, OpenStep DEF x
        <3>2. y.kind = "result" /\ y.call = x.call
            BY <2>3, <2>5 DEF Alike
        <3>3. Open(r, b + k) = Open(r, (b + k) - 1) \ {y.call}
            BY <2>1, <3>2, OpenStep DEF y
        <3> QED BY <2>1, <2>2, <3>1, <3>2, <3>3
    <2>6. CASE x.kind \notin {"calls", "result"}
        <3>1. y.kind \notin {"calls", "result"}
            BY <2>3, <2>6 DEF Alike
        <3>2. Open(q, a + k) = {} /\ Open(r, b + k) = {}
            BY <2>1, <2>6, <3>1, OpenStep DEF x, y
        <3> QED BY <2>1, <3>2
    <2> QED BY <2>4, <2>5, <2>6
<1>3. Good \in SUBSET (0..n)
    OBVIOUS
<1> HIDE DEF Good
<1>4. Good = 0..n
    BY <1>1, <1>2, <1>3, LeastFailure
<1> QED BY <1>4 DEF Good

\* A part of one conversation is the beginning of another.
LEMMA OpenBehind ==
    ASSUME NEW q \in Seq(MessageSet), NEW r \in Seq(MessageSet), NEW a \in Nat, NEW n \in Nat,
           BeginsAt(q, a, r, n), Open(q, a) = {}
    PROVE  \A j \in 0..n : Open(q, a + j) = Open(r, j)
<1>0. a + n <= Len(q) /\ n <= Len(r) /\ \A k \in 1..n : q[a + k] = r[k]
    BY DEF BeginsAt
<1>1. PICK z \in Nat : z = 0
    OBVIOUS
<1>2. \A j \in 0..n : z + j = j
    BY <1>1
<1>3. \A k \in 1..n : Alike(q[a + k], r[z + k])
    <2> SUFFICES ASSUME NEW k \in 1..n PROVE Alike(q[a + k], r[z + k])
        OBVIOUS
    <2>1. z + k = k
        BY <1>1
    <2> QED BY <1>0, <2>1 DEF Alike
<1>4. MatchAt(q, a, r, z, n)
    BY <1>0, <1>1, <1>3 DEF MatchAt
<1>5. Open(q, a) = Open(r, z)
    BY <1>1, OpenStart
<1>6. \A j \in 0..n : Open(q, a + j) = Open(r, z + j)
    BY <1>4, <1>5, OpenAlike
<1> QED BY <1>2, <1>6

LEMMA OpenBegins ==
    ASSUME NEW q \in Seq(MessageSet), NEW r \in Seq(MessageSet), NEW n \in Nat,
           n <= Len(q), n <= Len(r), \A k \in 1..n : q[k] = r[k]
    PROVE  \A j \in 0..n : Open(q, j) = Open(r, j)
<1>1. \A j \in 0..n : 0 + j = j
    OBVIOUS
<1>2. \A k \in 1..n : q[0 + k] = r[k]
    <2> SUFFICES ASSUME NEW k \in 1..n PROVE q[0 + k] = r[k]
        OBVIOUS
    <2>1. 0 + k = k
        OBVIOUS
    <2> QED BY <2>1
<1>3. BeginsAt(q, 0, r, n)
    BY <1>2 DEF BeginsAt
<1>4. Open(q, 0) = {} /\ 0 \in Nat
    BY OpenStart
<1>5. \A j \in 0..n : Open(q, 0 + j) = Open(r, j)
    BY <1>3, <1>4, OpenBehind
<1> QED BY <1>1, <1>5

\* A message behind a conversation.
LEMMA AppendSound ==
    ASSUME NEW q \in Seq(MessageSet), NEW x \in MessageSet
    PROVE  /\ Append(q, x) \in Seq(MessageSet) /\ Len(Append(q, x)) = Len(q) + 1
           /\ \A j \in 0..Len(q) : Open(Append(q, x), j) = Open(q, j)
           /\ x.kind = "calls" => Pending(Append(q, x)) = ToSet(x.calls)
           /\ x.kind = "result" => Pending(Append(q, x)) = Pending(q) \ {x.call}
           /\ x.kind \notin {"calls", "result"} => Pending(Append(q, x)) = {}
           /\ Sound(q) /\ x.kind = "result" /\ x.call \in Pending(q) => Sound(Append(q, x))
           /\ Sound(q) /\ x.kind # "result" /\ Pending(q) = {} => Sound(Append(q, x))
<1> DEFINE r == Append(q, x)
           n == Len(q)
<1>1. r \in Seq(MessageSet) /\ Len(r) = n + 1 /\ n \in Nat /\ r[n + 1] = x /\ \A k \in 1..n : r[k] = q[k]
    OBVIOUS
<1>2. DOMAIN r = 1..(n + 1) /\ DOMAIN q = 1..n
    BY <1>1
<1> HIDE DEF r
<1>3. \A j \in 0..n : Open(r, j) = Open(q, j)
    BY <1>1, OpenBegins
<1>4. n + 1 \in 1..Len(r) /\ (n + 1) - 1 = n /\ n \in 0..n
    BY <1>1
<1>5. /\ x.kind = "calls" => Open(r, n + 1) = ToSet(x.calls)
      /\ x.kind = "result" => Open(r, n + 1) = Open(r, n) \ {x.call}
      /\ x.kind \notin {"calls", "result"} => Open(r, n + 1) = {}
    BY <1>1, <1>4, OpenStep
<1>6. Pending(r) = Open(r, n + 1) /\ Pending(q) = Open(q, n) /\ Open(r, n) = Open(q, n)
    BY <1>1, <1>3, <1>4 DEF Pending
<1>7. ASSUME Sound(q), IF x.kind = "result" THEN x.call \in Pending(q) ELSE Pending(q) = {} PROVE Sound(r)
    <2> SUFFICES ASSUME NEW j \in 1..(n + 1)
                 PROVE  IF r[j].kind = "result" THEN r[j].call \in Open(r, j - 1) ELSE Open(r, j - 1) = {}
        BY <1>2 DEF Sound
    <2>1. CASE j = n + 1
        BY <1>1, <1>4, <1>6, <1>7, <2>1
    <2>2. CASE j # n + 1
        <3>1. j \in 1..n /\ j - 1 \in 0..n
            BY <1>1, <2>2
        <3>2. r[j] = q[j] /\ Open(r, j - 1) = Open(q, j - 1)
            BY <1>1, <1>3, <3>1
        <3>3. IF q[j].kind = "result" THEN q[j].call \in Open(q, j - 1) ELSE Open(q, j - 1) = {}
            BY <1>2, <1>7, <3>1 DEF Sound
        <3> QED BY <3>2, <3>3
    <2> QED BY <2>1, <2>2
<1> QED BY <1>1, <1>3, <1>5, <1>6, <1>7 DEF r

\* The first k messages of a conversation.
LEMMA PrefixSound ==
    ASSUME NEW q \in Seq(MessageSet), NEW n \in 0..Len(q)
    PROVE  /\ SubSeq(q, 1, n) \in Seq(MessageSet) /\ Len(SubSeq(q, 1, n)) = n
           /\ \A k \in 1..n : SubSeq(q, 1, n)[k] = q[k]
           /\ \A j \in 0..n : Open(SubSeq(q, 1, n), j) = Open(q, j)
           /\ Pending(SubSeq(q, 1, n)) = Open(q, n)
           /\ Sound(q) => Sound(SubSeq(q, 1, n))
<1> DEFINE r == SubSeq(q, 1, n)
<1>0. n \in Nat /\ n <= Len(q) /\ Len(q) \in Nat
    OBVIOUS
<1>1. r \in Seq(MessageSet) /\ Len(r) = n /\ \A k \in 1..n : r[k] = q[k]
    <2>1. \A k \in 1..n : q[k] \in MessageSet
        BY <1>0
    <2> QED BY <1>0, <2>1, SubSeqProperties
<1>2. DOMAIN r = 1..n /\ DOMAIN q = 1..Len(q)
    BY <1>1
<1> HIDE DEF r
<1>3. \A j \in 0..n : Open(r, j) = Open(q, j)
    BY <1>0, <1>1, OpenBegins
<1>4. Pending(r) = Open(q, n)
    BY <1>0, <1>1, <1>3 DEF Pending
<1>5. ASSUME Sound(q) PROVE Sound(r)
    <2>1. \A j \in 1..n : j \in DOMAIN q /\ j - 1 \in 0..n /\ r[j] = q[j]
        BY <1>0, <1>1
    <2> QED BY <1>2, <1>3, <1>5, <2>1 DEF Sound
<1> QED BY <1>1, <1>3, <1>4, <1>5 DEF r

\* A conversation behind one that waits for nothing.
LEMMA ConcatSound ==
    ASSUME NEW p \in Seq(MessageSet), NEW r \in Seq(MessageSet), Sound(p), Sound(r), Pending(p) = {}
    PROVE  p \o r \in Seq(MessageSet) /\ Sound(p \o r) /\ Pending(p \o r) = Pending(r)
<1> DEFINE q == p \o r
           a == Len(p)
           n == Len(r)
<1>1. /\ q \in Seq(MessageSet) /\ Len(q) = a + n /\ a \in Nat /\ n \in Nat
      /\ \A k \in 1..a : q[k] = p[k]
      /\ \A k \in 1..n : q[a + k] = r[k]
    OBVIOUS
<1>2. DOMAIN q = 1..(a + n) /\ DOMAIN p = 1..a /\ DOMAIN r = 1..n
    BY <1>1
<1>10. Open(p, a) = {} /\ a <= Len(p) /\ a <= a + n /\ n <= Len(r) /\ a + n <= a + n /\ a \in 0..a
    BY <1>1 DEF Pending
<1> HIDE DEF q, a, n
<1>3. \A j \in 0..a : Open(q, j) = Open(p, j)
    BY <1>1, <1>10, OpenBegins, SMTT(30)
<1>4. \A j \in 0..n : Open(q, a + j) = Open(r, j)
    <2>1. Open(q, a) = {}
        BY <1>3, <1>10
    <2>2. BeginsAt(q, a, r, n)
        BY <1>1, <1>10 DEF BeginsAt
    <2> QED BY <1>1, <2>1, <2>2, OpenBehind
<1>5. Pending(q) = Pending(r)
    BY <1>1, <1>4 DEF Pending, n
<1>6. Sound(q)
    <2> SUFFICES ASSUME NEW j \in 1..(a + n)
                 PROVE  IF q[j].kind = "result" THEN q[j].call \in Open(q, j - 1) ELSE Open(q, j - 1) = {}
        BY <1>2 DEF Sound
    <2>1. CASE j <= a
        <3>1. j \in 1..a /\ j - 1 \in 0..a
            BY <1>1, <2>1
        <3>2. q[j] = p[j] /\ Open(q, j - 1) = Open(p, j - 1)
            BY <1>1, <1>3, <3>1
        <3>3. IF p[j].kind = "result" THEN p[j].call \in Open(p, j - 1) ELSE Open(p, j - 1) = {}
            BY <1>2, <3>1 DEF Sound
        <3> QED BY <3>2, <3>3
    <2>2. CASE ~(j <= a)
        <3> DEFINE k == j - a
        <3>1. k \in 1..n /\ k - 1 \in 0..n /\ j = a + k /\ j - 1 = a + (k - 1)
            BY <1>1, <2>2
        <3> HIDE DEF k
        <3>2. q[j] = r[k] /\ Open(q, j - 1) = Open(r, k - 1)
            BY <1>1, <1>4, <3>1
        <3>3. IF r[k].kind = "result" THEN r[k].call \in Open(r, k - 1) ELSE Open(r, k - 1) = {}
            BY <1>2, <3>1 DEF Sound
        <3> QED BY <3>2, <3>3
    <2> QED BY <2>1, <2>2
<1> QED BY <1>1, <1>5, <1>6 DEF q

\* The rest of a conversation from a message that waits for nothing.
LEMMA SuffixSound ==
    ASSUME NEW q \in Seq(MessageSet), NEW a \in 1..Len(q), Sound(q), q[a].kind # "result"
    PROVE  /\ SubSeq(q, a, Len(q)) \in Seq(MessageSet) /\ Sound(SubSeq(q, a, Len(q)))
           /\ Pending(SubSeq(q, a, Len(q))) = Pending(q)
<1> DEFINE r == SubSeq(q, a, Len(q))
           b == a - 1
           n == Len(q) - b
<1>0. a \in Nat /\ b \in Nat /\ n \in Nat /\ n # 0 /\ Len(q) \in Nat /\ b + n = Len(q)
    OBVIOUS
<1>1. r \in Seq(MessageSet) /\ Len(r) = n /\ \A k \in 1..n : r[k] = q[b + k]
    <2>1. \A k \in a..Len(q) : q[k] \in MessageSet
        BY <1>0
    <2>2. /\ SubSeq(q, a, Len(q)) \in Seq(MessageSet)
          /\ Len(SubSeq(q, a, Len(q))) = Len(q) - a + 1
          /\ \A i \in 1..(Len(q) - a + 1) : SubSeq(q, a, Len(q))[i] = q[a + i - 1]
        BY <1>0, <2>1, SubSeqProperties
    <2>3. Len(q) - a + 1 = n /\ \A i \in 1..n : a + i - 1 = b + i
        BY <1>0
    <2> QED BY <2>2, <2>3
<1>2. DOMAIN r = 1..n /\ DOMAIN q = 1..Len(q)
    BY <1>1
<1> HIDE DEF r
<1>3. Open(q, b) = {}
    BY <1>2 DEF Sound
<1>4. \A j \in 0..n : Open(q, b + j) = Open(r, j)
    <2>1. BeginsAt(q, b, r, n)
        BY <1>0, <1>1 DEF BeginsAt
    <2> HIDE DEF b, n
    <2> QED BY <1>0, <1>1, <1>3, <2>1, OpenBehind
<1>5. Pending(r) = Pending(q)
    BY <1>0, <1>1, <1>4 DEF Pending
<1>6. Sound(r)
    <2> SUFFICES ASSUME NEW k \in 1..n
                 PROVE  IF r[k].kind = "result" THEN r[k].call \in Open(r, k - 1) ELSE Open(r, k - 1) = {}
        BY <1>2 DEF Sound
    <2>1. k - 1 \in 0..n /\ b + k \in 1..Len(q) /\ b + (k - 1) = (b + k) - 1
        BY <1>0
    <2> HIDE DEF b, n
    <2>2. r[k] = q[b + k] /\ Open(r, k - 1) = Open(q, (b + k) - 1)
        BY <1>1, <1>4, <2>1
    <2>3. IF q[b + k].kind = "result" THEN q[b + k].call \in Open(q, (b + k) - 1) ELSE Open(q, (b + k) - 1) = {}
        BY <1>2, <2>1 DEF Sound
    <2> QED BY <2>2, <2>3
<1> QED BY <1>1, <1>5, <1>6 DEF r

-----------------------------------------------------------------------------
(* FlattenSeq, whose recursion is over positions. *)

FlatTo(s) == CHOOSE f : f = [i \in 1..Len(s) |-> IF i = 1 THEN s[i] ELSE f[i - 1] \o s[i]]

\* The recursive definition has a solution.
LEMMA FlatEquation ==
    ASSUME NEW S, NEW s \in Seq(S)
    PROVE  FlatTo(s) = [i \in 1..Len(s) |-> IF i = 1 THEN s[i] ELSE FlatTo(s)[i - 1] \o s[i]]
<1> DEFINE Solves(f, n) == f = [i \in 1..n |-> IF i = 1 THEN s[i] ELSE f[i - 1] \o s[i]]
           Good == {n \in 0..Len(s) : \E f : Solves(f, n)}
<1>0. Len(s) \in Nat
    OBVIOUS
<1>1. 0 \in Good
    <2> DEFINE f == [i \in 1..0 |-> <<>>]
    <2>1. f = [i \in 1..0 |-> IF i = 1 THEN s[i] ELSE f[i - 1] \o s[i]]
        OBVIOUS
    <2>2. 0 \in 0..Len(s)
        BY <1>0
    <2> HIDE DEF f
    <2>3. \E g : Solves(g, 0)
        BY <2>1
    <2> QED BY <2>2, <2>3
<1>2. ASSUME NEW n \in 1..Len(s), n - 1 \in Good PROVE n \in Good
    <2>1. PICK f : Solves(f, n - 1)
        BY <1>2
    <2>2. n \in Nat /\ n # 0
        BY <1>0
    <2> DEFINE g == [i \in 1..n |-> IF i = n THEN (IF i = 1 THEN s[i] ELSE f[n - 1] \o s[n]) ELSE f[i]]
    <2>3. ASSUME NEW i \in 1..n PROVE g[i] = IF i = 1 THEN s[i] ELSE g[i - 1] \o s[i]
        <3>1. CASE i = n
            <4>1. i # 1 => i - 1 \in 1..n /\ i - 1 # n
                BY <2>2, <3>1
            <4> QED BY <3>1, <4>1
        <3>2. CASE i # n
            <4>1. i \in 1..(n - 1)
                BY <2>2, <3>2
            <4>2. g[i] = f[i]
                BY <3>2
            <4>3. f[i] = IF i = 1 THEN s[i] ELSE f[i - 1] \o s[i]
                BY <2>1, <4>1
            <4>4. i # 1 => i - 1 \in 1..n /\ i - 1 # n
                BY <2>2, <4>1
            <4>5. i # 1 => g[i - 1] = f[i - 1]
                BY <4>4
            <4> QED BY <4>2, <4>3, <4>5
        <3> QED BY <3>1, <3>2
    <2>4. g = [i \in 1..n |-> g[i]]
        OBVIOUS
    <2> HIDE DEF g
    <2>5. g = [i \in 1..n |-> IF i = 1 THEN s[i] ELSE g[i - 1] \o s[i]]
        BY <2>3, <2>4
    <2>6. n \in 0..Len(s)
        BY <1>0
    <2> QED BY <2>5, <2>6
<1>3. Good \in SUBSET (0..Len(s))
    BY Zenon
<1> HIDE DEF Solves
<1> HIDE DEF Good
<1>4. Len(s) \in Good
    BY <1>0, <1>1, <1>2, <1>3, LeastFailure
<1>5. \E f : f = [i \in 1..Len(s) |-> IF i = 1 THEN s[i] ELSE f[i - 1] \o s[i]]
    BY <1>4 DEF Good, Solves
<1> QED BY <1>5, Zenon DEF FlatTo

FlatAt(s, i) == IF i = 0 THEN <<>> ELSE FlatTo(s)[i]

LEMMA FlatSteps ==
    ASSUME NEW S, NEW s \in Seq(Seq(S))
    PROVE  /\ FlattenSeq(s) = FlatAt(s, Len(s)) /\ FlatAt(s, 0) = <<>>
           /\ \A i \in 0..Len(s) : FlatAt(s, i) \in Seq(S)
           /\ \A i \in 1..Len(s) : FlatAt(s, i) = FlatAt(s, i - 1) \o s[i]
<1>0. Len(s) \in Nat /\ \A i \in 1..Len(s) : s[i] \in Seq(S)
    OBVIOUS
<1> DEFINE f == FlatTo(s)
<1>1. f = [i \in 1..Len(s) |-> IF i = 1 THEN s[i] ELSE f[i - 1] \o s[i]]
    BY FlatEquation
<1> HIDE DEF f
<1>2. \A i \in 1..Len(s) : f[i] = IF i = 1 THEN s[i] ELSE f[i - 1] \o s[i]
    BY <1>1
<1>3. FlattenSeq(s) = IF Len(s) = 0 THEN s ELSE f[Len(s)]
    BY DEF FlattenSeq, FlatTo, f
<1>4. Len(s) = 0 => s = <<>>
    OBVIOUS
<1>5. FlattenSeq(s) = FlatAt(s, Len(s)) /\ FlatAt(s, 0) = <<>>
    BY <1>3, <1>4 DEF FlatAt, f
<1>6. \A i \in 1..Len(s) : FlatAt(s, i) = FlatAt(s, i - 1) \o s[i]
    <2> SUFFICES ASSUME NEW i \in 1..Len(s) PROVE FlatAt(s, i) = FlatAt(s, i - 1) \o s[i]
        OBVIOUS
    <2>1. i \in Nat /\ i # 0
        BY <1>0
    <2>2. CASE i = 1
        <3>1. FlatAt(s, i) = s[i] /\ FlatAt(s, i - 1) = <<>>
            BY <1>2, <2>1, <2>2 DEF FlatAt, f
        <3>2. <<>> \o s[i] = s[i]
            BY <1>0, ConcatEmptySeq
        <3> QED BY <3>1, <3>2
    <2>3. CASE i # 1
        <3>1. FlatAt(s, i) = f[i] /\ FlatAt(s, i - 1) = f[i - 1]
            BY <2>1, <2>3 DEF FlatAt, f
        <3> QED BY <1>2, <2>3, <3>1
    <2> QED BY <2>2, <2>3
<1>7. \A i \in 0..Len(s) : FlatAt(s, i) \in Seq(S)
    <2> DEFINE Good == {i \in 0..Len(s) : FlatAt(s, i) \in Seq(S)}
    <2>1. 0 \in Good
        <3>1. 0 \in 0..Len(s)
            BY <1>0
        <3>2. FlatAt(s, 0) \in Seq(S)
            BY <1>5, EmptySeq
        <3> QED BY <3>1, <3>2
    <2>2. ASSUME NEW k \in 1..Len(s), k - 1 \in Good PROVE k \in Good
        <3>1. FlatAt(s, k - 1) \in Seq(S) /\ s[k] \in Seq(S) /\ k \in 0..Len(s)
            BY <1>0, <2>2
        <3>2. FlatAt(s, k - 1) \o s[k] \in Seq(S)
            BY <3>1, ConcatProperties
        <3> QED BY <1>6, <3>1, <3>2
    <2>3. Good \in SUBSET (0..Len(s))
        OBVIOUS
    <2> HIDE DEF Good
    <2>4. Good = 0..Len(s)
        BY <1>0, <2>1, <2>2, <2>3, LeastFailure
    <2> QED BY <2>4 DEF Good
<1> QED BY <1>5, <1>6, <1>7

-----------------------------------------------------------------------------
(* What a conversation remembers. *)

Lines(m) == IF m.kind = "result" THEN KeptLines(m) ELSE IF m.kind = "history" THEN m.lines ELSE {}

LEMMA RememberedIs ==
    ASSUME NEW q \in Seq(MessageSet)
    PROVE  /\ \A c : c \in Remembered(q) <=> \E i \in 1..Len(q) : c \in Lines(q[i])
           /\ FoldMessages(q) = History(Remembered(q))
<1>1. \A m \in MessageSet : Lines(m) = IF m.kind = "history" THEN m.lines ELSE IF m.kind = "result" THEN KeptLines(m) ELSE {}
    BY DEF Lines
<1>2. ToSet(q) = {q[i] : i \in 1..Len(q)} /\ ToSet(q) \subseteq MessageSet
    BY DEF ToSet
<1>3. Remembered(q) = UNION {Lines(m) : m \in ToSet(q)}
    BY Zenon DEF Remembered, Lines
<1>4. {IF m.kind = "history" THEN m.lines ELSE IF m.kind = "result" THEN KeptLines(m) ELSE {} : m \in ToSet(q)}
      = {Lines(m) : m \in ToSet(q)}
    BY <1>1, <1>2
<1>5. FoldMessages(q) = History(Remembered(q))
    BY <1>3, <1>4, Zenon DEF FoldMessages
<1>6. \A c : c \in Remembered(q) <=> \E m \in ToSet(q) : c \in Lines(m)
    BY <1>3, Zenon
<1>7. \A c : (\E m \in ToSet(q) : c \in Lines(m)) <=> \E i \in 1..Len(q) : c \in Lines(q[i])
    BY <1>2, Zenon
<1> QED BY <1>5, <1>6, <1>7, Zenon

LEMMA RememberedConcat ==
    ASSUME NEW p \in Seq(MessageSet), NEW r \in Seq(MessageSet)
    PROVE  Remembered(p \o r) = Remembered(p) \union Remembered(r)
<1> DEFINE q == p \o r
           a == Len(p)
           n == Len(r)
<1>1. /\ q \in Seq(MessageSet) /\ Len(q) = a + n /\ a \in Nat /\ n \in Nat
      /\ \A k \in 1..a : q[k] = p[k]
      /\ \A k \in 1..n : q[a + k] = r[k]
    OBVIOUS
<1> HIDE DEF q
<1>2. ASSUME NEW c PROVE c \in Remembered(q) <=> c \in Remembered(p) \union Remembered(r)
    <2>1. ASSUME c \in Remembered(q) PROVE c \in Remembered(p) \union Remembered(r)
        <3>1. PICK i \in 1..Len(q) : c \in Lines(q[i])
            BY <1>1, <2>1, RememberedIs
        <3> HIDE DEF a, n
        <3>2. CASE i <= a
            <4>1. i \in 1..a /\ q[i] = p[i]
                BY <1>1, <3>2
            <4> QED BY <3>1, <4>1, RememberedIs DEF a
        <3>3. CASE ~(i <= a)
            <4>1. i - a \in 1..n /\ a + (i - a) = i
                BY <1>1, <3>3
            <4>2. q[i] = r[i - a]
                BY <1>1, <4>1
            <4> QED BY <3>1, <4>1, <4>2, RememberedIs DEF n
        <3> QED BY <3>2, <3>3
    <2>2. ASSUME c \in Remembered(p) PROVE c \in Remembered(q)
        <3>1. PICK i \in 1..a : c \in Lines(p[i])
            BY <2>2, RememberedIs
        <3>2. i \in 1..Len(q) /\ q[i] = p[i]
            BY <1>1
        <3> QED BY <1>1, <3>1, <3>2, RememberedIs
    <2>3. ASSUME c \in Remembered(r) PROVE c \in Remembered(q)
        <3>1. PICK i \in 1..n : c \in Lines(r[i])
            BY <2>3, RememberedIs
        <3> HIDE DEF a, n
        <3>2. a + i \in 1..Len(q) /\ q[a + i] = r[i]
            BY <1>1
        <3> QED BY <1>1, <3>1, <3>2, RememberedIs
    <2> QED BY <2>1, <2>2, <2>3
<1> QED BY <1>2 DEF q

LEMMA RememberedOne ==
    ASSUME NEW m \in MessageSet
    PROVE  <<m>> \in Seq(MessageSet) /\ Remembered(<<m>>) = Lines(m) /\ Remembered(<<>>) = {}
<1>1. <<m>> \in Seq(MessageSet) /\ Len(<<m>>) = 1 /\ <<m>>[1] = m /\ <<>> \in Seq(MessageSet) /\ Len(<<>>) = 0
    OBVIOUS
<1>2. PICK s \in Seq(MessageSet) : s = <<m>>
    BY <1>1
<1>3. \A c : c \in Remembered(s) <=> c \in Lines(m)
    <2>1. \A c : c \in Remembered(s) <=> \E i \in 1..Len(s) : c \in Lines(s[i])
        BY RememberedIs
    <2>2. 1..Len(s) = {1} /\ s[1] = m
        BY <1>1, <1>2
    <2> QED BY <2>1, <2>2
<1>4. PICK e \in Seq(MessageSet) : e = <<>> /\ Len(e) = 0
    BY <1>1
<1>5. \A c : c \notin Remembered(e)
    <2>1. \A c : c \in Remembered(e) <=> \E i \in 1..Len(e) : c \in Lines(e[i])
        BY RememberedIs
    <2>2. 1..Len(e) = {}
        BY <1>4
    <2> QED BY <2>1, <2>2
<1>6. Remembered(s) = Lines(m)
    BY <1>3
<1> QED BY <1>1, <1>2, <1>4, <1>5, <1>6

LEMMA RememberedAppend ==
    ASSUME NEW q \in Seq(MessageSet), NEW m \in MessageSet
    PROVE  Remembered(Append(q, m)) = Remembered(q) \union Lines(m)
<1>1. Append(q, m) = q \o <<m>>
    OBVIOUS
<1> QED BY <1>1, RememberedConcat, RememberedOne

-----------------------------------------------------------------------------
(* completeToolResults *)

\* Only the calls that wait at the end of a sound conversation are completed.
LEMMA UnansweredAre ==
    ASSUME NEW q \in Seq(MessageSet), Sound(q)
    PROVE  /\ \A j \in 1..Len(q) : j < Len(q) => Unanswered(q, j) = {}
           /\ Unanswered(q, Len(q)) = Pending(q)
<1>0. Len(q) \in Nat /\ DOMAIN q = 1..Len(q) /\ ~(Len(q) < Len(q))
    OBVIOUS
<1>1. Unanswered(q, Len(q)) = Pending(q)
    BY <1>0 DEF Unanswered, Pending, Open
<1>2. ASSUME NEW j \in 1..Len(q), j < Len(q) PROVE Unanswered(q, j) = {}
    <2>1. CASE q[j + 1].kind = "result"
        BY <1>2, <2>1 DEF Unanswered
    <2>2. CASE q[j + 1].kind # "result"
        <3>1. j + 1 \in DOMAIN q /\ (j + 1) - 1 = j
            BY <1>0, <1>2
        <3>2. Open(q, j) = {}
            BY <2>2, <3>1 DEF Sound
        <3> QED BY <2>2, <3>2 DEF Unanswered, Open
    <2> QED BY <2>1, <2>2
<1> QED BY <1>1, <1>2

LEMMA UnknownIs ==
    ASSUME NEW c \in CallIds
    PROVE  /\ Unknown(c) \in Results /\ Unknown(c).kind = "result" /\ Unknown(c).call = c
           /\ Lines(Unknown(c)) = {c} \intersect Mutations
<1>1. Unknown(c) = [kind |-> "result", call |-> c, error |-> "RUN_INTERRUPTED", outcome |-> "unknown", stands |-> {c}]
    BY DEF Unknown, Result
<1>2. PICK u : u = Unknown(c)
    OBVIOUS
<1>3. /\ u.kind = "result" /\ u.call = c /\ u.error = "RUN_INTERRUPTED" /\ u.outcome = "unknown" /\ u.stands = {c}
      /\ u \in Results
    <2>1. PICK own \in SUBSET CallIds : own = {c}
        OBVIOUS
    <2>2. u = [kind |-> "result", call |-> c, error |-> "RUN_INTERRUPTED", outcome |-> "unknown", stands |-> own]
        BY <1>1, <1>2, <2>1
    <2>3. "RUN_INTERRUPTED" \in ErrorTexts /\ "unknown" \in Outcomes
        BY DEF ErrorTexts, Outcomes
    <2>4. u \in Results
        BY <2>2, <2>3 DEF Results
    <2> QED BY <2>1, <2>2, <2>4
<1>4. KeptLines(u) = {c} \intersect Mutations
    BY <1>3 DEF KeptLines
<1> QED BY <1>2, <1>3, <1>4 DEF Lines

\* The results of the first k calls of ids, when the calls of P wait.
Answering(ids, P) == [n \in DOMAIN ids |-> IF ids[n] \in P THEN <<Unknown(ids[n])>> ELSE <<>>]

LEMMA AnsweringSteps ==
    ASSUME NEW q \in Seq(MessageSet), Sound(q), NEW ids \in IdSequences, Pending(q) \subseteq ToSet(ids)
    PROVE  LET r == FlattenSeq(Answering(ids, Pending(q)))
           IN  /\ r \in Seq(MessageSet) /\ Sound(q \o r) /\ Pending(q \o r) = {}
               /\ Remembered(q \o r) = Remembered(q) \union (Pending(q) \intersect Mutations)
<1> DEFINE P == Pending(q)
           t == Answering(ids, P)
           F(k) == FlatAt(t, k)
           Done(k) == {ids[n] : n \in 1..k}
<1>0. /\ ids \in Seq(CallIds) /\ Len(ids) \in Nat /\ DOMAIN ids = 1..Len(ids)
      /\ \A k, n \in 1..Len(ids) : ids[k] = ids[n] => k = n
      /\ \A k \in 1..Len(ids) : ids[k] \in CallIds
    BY DEF IdSequences
<1>1. \A c \in CallIds : <<Unknown(c)>> \in Seq(MessageSet) /\ <<>> \in Seq(MessageSet)
    BY UnknownIs, Kinds
<1>2. \A n \in 1..Len(ids) : (IF ids[n] \in P THEN <<Unknown(ids[n])>> ELSE <<>>) \in Seq(MessageSet)
    BY <1>0, <1>1
<1>3. t \in [1..Len(ids) -> Seq(MessageSet)]
    BY <1>0, <1>2 DEF Answering
<1>4. t \in Seq(Seq(MessageSet)) /\ Len(t) = Len(ids)
    BY <1>0, <1>3
<1>5. \A n \in 1..Len(ids) : t[n] = IF ids[n] \in P THEN <<Unknown(ids[n])>> ELSE <<>>
    BY <1>0 DEF Answering
<1> HIDE DEF t, P, F
<1>6. /\ FlattenSeq(t) = F(Len(ids)) /\ F(0) = <<>>
      /\ \A k \in 0..Len(ids) : F(k) \in Seq(MessageSet)
      /\ \A k \in 1..Len(ids) : F(k) = F(k - 1) \o t[k]
    BY <1>4, FlatSteps DEF F
<1> DEFINE Claim(k) == /\ Sound(q \o F(k)) /\ Pending(q \o F(k)) = P \ Done(k)
                       /\ Remembered(q \o F(k)) = Remembered(q) \union (P \intersect Done(k) \intersect Mutations)
           Good == {k \in 0..Len(ids) : Claim(k)}
<1>7. 0 \in Good
    <2>1. q \o F(0) = q /\ 0 \in 0..Len(ids)
        BY <1>0, <1>6
    <2>2. Done(0) = {}
        OBVIOUS
    <2>3. Claim(0)
        BY <2>1, <2>2 DEF P
    <2> QED BY <2>1, <2>3
<1>8. ASSUME NEW k \in 1..Len(ids), k - 1 \in Good PROVE k \in Good
    <2>0. k \in 0..Len(ids) /\ k - 1 \in 0..Len(ids) /\ k \in Nat
        BY <1>0
    <2>1. Claim(k - 1)
        BY <1>8
    <2>2. PICK c \in CallIds : c = ids[k]
        BY <1>0
    <2>3. Done(k) = Done(k - 1) \union {c}
        <3>1. 1..k = 1..(k - 1) \union {k}
            BY <2>0
        <3> QED BY <2>2, <3>1
    <2>4. c \notin Done(k - 1)
        <3>1. \A n \in 1..(k - 1) : n \in 1..Len(ids) /\ n # k
            BY <1>0
        <3> QED BY <1>0, <2>2, <3>1
    <2>5. PICK g \in Seq(MessageSet) : g = q \o F(k - 1)
        <3>1. F(k - 1) \in Seq(MessageSet)
            BY <1>6, <2>0
        <3>2. q \o F(k - 1) \in Seq(MessageSet)
            BY <3>1, ConcatProperties
        <3> QED BY <3>2
    <2>6. CASE c \in P
        <3>1. F(k) = F(k - 1) \o <<Unknown(c)>>
            BY <1>5, <1>6, <2>2, <2>6
        <3>2. q \o F(k) = Append(g, Unknown(c))
            <4>1. F(k - 1) \in Seq(MessageSet) /\ Unknown(c) \in MessageSet
                BY <1>6, <2>0, UnknownIs, Kinds
            <4>2. q \o (F(k - 1) \o <<Unknown(c)>>) = (q \o F(k - 1)) \o <<Unknown(c)>>
                BY <4>1, ConcatAssociative
            <4> QED BY <2>5, <3>1, <4>1, <4>2
        <3>3. Unknown(c) \in MessageSet /\ Unknown(c).kind = "result" /\ Unknown(c).call = c
              /\ Lines(Unknown(c)) = {c} \intersect Mutations
            BY UnknownIs, Kinds
        <3>4. Sound(g) /\ Pending(g) = P \ Done(k - 1)
              /\ Remembered(g) = Remembered(q) \union (P \intersect Done(k - 1) \intersect Mutations)
            BY <2>1, <2>5
        <3>5. PICK u \in MessageSet : u = Unknown(c)
            BY <3>3
        <3> HIDE DEF Done
        <3>6. Sound(Append(g, u)) /\ Pending(Append(g, u)) = Pending(g) \ {c}
            BY <2>4, <2>6, <3>3, <3>4, <3>5, AppendSound
        <3>7. Remembered(Append(g, u)) = Remembered(g) \union ({c} \intersect Mutations)
            BY <3>3, <3>5, RememberedAppend
        <3>8. Claim(k)
            BY <2>3, <2>6, <3>2, <3>4, <3>5, <3>6, <3>7
        <3> QED BY <2>0, <3>8
    <2>7. CASE c \notin P
        <3>1. F(k) = F(k - 1)
            <4>1. F(k) = F(k - 1) \o <<>> /\ F(k - 1) \in Seq(MessageSet)
                BY <1>5, <1>6, <2>0, <2>2, <2>7
            <4> QED BY <4>1, ConcatEmptySeq
        <3>2. Claim(k)
            BY <2>1, <2>3, <2>7, <3>1
        <3> QED BY <2>0, <3>2
    <2> QED BY <2>6, <2>7
<1>9. Good \in SUBSET (0..Len(ids))
    BY Zenon
<1> HIDE DEF Good
<1>10. Good = 0..Len(ids)
    BY <1>0, <1>7, <1>8, <1>9, LeastFailure
<1>11. Claim(Len(ids))
    <2>1. Len(ids) \in Good
        BY <1>0, <1>10
    <2> QED BY <2>1 DEF Good
<1>12. P \subseteq Done(Len(ids))
    BY <1>0 DEF P, ToSet
<1>13. F(Len(ids)) \in Seq(MessageSet)
    BY <1>0, <1>6
<1> HIDE DEF Done
<1> QED BY <1>6, <1>11, <1>12, <1>13 DEF t, P

\* A sound conversation is completed at its end: what waits gets an unknown result.
LEMMA Completed ==
    ASSUME NEW q \in Seq(MessageSet), Sound(q)
    PROVE  LET r == CompleteToolResults(q)
           IN  /\ r \in Seq(MessageSet) /\ Sound(r) /\ Pending(r) = {}
               /\ Remembered(r) = Remembered(q) \union (Pending(q) \intersect Mutations)
<1> DEFINE N == Len(q)
           C == Completion(q, N)
           s == [j \in DOMAIN q |-> <<q[j]>> \o Completion(q, j)]
<1>0. N \in Nat /\ DOMAIN q = 1..N /\ \A j \in 1..N : q[j] \in MessageSet
    OBVIOUS
<1>1. /\ C \in Seq(MessageSet) /\ Sound(q \o C) /\ Pending(q \o C) = {}
      /\ Remembered(q \o C) = Remembered(q) \union (Pending(q) \intersect Mutations)
    <2>1. Unanswered(q, N) = Pending(q)
        BY UnansweredAre
    <2>2. CASE Pending(q) = {}
        <3>1. C = <<>> /\ q \o C = q
            BY <2>1, <2>2 DEF Completion
        <3> QED BY <2>2, <3>1
    <2>3. CASE Pending(q) # {}
        <3> DEFINE i == CallsOf(q, N)
        <3>1. i # 0 /\ N \in 0..Len(q)
            BY <1>0, <2>3 DEF Pending, Open
        <3>2. Reaches(q, i, N)
            BY <3>1, CallsOfIs
        <3>3. i \in 1..N /\ q[i].kind = "calls"
            BY <3>2 DEF Reaches
        <3>4. q[i].calls \in IdSequences
            BY <1>0, <3>3, Kinds
        <3>5. Pending(q) \subseteq ToSet(q[i].calls)
            BY <3>1 DEF Pending, Open
        <3>6. C = FlattenSeq(Answering(q[i].calls, Pending(q)))
            BY <2>1, <2>3 DEF Completion, Answering
        <3> HIDE DEF i, C
        <3>7. PICK ids \in IdSequences : ids = q[i].calls
            BY <3>4
        <3> QED BY <3>5, <3>6, <3>7, AnsweringSteps
    <2> QED BY <2>2, <2>3
<1>2. \A j \in 1..N : j < N => Completion(q, j) = <<>>
    BY UnansweredAre DEF Completion
<1> HIDE DEF C, N
<1>3. \A j \in 1..N : s[j] = IF j < N THEN <<q[j]>> ELSE <<q[j]>> \o C
    <2> SUFFICES ASSUME NEW j \in 1..N PROVE s[j] = IF j < N THEN <<q[j]>> ELSE <<q[j]>> \o C
        OBVIOUS
    <2>1. s[j] = <<q[j]>> \o Completion(q, j)
        BY <1>0
    <2>2. CASE j < N
        <3>1. <<q[j]>> \o <<>> = <<q[j]>>
            BY <1>0
        <3> QED BY <1>2, <2>1, <2>2, <3>1
    <2>3. CASE ~(j < N)
        <3>1. j = N
            BY <1>0, <2>3
        <3> QED BY <2>1, <2>3, <3>1 DEF C
    <2> QED BY <2>2, <2>3
<1>4. \A j \in 1..N : s[j] \in Seq(MessageSet)
    <2>1. \A j \in 1..N : <<q[j]>> \in Seq(MessageSet) /\ <<q[j]>> \o C \in Seq(MessageSet)
        BY <1>0, <1>1
    <2> QED BY <1>3, <2>1
<1>5. s \in Seq(Seq(MessageSet)) /\ Len(s) = N
    <2>1. DOMAIN s = 1..N /\ s = [j \in 1..N |-> s[j]]
        BY <1>0
    <2> HIDE DEF s
    <2>2. s \in [1..N -> Seq(MessageSet)]
        BY <1>4, <2>1
    <2> QED BY <1>0, <2>2
<1>6. CompleteToolResults(q) = FlattenSeq(s)
    BY DEF CompleteToolResults
<1> HIDE DEF s
<1>7. /\ FlattenSeq(s) = FlatAt(s, N) /\ FlatAt(s, 0) = <<>>
      /\ \A k \in 1..N : FlatAt(s, k) = FlatAt(s, k - 1) \o s[k]
    BY <1>5, FlatSteps
<1>8. CASE N = 0
    <2>1. q = <<>> /\ CompleteToolResults(q) = q
        BY <1>6, <1>7, <1>8 DEF N
    <2>2. Pending(q) = {}
        BY <1>8, OpenStart DEF Pending, N
    <2> QED BY <2>1, <2>2
<1>9. CASE N # 0
    <2> DEFINE M == N - 1
               Good == {k \in 0..M : FlatAt(s, k) = SubSeq(q, 1, k)}
    <2>0. M \in Nat /\ N \in 1..N
        BY <1>0, <1>9
    <2>1. 0 \in Good
        <3>1. SubSeq(q, 1, 0) = <<>> /\ 0 \in 0..M
            BY <2>0
        <3> QED BY <1>7, <3>1
    <2>2. ASSUME NEW k \in 1..M, k - 1 \in Good PROVE k \in Good
        <3>1. k \in 1..N /\ k < N /\ k \in 0..M
            BY <1>0, <2>0
        <3>2. FlatAt(s, k) = SubSeq(q, 1, k - 1) \o <<q[k]>>
            BY <1>3, <1>7, <2>2, <3>1
        <3>3. SubSeq(q, 1, k) = SubSeq(q, 1, k - 1) \o <<q[k]>>
            BY <1>0, <3>1 DEF N
        <3> QED BY <3>1, <3>2, <3>3
    <2>3. Good \in SUBSET (0..M)
        BY Zenon
    <2> HIDE DEF Good, M
    <2>4. Good = 0..M
        BY <2>0, <2>1, <2>2, <2>3, LeastFailure
    <2>5. FlatAt(s, M) = SubSeq(q, 1, M)
        <3>1. M \in Good
            BY <2>0, <2>4
        <3> QED BY <3>1 DEF Good
    <2>6. FlatAt(s, N) = SubSeq(q, 1, M) \o (<<q[N]>> \o C)
        <3>1. s[N] = <<q[N]>> \o C
            <4>1. ~(N < N)
                BY <1>0
            <4> QED BY <1>3, <2>0, <4>1
        <3> QED BY <1>7, <2>0, <2>5, <3>1 DEF M
    <2>7. SubSeq(q, 1, M) \o <<q[N]>> = q /\ SubSeq(q, 1, M) \in Seq(MessageSet) /\ <<q[N]>> \in Seq(MessageSet)
        <3>1. q = SubSeq(q, 1, N)
            BY SubSeqFull DEF N
        <3>2. SubSeq(q, 1, N) = SubSeq(q, 1, N - 1) \o <<q[N]>>
            <4>1. 1 \in 1..Len(q) /\ N \in 1..Len(q)
                BY <1>0, <2>0 DEF N
            <4> QED BY <2>0, <4>1, SubSeqRecursiveSecond
        <3>3. SubSeq(q, 1, M) \in Seq(MessageSet)
            <4>1. M \in 0..Len(q)
                BY <1>0, <2>0 DEF N, M
            <4> QED BY <4>1, PrefixSound
        <3>4. <<q[N]>> \in Seq(MessageSet)
            BY <1>0, <2>0
        <3> QED BY <3>1, <3>2, <3>3, <3>4 DEF M
    <2>8. SubSeq(q, 1, M) \o (<<q[N]>> \o C) = (SubSeq(q, 1, M) \o <<q[N]>>) \o C
        <3>1. PICK x \in Seq(MessageSet), y \in Seq(MessageSet), z \in Seq(MessageSet) :
                x = SubSeq(q, 1, M) /\ y = <<q[N]>> /\ z = C
            BY <1>1, <2>7
        <3>2. (x \o y) \o z = x \o (y \o z)
            BY ConcatAssociative, SMTT(30)
        <3> QED BY <3>1, <3>2
    <2>9. CompleteToolResults(q) = q \o C
        BY <1>6, <1>7, <2>6, <2>7, <2>8
    <2>10. q \o C \in Seq(MessageSet)
        BY <1>1, ConcatProperties
    <2> QED BY <1>1, <2>9, <2>10
<1> QED BY <1>8, <1>9

-----------------------------------------------------------------------------
(* Results in a row *)

\* A call for each result, in order.
Answers(r, ids) == Len(r) = Len(ids) /\ \A k \in 1..Len(ids) : r[k].kind = "result" /\ r[k].call = ids[k]

\* Results for the open calls, in their order, close them.
LEMMA AnswersSound ==
    ASSUME NEW q \in Seq(MessageSet), Sound(q), NEW ids \in IdSequences, Pending(q) = ToSet(ids),
           NEW r \in Seq(MessageSet), Answers(r, ids)
    PROVE  q \o r \in Seq(MessageSet) /\ Sound(q \o r) /\ Pending(q \o r) = {}
<1> DEFINE n == Len(ids)
           F(k) == SubSeq(r, 1, k)
           Done(k) == {ids[i] : i \in 1..k}
<1>0. /\ n \in Nat /\ DOMAIN ids = 1..n /\ \A k, i \in 1..n : ids[k] = ids[i] => k = i
      /\ Len(r) = n /\ \A k \in 1..n : r[k] \in MessageSet /\ r[k].kind = "result" /\ r[k].call = ids[k]
    BY DEF IdSequences, Answers
<1>1. \A k \in 0..n : F(k) \in Seq(MessageSet) /\ q \o F(k) \in Seq(MessageSet)
    <2> SUFFICES ASSUME NEW k \in 0..n PROVE F(k) \in Seq(MessageSet) /\ q \o F(k) \in Seq(MessageSet)
        OBVIOUS
    <2>1. F(k) \in Seq(MessageSet)
        BY <1>0, PrefixSound
    <2> QED BY <2>1, ConcatProperties
<1>2. F(0) = <<>> /\ F(n) = r
    BY <1>0, SubSeqFull
<1>3. \A k \in 1..n : F(k) = F(k - 1) \o <<r[k]>>
    <2> SUFFICES ASSUME NEW k \in 1..n PROVE F(k) = F(k - 1) \o <<r[k]>>
        OBVIOUS
    <2>1. 1 \in 1..Len(r) /\ k \in 1..Len(r)
        BY <1>0
    <2> QED BY <2>1, SubSeqRecursiveSecond
<1> HIDE DEF F, n
<1> DEFINE Claim(k) == Sound(q \o F(k)) /\ Pending(q \o F(k)) = ToSet(ids) \ Done(k)
           Good == {k \in 0..n : Claim(k)}
<1>4. 0 \in Good
    <2>1. q \o F(0) = q /\ 0 \in 0..n
        BY <1>0, <1>2
    <2>2. Done(0) = {}
        OBVIOUS
    <2>3. Claim(0)
        BY <2>1, <2>2
    <2> QED BY <2>1, <2>3
<1>5. ASSUME NEW k \in 1..n, k - 1 \in Good PROVE k \in Good
    <2>0. k \in 0..n /\ k - 1 \in 0..n /\ k \in Nat
        BY <1>0
    <2>1. Claim(k - 1)
        BY <1>5
    <2>2. Done(k) = Done(k - 1) \union {ids[k]}
        <3>1. 1..k = 1..(k - 1) \union {k}
            BY <2>0
        <3> QED BY <3>1
    <2>3. ids[k] \notin Done(k - 1)
        <3>1. \A i \in 1..(k - 1) : i \in 1..n /\ i # k
            BY <1>0
        <3> QED BY <1>0, <3>1
    <2>4. PICK g \in Seq(MessageSet) : g = q \o F(k - 1)
        BY <1>1, <2>0
    <2>5. PICK x \in MessageSet : x = r[k]
        BY <1>0
    <2>6. q \o F(k) = Append(g, x)
        <3>1. F(k - 1) \in Seq(MessageSet) /\ <<x>> \in Seq(MessageSet)
            BY <1>1, <2>0
        <3>2. q \o (F(k - 1) \o <<x>>) = (q \o F(k - 1)) \o <<x>>
            BY <3>1, ConcatAssociative
        <3>3. Append(g, x) = g \o <<x>>
            OBVIOUS
        <3> QED BY <1>3, <2>4, <2>5, <3>2, <3>3
    <2>7. x.kind = "result" /\ x.call = ids[k]
        BY <1>0, <2>5
    <2>8. ids[k] \in ToSet(ids)
        BY <1>0 DEF ToSet
    <2> HIDE DEF Done
    <2>9. Sound(g) /\ Pending(g) = ToSet(ids) \ Done(k - 1)
        BY <2>1, <2>4
    <2>10. Sound(Append(g, x)) /\ Pending(Append(g, x)) = Pending(g) \ {ids[k]}
        BY <2>3, <2>7, <2>8, <2>9, AppendSound
    <2>11. Claim(k)
        BY <2>2, <2>6, <2>9, <2>10
    <2> QED BY <2>0, <2>11
<1>6. Good \in SUBSET (0..n)
    BY Zenon
<1> HIDE DEF Good
<1>7. Good = 0..n
    BY <1>0, <1>4, <1>5, <1>6, LeastFailure
<1>8. Claim(n)
    <2>1. n \in Good
        BY <1>0, <1>7
    <2> QED BY <2>1 DEF Good
<1>9. ToSet(ids) \subseteq Done(n)
    BY <1>0 DEF ToSet
<1>10. n \in 0..n
    BY <1>0
<1> HIDE DEF Done
<1> QED BY <1>1, <1>2, <1>8, <1>9, <1>10

-----------------------------------------------------------------------------
(* compactConversation *)

\* A position of a folded message.
IsBlock(q, i) == i \in 1..Len(q) /\ q[i].kind = "history"

\* The beginning, up to position n, is the same.
Kept(q, r, n) == \A i \in 1..n : i \in 1..Len(r) /\ r[i] = q[i]

\* Messages behind a complete turn and before a message that is no result may be
\* folded into one that remembers what they say.
LEMMA FoldSound ==
    ASSUME NEW p \in Seq(MessageSet), Sound(p), NEW a \in Nat, NEW b \in Nat, a < b, b <= Len(p),
           Open(p, a) = {}, p[b].kind # "result"
    PROVE  LET r == SubSeq(p, 1, a) \o <<FoldMessages(SubSeq(p, a + 1, b - 1))>> \o SubSeq(p, b, Len(p))
           IN  /\ r \in Seq(MessageSet) /\ Sound(r) /\ Pending(r) = Pending(p) /\ Remembered(r) = Remembered(p)
               /\ Kept(p, r, a) /\ IsBlock(r, a + 1)
<1> DEFINE x == SubSeq(p, 1, a)
           y == SubSeq(p, a + 1, b - 1)
           z == SubSeq(p, b, Len(p))
           h == FoldMessages(y)
<1>0. a \in 0..Len(p) /\ b \in 1..Len(p) /\ Len(p) \in Nat
    OBVIOUS
<1>1. x \in Seq(MessageSet) /\ Sound(x) /\ Pending(x) = {}
    BY <1>0, PrefixSound
<1>2. z \in Seq(MessageSet) /\ Sound(z) /\ Pending(z) = Pending(p)
    BY <1>0, SuffixSound
<1>3. y \in Seq(MessageSet)
    <2>1. \A i \in (a + 1)..(b - 1) : i \in 1..Len(p)
        BY <1>0
    <2> QED BY <2>1
<1>4. Remembered(p) = Remembered(x) \union Remembered(y) \union Remembered(z)
    <2>1. x \o y = SubSeq(p, 1, b - 1)
        <3>1. 1 \in 1..(Len(p) + 1) /\ a \in (1 - 1)..Len(p) /\ b - 1 \in a..Len(p)
            BY <1>0
        <3> QED BY <3>1, ConcatAdjacentSubSeq
    <2>2. SubSeq(p, 1, b - 1) \o z = p
        <3>1. 1 \in 1..(Len(p) + 1) /\ b - 1 \in (1 - 1)..Len(p) /\ Len(p) \in (b - 1)..Len(p) /\ (b - 1) + 1 = b
            BY <1>0
        <3>2. SubSeq(p, 1, b - 1) \o SubSeq(p, (b - 1) + 1, Len(p)) = SubSeq(p, 1, Len(p))
            BY <3>1, ConcatAdjacentSubSeq
        <3> QED BY <3>1, <3>2, SubSeqFull
    <2> HIDE DEF x, y, z
    <2>3. PICK w \in Seq(MessageSet) : w = x \o y
        <3>1. x \o y \in Seq(MessageSet)
            BY <1>1, <1>3, ConcatProperties
        <3> QED BY <3>1
    <2>4. Remembered(w) = Remembered(x) \union Remembered(y)
        BY <1>1, <1>3, <2>3, RememberedConcat
    <2>5. Remembered(w \o z) = Remembered(w) \union Remembered(z)
        BY <1>2, RememberedConcat
    <2> QED BY <2>1, <2>2, <2>3, <2>4, <2>5
<1> HIDE DEF x, y, z
<1>5. h \in Plain /\ h.kind = "history" /\ Lines(h) = Remembered(y)
    <2>1. h = History(Remembered(y))
        BY <1>3, RememberedIs
    <2>2. Remembered(y) \in SUBSET CallIds
        <3> SUFFICES ASSUME NEW c \in Remembered(y) PROVE c \in CallIds
            OBVIOUS
        <3>1. PICK i \in 1..Len(y) : c \in Lines(y[i])
            BY <1>3, RememberedIs
        <3>2. PICK m \in MessageSet : m = y[i]
            BY <1>3
        <3>3. CASE m.kind = "result"
            BY <3>1, <3>2, <3>3, Kinds DEF Lines, KeptLines
        <3>4. CASE m.kind # "result"
            BY <3>1, <3>2, <3>4, Kinds DEF Lines
        <3> QED BY <3>3, <3>4
    <2>3. PICK l \in SUBSET CallIds : l = Remembered(y)
        BY <2>2
    <2>4. PICK g : g = History(l)
        OBVIOUS
    <2>5. g.kind = "history" /\ g.lines = l /\ g \in Plain
        BY <2>4 DEF History, Plain
    <2>6. Lines(g) = l
        BY <2>5 DEF Lines
    <2> QED BY <2>1, <2>3, <2>4, <2>5, <2>6
<1> HIDE DEF h
<1>6. h \in MessageSet
    BY <1>5, Kinds
<1>7. PICK g \in Seq(MessageSet) : g = x \o <<h>>
    <2>1. <<h>> \in Seq(MessageSet)
        BY <1>6
    <2>2. x \o <<h>> \in Seq(MessageSet)
        BY <1>1, <2>1, ConcatProperties
    <2> QED BY <2>2
<1>8. Sound(g) /\ Pending(g) = {} /\ Remembered(g) = Remembered(x) \union Remembered(y)
    <2>1. g = Append(x, h)
        BY <1>1, <1>6, <1>7
    <2>2. Sound(Append(x, h)) /\ Pending(Append(x, h)) = {}
        BY <1>1, <1>5, <1>6, AppendSound
    <2>3. Remembered(Append(x, h)) = Remembered(x) \union Remembered(y)
        BY <1>1, <1>5, <1>6, RememberedAppend
    <2> QED BY <2>1, <2>2, <2>3
<1>9. g \o z \in Seq(MessageSet) /\ Sound(g \o z) /\ Pending(g \o z) = Pending(p)
    BY <1>2, <1>8, ConcatSound
<1>10. Remembered(g \o z) = Remembered(p)
    BY <1>2, <1>4, <1>8, RememberedConcat
<1>11. Kept(p, g \o z, a) /\ IsBlock(g \o z, a + 1)
    <2>1. Len(x) = a /\ \A i \in 1..a : x[i] = p[i]
        BY <1>0 DEF x
    <2>2. g = Append(x, h)
        BY <1>1, <1>6, <1>7
    <2>3. Len(g) = a + 1 /\ g[a + 1] = h /\ \A i \in 1..a : g[i] = p[i]
        BY <1>1, <1>6, <2>1, <2>2, AppendProperties
    <2>4. Len(g \o z) = Len(g) + Len(z) /\ \A i \in 1..Len(g) : (g \o z)[i] = g[i]
        BY <1>2, <1>7, ConcatProperties
    <2>5. Len(z) \in Nat /\ a + 1 \in 1..Len(g)
        BY <1>2, <2>3
    <2>6. a + 1 \in 1..Len(g \o z) /\ (g \o z)[a + 1] = h
        BY <2>3, <2>4, <2>5
    <2>7. \A i \in 1..a : i \in 1..Len(g \o z) /\ (g \o z)[i] = p[i]
        BY <2>3, <2>4, <2>5
    <2> QED BY <1>5, <2>6, <2>7 DEF Kept, IsBlock
<1> QED BY <1>7, <1>9, <1>10, <1>11 DEF x, y, z, h

\* The last of some positions.
LEMMA MaxIs ==
    ASSUME NEW n \in Nat, NEW I \in SUBSET (1..n), I # {}
    PROVE  Max(I) \in I
<1> DEFINE D == {n - i : i \in I}
<1>1. D \in SUBSET Nat /\ D # {}
    <2>1. \A i \in I : n - i \in Nat
        OBVIOUS
    <2> QED BY <2>1
<1>2. PICK d \in D : \A e \in D : d <= e
    <2> HIDE DEF D
    <2> QED BY <1>1, LeastElement
<1>3. PICK i \in I : d = n - i
    OBVIOUS
<1>4. \A j \in I : i >= j
    <2> SUFFICES ASSUME NEW j \in I PROVE i >= j
        OBVIOUS
    <2>1. d <= n - j
        BY <1>2
    <2> QED BY <1>3, <2>1
<1>5. \E x \in I : \A y \in I : x >= y
    BY <1>4
<1> QED BY <1>5 DEF Max

\* Positions of folded messages, in order of the walk over them.
Written(q, b) == b \in Seq(Nat) /\ \A k \in 1..Len(b) : IsBlock(q, b[k])

LEMMA WrittenOne ==
    ASSUME NEW q, NEW i \in Nat, IsBlock(q, i)
    PROVE  Written(q, <<i>>)
<1>1. <<i>> \in Seq(Nat) /\ Len(<<i>>) = 1 /\ <<i>>[1] = i
    OBVIOUS
<1> QED BY <1>1 DEF Written

LEMMA WrittenNone == \A q : Written(q, <<>>)
<1>1. <<>> \in Seq(Nat) /\ Len(<<>>) = 0
    OBVIOUS
<1> QED BY <1>1 DEF Written

LEMMA WrittenBoth ==
    ASSUME NEW q, NEW a, NEW b, Written(q, a), Written(q, b)
    PROVE  Written(q, a \o b)
<1>1. PICK x \in Seq(Nat), y \in Seq(Nat) : x = a /\ y = b
    BY DEF Written
<1>2. /\ x \o y \in Seq(Nat) /\ Len(x \o y) = Len(x) + Len(y) /\ Len(x) \in Nat /\ Len(y) \in Nat
      /\ \A i \in 1..(Len(x) + Len(y)) : (x \o y)[i] = IF i <= Len(x) THEN x[i] ELSE y[i - Len(x)]
    BY ConcatProperties, LenProperties
<1>3. ASSUME NEW k \in 1..(Len(x) + Len(y)) PROVE IsBlock(q, (x \o y)[k])
    <2>1. CASE k <= Len(x)
        <3>1. k \in 1..Len(x) /\ (x \o y)[k] = x[k]
            BY <1>2, <2>1
        <3> QED BY <1>1, <3>1 DEF Written
    <2>2. CASE ~(k <= Len(x))
        <3>1. k - Len(x) \in 1..Len(y) /\ (x \o y)[k] = y[k - Len(x)]
            BY <1>2, <2>2
        <3> QED BY <1>1, <3>1 DEF Written
    <2> QED BY <2>1, <2>2
<1> QED BY <1>1, <1>2, <1>3 DEF Written

\* A compacted conversation is as sound as it was, and remembers the same; its
\* blocks are folded messages.
LEMMA Compacted ==
    ASSUME NEW q \in Seq(MessageSet), Sound(q), NEW enough \in BOOLEAN
    PROVE  LET c == CompactConversation(q, enough)
               r == c.messages
           IN  /\ r \in Seq(MessageSet) /\ Sound(r) /\ Pending(r) = Pending(q) /\ Remembered(r) = Remembered(q)
               /\ Written(r, c.blocks)
<1> DEFINE lastWake == SelectLastInSeq(q, LAMBDA m : m.kind = "wake")
           foldsPast == lastWake > 1 /\ ~(lastWake = 2 /\ q[1].kind = "history")
           past == IF foldsPast
                   THEN <<FoldMessages(SubSeq(q, 1, lastWake - 1))>> \o SubSeq(q, lastWake, Len(q))
                   ELSE q
           wake == IF foldsPast THEN 2 ELSE lastWake
           tail == SelectLastInSubSeq(past, wake + 2, Len(past), IsAssistant)
           foldsSteps == /\ ~(foldsPast /\ enough)
                         /\ tail # 0
                         /\ ~(tail = wake + 2 /\ past[wake + 1].kind = "history")
           all == SubSeq(past, 1, wake) \o <<FoldMessages(SubSeq(past, wake + 1, tail - 1))>>
                  \o SubSeq(past, tail, Len(past))
           first == IF foldsPast THEN <<1>> ELSE <<>>
           second == IF foldsSteps THEN <<wake + 1>> ELSE <<>>
<1>0. /\ CompactConversation(q, enough).messages = (IF foldsSteps THEN all ELSE past)
      /\ CompactConversation(q, enough).blocks = first \o second
    BY DEF CompactConversation
<1>1. foldsSteps => tail # 0
    OBVIOUS
<1> HIDE DEF foldsSteps
<1>2. lastWake = 0 \/ (lastWake \in 1..Len(q) /\ q[lastWake].kind = "wake")
    <2> DEFINE I == {i \in 1..Len(q) : q[i].kind = "wake"}
    <2>1. lastWake = IF I # {} THEN Max(I) ELSE 0
        BY DEF SelectLastInSeq
    <2>2. I # {} => Max(I) \in I
        <3>1. I \in SUBSET (1..Len(q)) /\ Len(q) \in Nat
            OBVIOUS
        <3> HIDE DEF I
        <3> QED BY <3>1, MaxIs
    <2> QED BY <2>1, <2>2
<1> HIDE DEF lastWake
<1>3. /\ past \in Seq(MessageSet) /\ Sound(past) /\ Pending(past) = Pending(q) /\ Remembered(past) = Remembered(q)
      /\ wake = 0 \/ (wake \in 1..Len(past) /\ past[wake].kind = "wake")
      /\ foldsPast => IsBlock(past, 1) /\ wake = 2
    <2>1. CASE ~foldsPast
        BY <1>2, <2>1
    <2>2. CASE foldsPast
        <3>1. lastWake \in 1..Len(q) /\ lastWake > 1 /\ q[lastWake].kind = "wake" /\ Len(q) \in Nat
            BY <1>2, <2>2
        <3> DEFINE h == FoldMessages(SubSeq(q, 1, lastWake - 1))
                   z == SubSeq(q, lastWake, Len(q))
                   r == SubSeq(q, 1, 0) \o <<h>> \o z
        <3>2. Open(q, 0) = {}
            BY OpenStart
        <3>3. PICK e \in Nat : e = 0
            OBVIOUS
        <3>4. /\ r \in Seq(MessageSet) /\ Sound(r) /\ Pending(r) = Pending(q) /\ Remembered(r) = Remembered(q)
              /\ IsBlock(r, 1)
            <4>1. e < lastWake /\ lastWake \in Nat /\ lastWake <= Len(q) /\ e + 1 = 1
                BY <3>1, <3>3
            <4>2. Open(q, e) = {} /\ q[lastWake].kind # "result"
                BY <3>1, <3>2, <3>3
            <4> DEFINE rr == SubSeq(q, 1, e) \o <<FoldMessages(SubSeq(q, e + 1, lastWake - 1))>> \o SubSeq(q, lastWake, Len(q))
            <4>3. /\ rr \in Seq(MessageSet) /\ Sound(rr) /\ Pending(rr) = Pending(q) /\ Remembered(rr) = Remembered(q)
                  /\ IsBlock(rr, e + 1)
                BY <4>1, <4>2, FoldSound
            <4>4. rr = r
                BY <3>3, <4>1
            <4> HIDE DEF rr, r
            <4> QED BY <4>1, <4>3, <4>4
        <3>5. SubSeq(q, 1, 0) = <<>> /\ past = <<h>> \o z /\ wake = 2
            <4>1. SubSeq(q, 1, 0) = <<>>
                BY SubSeqEmpty
            <4>2. past = <<h>> \o z /\ wake = 2
                BY <2>2, Zenon
            <4> QED BY <4>1, <4>2
        <3>6. z \in Seq(MessageSet) /\ Len(z) = Len(q) - lastWake + 1 /\ z[1] = q[lastWake]
            BY <3>1
        <3> HIDE DEF h, z, past, wake
        <3>7. <<>> \o <<h>> = <<h>>
            OBVIOUS
        <3>8. r = past
            BY <3>5, <3>7
        <3>9. wake \in 1..Len(past) /\ past[wake].kind = "wake"
            <4>1. Len(past) = 1 + Len(z) /\ past[2] = z[1]
                <5>1. PICK S : S = {h} \union MessageSet
                    OBVIOUS
                <5>2. PICK x \in Seq(S) : x = <<h>> /\ Len(x) = 1
                    <6>1. h \in S
                        BY <5>1
                    <6>2. <<h>> \in Seq(S) /\ Len(<<h>>) = 1
                        BY <6>1
                    <6> QED BY <6>2
                <5>3. z \in Seq(S) /\ Len(z) \in Nat /\ Len(z) >= 1
                    BY <3>1, <3>6, <5>1
                <5>4. past = x \o z
                    BY <3>5, <5>2
                <5>5. x \in Seq(S) /\ Len(x) = 1
                    BY <5>2
                <5>6. \A i \in 1..(Len(x) + Len(z)) : (x \o z)[i] = IF i <= Len(x) THEN x[i] ELSE z[i - Len(x)]
                    BY <5>3, <5>5, ConcatProperties
                <5>7. 2 \in 1..(Len(x) + Len(z)) /\ ~(2 <= Len(x)) /\ 2 - Len(x) = 1
                    BY <5>3, <5>5
                <5>8. (x \o z)[2] = z[1]
                    BY <5>6, <5>7, Zenon
                <5>9. Len(x \o z) = 1 + Len(z)
                    BY <5>3, <5>5, ConcatProperties
                <5> QED BY <5>4, <5>8, <5>9, Zenon
            <4> QED BY <3>1, <3>5, <3>6, <4>1
        <3> QED BY <3>4, <3>5, <3>8, <3>9
    <2> QED BY <2>1, <2>2
<1> HIDE DEF past, wake
<1>4. ASSUME tail # 0
      PROVE  /\ all \in Seq(MessageSet) /\ Sound(all) /\ Pending(all) = Pending(q) /\ Remembered(all) = Remembered(q)
             /\ Kept(past, all, wake) /\ IsBlock(all, wake + 1) /\ wake \in Nat
    <2> DEFINE I == {i \in (wake + 2)..Len(past) : IsAssistant(past[i])}
    <2>0. wake \in Nat /\ Len(past) \in Nat /\ wake \in 0..Len(past)
        BY <1>3
    <2>1. tail = IF I # {} THEN Max(I) ELSE 0
        BY DEF SelectLastInSubSeq
    <2>2. I \in SUBSET (1..Len(past))
        <3>1. \A i \in (wake + 2)..Len(past) : i \in 1..Len(past)
            BY <2>0
        <3> QED BY <3>1
    <2> HIDE DEF tail
    <2>3. tail \in I
        <3> HIDE DEF I
        <3> QED BY <1>4, <2>0, <2>1, <2>2, MaxIs
    <2>4. tail \in Nat /\ wake < tail /\ tail <= Len(past)
        BY <2>0, <2>3
    <2>5. past[tail].kind # "result"
        BY <2>3 DEF IsAssistant
    <2>6. Open(past, wake) = {}
        <3>1. CASE wake = 0
            BY <1>3, <3>1, OpenStart
        <3>2. CASE wake # 0
            BY <1>3, <3>2, OpenStep
        <3> QED BY <3>1, <3>2
    <2> QED BY <1>3, <2>0, <2>4, <2>5, <2>6, FoldSound, SMTT(30)
<1> HIDE DEF all, tail
<1>5. PICK r : r = (IF foldsSteps THEN all ELSE past)
    OBVIOUS
<1>6. /\ r \in Seq(MessageSet) /\ Sound(r) /\ Pending(r) = Pending(q) /\ Remembered(r) = Remembered(q)
    BY <1>1, <1>3, <1>4, <1>5
<1>7. Written(r, first)
    <2>1. CASE foldsPast
        <3>1. IsBlock(past, 1) /\ wake = 2
            BY <1>3, <2>1
        <3>2. IsBlock(r, 1)
            <4>1. CASE ~foldsSteps
                BY <1>5, <3>1, <4>1
            <4>2. CASE foldsSteps
                <5>1. r = all /\ Kept(past, all, 2)
                    BY <1>1, <1>4, <1>5, <3>1, <4>2
                <5>2. 1 \in 1..2
                    OBVIOUS
                <5>3. 1 \in 1..Len(r) /\ r[1] = past[1]
                    BY <5>1, <5>2 DEF Kept
                <5> QED BY <3>1, <5>3 DEF IsBlock
            <4> QED BY <4>1, <4>2
        <3> QED BY <2>1, <3>2, WrittenOne
    <2>2. CASE ~foldsPast
        BY <2>2, WrittenNone
    <2> QED BY <2>1, <2>2
<1>8. Written(r, second)
    <2>1. CASE foldsSteps
        <3>1. IsBlock(r, wake + 1) /\ wake + 1 \in Nat
            BY <1>1, <1>4, <1>5, <2>1
        <3> QED BY <2>1, <3>1, WrittenOne
    <2>2. CASE ~foldsSteps
        BY <2>2, WrittenNone
    <2> QED BY <2>1, <2>2
<1> HIDE DEF first, second
<1>9. Written(r, first \o second)
    BY <1>7, <1>8, WrittenBoth
<1> QED BY <1>0, <1>5, <1>6, <1>9

-----------------------------------------------------------------------------
(* semanticConversation *)

\* Results may be told differently: only the calls they answer count.
LEMMA OpenThroughout ==
    ASSUME NEW q \in Seq(MessageSet), NEW r \in Seq(MessageSet), NEW n \in Nat,
           n <= Len(q), n <= Len(r), \A k \in 1..n : Alike(q[k], r[k])
    PROVE  \A k \in 0..n : Open(q, k) = Open(r, k)
<1>1. PICK a \in Nat, b \in Nat : a = 0 /\ b = 0
    OBVIOUS
<1>2. \A k \in 0..n : a + k = k /\ b + k = k
    BY <1>1
<1>3. \A k \in 1..n : Alike(q[a + k], r[b + k])
    <2> SUFFICES ASSUME NEW k \in 1..n PROVE Alike(q[a + k], r[b + k])
        OBVIOUS
    <2>1. a + k = k /\ b + k = k
        BY <1>1
    <2> QED BY <2>1
<1>4. MatchAt(q, a, r, b, n)
    BY <1>1, <1>3 DEF MatchAt
<1>5. Open(q, a) = Open(r, b)
    BY <1>1, OpenStart
<1>6. \A k \in 0..n : Open(q, a + k) = Open(r, b + k)
    BY <1>4, <1>5, OpenAlike
<1> QED BY <1>2, <1>6

LEMMA AlikeSound ==
    ASSUME NEW p \in Seq(MessageSet), NEW r \in Seq(MessageSet), Len(r) = Len(p),
           \A k \in 1..Len(p) : Alike(p[k], r[k]), Sound(p)
    PROVE  Sound(r) /\ Pending(r) = Pending(p)
<1>0. Len(p) \in Nat /\ DOMAIN p = 1..Len(p) /\ DOMAIN r = 1..Len(p)
    OBVIOUS
<1>6. \A k \in 0..Len(p) : Open(p, k) = Open(r, k)
    <2>1. PICK n \in Nat : n = Len(p) /\ n = Len(r)
        BY <1>0
    <2>2. n <= Len(p) /\ n <= Len(r) /\ \A k \in 1..n : Alike(p[k], r[k])
        BY <2>1
    <2>3. \A k \in 0..n : Open(p, k) = Open(r, k)
        BY <2>2, OpenThroughout, Zenon
    <2> QED BY <2>1, <2>3
<1>7. Sound(r)
    <2> SUFFICES ASSUME NEW k \in 1..Len(p)
                 PROVE  IF r[k].kind = "result" THEN r[k].call \in Open(r, k - 1) ELSE Open(r, k - 1) = {}
        BY <1>0 DEF Sound
    <2>1. k - 1 \in 0..Len(p)
        BY <1>0
    <2>2. Alike(p[k], r[k]) /\ Open(p, k - 1) = Open(r, k - 1)
        BY <1>6, <2>1
    <2>3. IF p[k].kind = "result" THEN p[k].call \in Open(p, k - 1) ELSE Open(p, k - 1) = {}
        BY <1>0 DEF Sound
    <2> QED BY <2>2, <2>3 DEF Alike
<1>8. Len(p) \in 0..Len(p)
    BY <1>0
<1> QED BY <1>6, <1>7, <1>8 DEF Pending

LEMMA DigestIs ==
    ASSUME NEW m \in MessageSet
    PROVE  Digest(m) \in MessageSet /\ Alike(m, Digest(m)) /\ (m \in Results => Digest(m) \in Results)
<1>1. CASE m.kind = "result"
    <2>1. m \in Results
        BY <1>1, Kinds
    <2>2. PICK d : d = [m EXCEPT !.error = "long"]
        OBVIOUS
    <2>3. "long" \in ErrorTexts
        BY DEF ErrorTexts
    <2>4. d \in Results
        BY <2>1, <2>2, <2>3 DEF Results
    <2>5. d.kind = m.kind /\ d.call = m.call
        BY <2>1, <2>2 DEF Results
    <2>6. Alike(m, d) /\ Alike(m, m)
        BY <1>1, <2>5 DEF Alike
    <2>7. Digest(m) = d \/ Digest(m) = m
        BY <2>2 DEF Digest
    <2> QED BY <2>1, <2>4, <2>6, <2>7, Kinds
<1>2. CASE m.kind # "result"
    <2>1. Digest(m) = m
        BY <1>2 DEF Digest
    <2> QED BY <2>1 DEF Alike
<1> QED BY <1>1, <1>2

\* What the scan has made of the first i messages.
Scanned(q, i, kept, at, skip) ==
    /\ kept \in Seq(MessageSet) /\ Sound(kept)
    /\ at \in 0..Len(kept) /\ (at > 0 => kept[at] \in Results)
    /\ skip \in BOOLEAN
    /\ skip => Pending(kept) = {} /\ i < Len(q) /\ Open(q, i + 1) = {}
    /\ ~skip => Pending(kept) = Open(q, i)

Acc(kept, key, at, skip) == [kept |-> kept, key |-> key, at |-> at, skip |-> skip]

\* The result joins a failure like it: only what it stands for changes.
LEMMA FoldedInto ==
    ASSUME NEW kept \in Seq(MessageSet), Sound(kept), NEW at \in 1..Len(kept), kept[at] \in Results,
           NEW more \in SUBSET CallIds
    PROVE  LET r == [kept EXCEPT ![at].stands = @ \union more]
           IN  /\ r \in Seq(MessageSet) /\ Sound(r) /\ Pending(r) = Pending(kept) /\ Len(r) = Len(kept)
               /\ r[at] \in Results
<1>1. PICK m \in Results : m = kept[at]
    OBVIOUS
<1>2. PICK x : x = [m EXCEPT !.stands = m.stands \union more]
    OBVIOUS
<1>3. m.stands \in SUBSET CallIds
    BY Kinds
<1>4. x \in Results /\ x.kind = m.kind /\ x.call = m.call /\ m.kind = "result"
    <2>1. PICK all \in SUBSET CallIds : all = m.stands \union more
        BY <1>3
    <2>2. x = [m EXCEPT !.stands = all]
        BY <1>2, <2>1
    <2> QED BY <2>2 DEF Results
<1>5. PICK r : r = [kept EXCEPT ![at].stands = @ \union more]
    OBVIOUS
<1>6. r = [kept EXCEPT ![at] = x]
    BY <1>1, <1>2, <1>5
<1>7. x \in MessageSet
    BY <1>4, Kinds
<1>8. r \in Seq(MessageSet) /\ Len(r) = Len(kept)
    BY <1>6, <1>7
<1>9. \A k \in 1..Len(kept) : r[k] = IF k = at THEN x ELSE kept[k]
    BY <1>6
<1>10. \A k \in 1..Len(kept) : Alike(kept[k], r[k])
    BY <1>1, <1>4, <1>9 DEF Alike
<1>11. Sound(r) /\ Pending(r) = Pending(kept)
    BY <1>8, <1>10, AlikeSound
<1>12. r[at] \in Results
    BY <1>4, <1>9
<1> QED BY <1>5, <1>8, <1>11, <1>12

\* One round of semanticConversation: what it has kept stays sound, with the calls
\* open that were open in what it has read.
LEMMA ScanStep ==
    ASSUME NEW q \in Seq(MessageSet), Sound(q), NEW i \in 1..Len(q),
           NEW kept, NEW key, NEW at, NEW skip, Scanned(q, i - 1, kept, at, skip)
    PROVE  \E k, y, t, b : SemanticStep(q, Acc(kept, key, at, skip), i) = Acc(k, y, t, b) /\ Scanned(q, i, k, t, b)
<1> DEFINE acc == Acc(kept, key, at, skip)
<1>0. /\ i \in Nat /\ i # 0 /\ Len(q) \in Nat /\ (i - 1) + 1 = i /\ DOMAIN q = 1..Len(q)
      /\ i < Len(q) => i + 1 \in 1..Len(q) /\ (i + 1) - 1 = i
    OBVIOUS
<1>1. acc.kept = kept /\ acc.key = key /\ acc.at = at /\ acc.skip = skip
    BY DEF Acc
<1>2. /\ kept \in Seq(MessageSet) /\ Sound(kept) /\ at \in 0..Len(kept) /\ (at > 0 => kept[at] \in Results)
      /\ skip \in BOOLEAN
    BY DEF Scanned
<1>3. q[i] \in MessageSet
    OBVIOUS
<1>4. IF q[i].kind = "result" THEN q[i].call \in Open(q, i - 1) ELSE Open(q, i - 1) = {}
    BY <1>0 DEF Sound
<1>5. CASE skip
    <2>1. SemanticStep(q, acc, i) = Acc(kept, key, at, FALSE)
        <3>1. SemanticStep(q, acc, i) = [acc EXCEPT !.skip = FALSE]
            BY <1>1, <1>5 DEF SemanticStep
        <3> QED BY <3>1 DEF Acc
    <2>2. Pending(kept) = {} /\ Open(q, i) = {}
        BY <1>0, <1>5 DEF Scanned
    <2>3. Scanned(q, i, kept, at, FALSE)
        BY <1>2, <2>2 DEF Scanned
    <2> QED BY <2>1, <2>3
<1>6. CASE ~skip /\ (q[i].kind = "instruction" \/ IsRejectedFinal(q, i))
    <2>1. SemanticStep(q, acc, i) = acc
        BY <1>1, <1>6 DEF SemanticStep
    <2>2. q[i].kind \in {"instruction", "answer"}
        BY <1>6 DEF IsRejectedFinal
    <2>3. Open(q, i) = {} /\ Pending(kept) = {}
        BY <1>4, <1>6, <2>2, OpenStep DEF Scanned
    <2>4. Scanned(q, i, kept, at, skip)
        BY <1>2, <1>6, <2>3 DEF Scanned
    <2> QED BY <2>1, <2>4
<1>7. CASE ~skip /\ ~(q[i].kind = "instruction" \/ IsRejectedFinal(q, i)) /\ IsLoneCall(q, i)
    <2>1. q[i].kind = "calls" /\ Len(q[i].calls) = 1 /\ i < Len(q) /\ q[i + 1].kind = "result" /\ i + 1 \in 1..Len(q)
        BY <1>0, <1>7 DEF IsLoneCall
    <2>2. Pending(kept) = {} /\ Open(q, i) = ToSet(q[i].calls)
        BY <1>4, <1>7, <2>1, OpenStep DEF Scanned
    <2>3. PICK c : ToSet(q[i].calls) = {c}
        <3>1. q[i].calls \in IdSequences
            BY <1>3, <2>1, Kinds
        <3>2. q[i].calls \in Seq(CallIds)
            BY <3>1 DEF IdSequences
        <3>3. ToSet(q[i].calls) = {q[i].calls[k] : k \in 1..1}
            BY <2>1, <3>2 DEF ToSet
        <3>4. ToSet(q[i].calls) = {q[i].calls[1]}
            BY <3>3
        <3> QED BY <3>4
    <2>4. q[i + 1] \in Results /\ q[i + 1].call = c /\ Open(q, i + 1) = {}
        <3>1. q[i + 1] \in Results
            BY <2>1, Kinds
        <3>2. q[i + 1].call \in Open(q, (i + 1) - 1)
            BY <1>0, <2>1 DEF Sound
        <3>3. Open(q, i + 1) = Open(q, (i + 1) - 1) \ {q[i + 1].call}
            BY <2>1, OpenStep
        <3> QED BY <1>0, <2>1, <2>2, <2>3, <3>1, <3>2, <3>3
    <2>5. PICK x \in Results : x = q[i + 1]
        BY <2>4
    <2> DEFINE fk == FailureKey(x)
    <2>6. CASE fk # "" /\ fk = key /\ at > 0
        <3>1. SemanticStep(q, acc, i) = [acc EXCEPT !.kept[acc.at].stands = @ \cup x.stands, !.skip = TRUE]
            <4>1. FailureKey(q[i + 1]) # "" /\ FailureKey(q[i + 1]) = acc.key /\ acc.at > 0
                BY <1>1, <2>5, <2>6
            <4> QED BY <1>1, <1>7, <2>5, <4>1, Zenon DEF SemanticStep
        <3>2. PICK r : r = [kept EXCEPT ![at].stands = @ \union x.stands]
            OBVIOUS
        <3>3. SemanticStep(q, acc, i) = Acc(r, key, at, TRUE)
            BY <3>1, <3>2 DEF Acc
        <3>4. x.stands \in SUBSET CallIds /\ at \in 1..Len(kept) /\ kept[at] \in Results
            <4>1. x.stands \in SUBSET CallIds
                BY Kinds
            <4>2. at \in 1..Len(kept)
                <5>1. at > 0
                    BY <2>6
                <5>2. at \in 0..Len(kept) /\ Len(kept) \in Nat
                    BY <1>2
                <5> QED BY <5>1, <5>2
            <4> QED BY <1>2, <2>6, <4>1, <4>2
        <3>5. r \in Seq(MessageSet) /\ Sound(r) /\ Pending(r) = Pending(kept) /\ Len(r) = Len(kept) /\ r[at] \in Results
            BY <1>2, <3>2, <3>4, FoldedInto
        <3>6. Scanned(q, i, r, at, TRUE)
            BY <1>2, <2>1, <2>2, <2>4, <3>5 DEF Scanned
        <3> QED BY <3>3, <3>6
    <2>7. CASE ~(fk # "" /\ fk = key /\ at > 0)
        <3> DEFINE d == Digest(x)
                   t == IF fk = "" THEN 0 ELSE Len(kept) + 2
                   r == kept \o <<q[i], d>>
        <3>1. SemanticStep(q, acc, i) = Acc(r, fk, t, TRUE)
            <4>1. ~(FailureKey(q[i + 1]) # "" /\ FailureKey(q[i + 1]) = acc.key /\ acc.at > 0)
                BY <1>1, <2>5, <2>7
            <4> QED BY <1>1, <1>7, <2>5, <4>1, Zenon DEF SemanticStep, Acc
        <3>2. x \in MessageSet /\ d \in Results /\ d \in MessageSet /\ d.kind = "result" /\ d.call = c
            <4>1. x \in MessageSet /\ x.kind = "result" /\ x.call = c
                BY <2>4, <2>5, Kinds
            <4>2. d \in MessageSet /\ Alike(x, d) /\ d \in Results
                BY <4>1, DigestIs
            <4> QED BY <4>1, <4>2 DEF Alike
        <3> HIDE DEF d, fk
        <3>3. PICK g : g = Append(kept, q[i])
            OBVIOUS
        <3>4. g \in Seq(MessageSet) /\ Sound(g) /\ Pending(g) = {c} /\ Len(g) = Len(kept) + 1
            BY <1>2, <1>3, <2>1, <2>2, <2>3, <3>3, AppendSound
        <3>5. /\ Append(g, d) \in Seq(MessageSet) /\ Sound(Append(g, d)) /\ Pending(Append(g, d)) = {}
              /\ Len(Append(g, d)) = Len(g) + 1
            BY <3>2, <3>4, AppendSound
        <3>6. r = Append(g, d) /\ Len(kept) \in Nat
            BY <1>2, <1>3, <3>2, <3>3
        <3>7. Append(g, d)[Len(g) + 1] = d
            BY <3>2, <3>4
        <3> HIDE DEF r
        <3>8. Len(r) = Len(kept) + 2 /\ r[Len(kept) + 2] = d
            <4>1. Len(g) + 1 = Len(kept) + 2
                BY <3>4, <3>6
            <4> QED BY <3>5, <3>6, <3>7, <4>1
        <3>9. t \in 0..Len(r) /\ (t > 0 => r[t] \in Results)
            <4>1. CASE fk = ""
                <5>1. t = 0
                    BY <4>1, Zenon
                <5>2. 0 \in 0..Len(r) /\ ~(0 > 0)
                    BY <3>6, <3>8
                <5> QED BY <5>1, <5>2
            <4>2. CASE fk # ""
                <5>1. t = Len(kept) + 2
                    BY <4>2, Zenon
                <5>2. Len(kept) + 2 \in 0..Len(r)
                    BY <3>6, <3>8
                <5> HIDE DEF t
                <5> QED BY <3>2, <3>8, <5>1, <5>2
            <4> QED BY <4>1, <4>2
        <3> HIDE DEF t
        <3>10. Scanned(q, i, r, t, TRUE)
            BY <2>1, <2>4, <3>5, <3>6, <3>9 DEF Scanned
        <3> QED BY <3>1, <3>10
    <2> QED BY <2>6, <2>7
<1>8. CASE ~skip /\ ~(q[i].kind = "instruction" \/ IsRejectedFinal(q, i)) /\ ~IsLoneCall(q, i)
    <2> DEFINE d == Digest(q[i])
    <2>1. SemanticStep(q, acc, i) = Acc(Append(kept, d), "", 0, FALSE)
        BY <1>1, <1>8, Zenon DEF SemanticStep, Acc
    <2>2. d \in MessageSet /\ Alike(q[i], d)
        BY <1>3, DigestIs
    <2> HIDE DEF d
    <2>3. Pending(kept) = Open(q, i - 1)
        BY <1>8 DEF Scanned
    <2>4. PICK r : r = Append(kept, d)
        OBVIOUS
    <2>5. r \in Seq(MessageSet) /\ Len(r) = Len(kept) + 1
        BY <1>2, <2>2, <2>4, AppendSound
    <2>6. Sound(r) /\ Pending(r) = Open(q, i)
        <3>1. CASE q[i].kind = "calls"
            <4>1. d.kind = "calls" /\ d.calls = q[i].calls
                BY <2>2, <3>1 DEF Alike
            <4> QED BY <1>2, <1>4, <2>2, <2>3, <2>4, <3>1, <4>1, AppendSound, OpenStep
        <3>2. CASE q[i].kind = "result"
            <4>1. d.kind = "result" /\ d.call = q[i].call
                BY <2>2, <3>2 DEF Alike
            <4>2. Open(q, i) = Open(q, i - 1) \ {q[i].call} /\ q[i].call \in Open(q, i - 1)
                BY <1>4, <3>2, OpenStep
            <4>3. Sound(Append(kept, d)) /\ Pending(Append(kept, d)) = Pending(kept) \ {d.call}
                BY <1>2, <2>2, <2>3, <4>1, <4>2, AppendSound
            <4> QED BY <2>3, <2>4, <4>1, <4>2, <4>3
        <3>3. CASE q[i].kind \notin {"calls", "result"}
            <4>1. d.kind \notin {"calls", "result"}
                BY <2>2, <3>3 DEF Alike
            <4> QED BY <1>2, <1>4, <2>2, <2>3, <2>4, <3>3, <4>1, AppendSound, OpenStep
        <3> QED BY <3>1, <3>2, <3>3
    <2>7. 0 \in 0..Len(r) /\ ~(0 > 0)
        BY <2>5
    <2>8. Scanned(q, i, r, 0, FALSE)
        BY <2>5, <2>6, <2>7 DEF Scanned
    <2> QED BY <2>1, <2>4, <2>8
<1> QED BY <1>5, <1>6, <1>7, <1>8

ScanTo(q) ==
    CHOOSE f : f = [i \in 0..Len(q) |-> IF i = 0 THEN [kept |-> <<>>, key |-> "", at |-> 0, skip |-> FALSE]
                                                 ELSE SemanticStep(q, f[i - 1], i)]

LEMMA ScanEquation ==
    ASSUME NEW q \in Seq(MessageSet)
    PROVE  /\ SemanticConversation(q) = ScanTo(q)[Len(q)].kept
           /\ ScanTo(q)[0] = Acc(<<>>, "", 0, FALSE)
           /\ \A i \in 1..Len(q) : ScanTo(q)[i] = SemanticStep(q, ScanTo(q)[i - 1], i)
<1> DEFINE start == [kept |-> <<>>, key |-> "", at |-> 0, skip |-> FALSE]
           Solves(f, n) == f = [i \in 0..n |-> IF i = 0 THEN start ELSE SemanticStep(q, f[i - 1], i)]
           Good == {n \in 0..Len(q) : \E f : Solves(f, n)}
<1>0. Len(q) \in Nat
    OBVIOUS
<1>s. start = Acc(<<>>, "", 0, FALSE)
    BY DEF Acc
<1> HIDE DEF start
<1>1. 0 \in Good
    <2> DEFINE f == [i \in 0..0 |-> start]
    <2>1. \A i \in 0..0 : i = 0
        OBVIOUS
    <2>2. f = [i \in 0..0 |-> IF i = 0 THEN start ELSE SemanticStep(q, f[i - 1], i)]
        BY <2>1
    <2>3. 0 \in 0..Len(q)
        BY <1>0
    <2> HIDE DEF f
    <2>4. \E g : Solves(g, 0)
        BY <2>2
    <2> QED BY <2>3, <2>4
<1>2. ASSUME NEW n \in 1..Len(q), n - 1 \in Good PROVE n \in Good
    <2>1. PICK f : Solves(f, n - 1)
        BY <1>2
    <2>2. n \in Nat /\ n # 0
        BY <1>0
    <2> DEFINE g == [i \in 0..n |-> IF i = n THEN SemanticStep(q, f[n - 1], n) ELSE f[i]]
    <2>3. ASSUME NEW i \in 0..n PROVE g[i] = IF i = 0 THEN start ELSE SemanticStep(q, g[i - 1], i)
        <3>1. CASE i = n
            <4>1. i # 0 /\ i - 1 \in 0..n /\ i - 1 # n
                BY <2>2, <3>1
            <4>2. g[i] = SemanticStep(q, f[n - 1], n) /\ g[i - 1] = f[n - 1]
                BY <3>1, <4>1
            <4> HIDE DEF g
            <4> QED BY <3>1, <4>1, <4>2
        <3>2. CASE i # n
            <4>1. i \in 0..(n - 1)
                BY <2>2, <3>2
            <4>2. g[i] = f[i]
                BY <3>2
            <4>3. f[i] = IF i = 0 THEN start ELSE SemanticStep(q, f[i - 1], i)
                BY <2>1, <4>1
            <4>4. i # 0 => i - 1 \in 0..n /\ i - 1 # n
                BY <2>2, <4>1
            <4>5. i # 0 => g[i - 1] = f[i - 1]
                BY <4>4
            <4> HIDE DEF g
            <4> QED BY <4>2, <4>3, <4>5
        <3> QED BY <3>1, <3>2
    <2>4. g = [i \in 0..n |-> g[i]]
        OBVIOUS
    <2> HIDE DEF g
    <2>5. g = [i \in 0..n |-> IF i = 0 THEN start ELSE SemanticStep(q, g[i - 1], i)]
        BY <2>3, <2>4
    <2>6. n \in 0..Len(q)
        BY <1>0
    <2> QED BY <2>5, <2>6
<1>3. Good \in SUBSET (0..Len(q))
    BY Zenon
<1> HIDE DEF Solves
<1> HIDE DEF Good
<1>4. Len(q) \in Good
    BY <1>0, <1>1, <1>2, <1>3, LeastFailure
<1>5. \E f : f = [i \in 0..Len(q) |-> IF i = 0 THEN start ELSE SemanticStep(q, f[i - 1], i)]
    BY <1>4 DEF Good, Solves
<1>6. PICK f : f = ScanTo(q)
    OBVIOUS
<1>7. f = [i \in 0..Len(q) |-> IF i = 0 THEN start ELSE SemanticStep(q, f[i - 1], i)]
    BY <1>5, <1>6, Zenon DEF ScanTo, start
<1>8. SemanticConversation(q) = f[Len(q)].kept
    BY <1>6, Zenon DEF SemanticConversation, ScanTo
<1>9. f[0] = start
    <2>1. 0 \in 0..Len(q)
        BY <1>0
    <2> QED BY <1>7, <2>1
<1>10. ASSUME NEW i \in 1..Len(q) PROVE f[i] = SemanticStep(q, f[i - 1], i)
    <2>1. i \in 0..Len(q) /\ i # 0
        BY <1>0
    <2> QED BY <1>7, <2>1
<1> QED BY <1>s, <1>6, <1>8, <1>9, <1>10

\* The stored form of a sound conversation is sound, and the same calls wait.
LEMMA Semantic ==
    ASSUME NEW q \in Seq(MessageSet), Sound(q)
    PROVE  LET r == SemanticConversation(q) IN r \in Seq(MessageSet) /\ Sound(r) /\ Pending(r) = Pending(q)
<1> DEFINE Claim(i) == \E k, y, t, b : ScanTo(q)[i] = Acc(k, y, t, b) /\ Scanned(q, i, k, t, b)
           Good == {i \in 0..Len(q) : Claim(i)}
<1>0. Len(q) \in Nat
    OBVIOUS
<1>1. 0 \in Good
    <2>1. 0 \in 0..Len(q)
        BY <1>0
    <2>2. PICK e \in Seq(MessageSet) : e = <<>> /\ Len(e) = 0
        <3>1. <<>> \in Seq(MessageSet) /\ Len(<<>>) = 0
            OBVIOUS
        <3> QED BY <3>1
    <2>3. Sound(e)
        <3>1. DOMAIN e = {}
            BY <2>2
        <3> QED BY <3>1 DEF Sound
    <2>4. Pending(e) = {} /\ Open(q, 0) = {}
        BY <2>2, OpenStart DEF Pending
    <2>5. 0 \in 0..Len(e) /\ ~(0 > 0)
        BY <2>2
    <2>6. Scanned(q, 0, e, 0, FALSE)
        BY <2>3, <2>4, <2>5 DEF Scanned
    <2>7. ScanTo(q)[0] = Acc(e, "", 0, FALSE)
        BY <2>2, ScanEquation
    <2>8. Claim(0)
        BY <2>6, <2>7
    <2> QED BY <2>1, <2>8
<1>2. ASSUME NEW i \in 1..Len(q), i - 1 \in Good PROVE i \in Good
    <2>1. PICK k, y, t, b : ScanTo(q)[i - 1] = Acc(k, y, t, b) /\ Scanned(q, i - 1, k, t, b)
        BY <1>2
    <2>2. ScanTo(q)[i] = SemanticStep(q, Acc(k, y, t, b), i)
        BY <2>1, ScanEquation
    <2>3. \E k2, y2, t2, b2 : SemanticStep(q, Acc(k, y, t, b), i) = Acc(k2, y2, t2, b2) /\ Scanned(q, i, k2, t2, b2)
        BY <2>1, ScanStep
    <2>4. Claim(i)
        BY <2>2, <2>3, Zenon
    <2>5. i \in 0..Len(q)
        BY <1>0
    <2> QED BY <2>4, <2>5
<1>3. Good \in SUBSET (0..Len(q))
    BY Zenon
<1> HIDE DEF Good
<1>4. Good = 0..Len(q)
    BY <1>0, <1>1, <1>2, <1>3, LeastFailure
<1>5. Claim(Len(q))
    <2>1. Len(q) \in Good
        BY <1>0, <1>4
    <2> QED BY <2>1 DEF Good
<1>6. PICK k, y, t, b : ScanTo(q)[Len(q)] = Acc(k, y, t, b) /\ Scanned(q, Len(q), k, t, b)
    BY <1>5
<1>7. SemanticConversation(q) = k
    <2>1. PICK a : a = Acc(k, y, t, b)
        OBVIOUS
    <2>2. a.kept = k
        BY <2>1 DEF Acc
    <2>3. SemanticConversation(q) = ScanTo(q)[Len(q)].kept
        BY ScanEquation
    <2> QED BY <1>6, <2>1, <2>2, <2>3
<1>8. k \in Seq(MessageSet) /\ Sound(k) /\ Pending(k) = Pending(q)
    <2>1. ~(Len(q) < Len(q))
        BY <1>0
    <2> QED BY <1>6, <2>1 DEF Scanned, Pending
<1> QED BY <1>7, <1>8

-----------------------------------------------------------------------------
(* What the Gateway accepts *)

\* Two ways to enumerate a set without repetition are equally long.
Enumerates(f, n, S) ==
    /\ \A k \in 1..n : f[k] \in S
    /\ \A k, l \in 1..n : f[k] = f[l] => k = l
    /\ \A c \in S : \E k \in 1..n : f[k] = c

LEMMA SameLength ==
    ASSUME NEW S, NEW n \in Nat, NEW m \in Nat, NEW f, NEW g, Enumerates(f, n, S), Enumerates(g, m, S)
    PROVE  n = m
<1>1. ASSUME NEW k \in Nat, NEW h, Enumerates(h, k, S) PROVE ExistsBijection(1..k, S)
    <2> DEFINE F == [i \in 1..k |-> h[i]]
    <2>1. F \in [1..k -> S]
        BY <1>1 DEF Enumerates
    <2>2. \A a, b \in 1..k : F[a] = F[b] => a = b
        BY <1>1 DEF Enumerates
    <2>3. \A c \in S : \E a \in 1..k : F[a] = c
        BY <1>1 DEF Enumerates
    <2> HIDE DEF F
    <2>4. F \in Bijection(1..k, S)
        BY <2>1, <2>2, <2>3, Fun_IsBij
    <2> QED BY <2>4, Fun_ExistsBij
<1>2. ExistsBijection(1..n, S) /\ ExistsBijection(1..m, S)
    BY <1>1
<1> QED BY <1>2, Fun_NatBijSame

\* Sound with nothing left open is what the Gateway accepts: each turn has as many
\* results as calls, since they answer different calls and all of them.
LEMMA SoundIsWellFormed ==
    ASSUME NEW q \in Seq(MessageSet), Sound(q), Pending(q) = {}
    PROVE  IsWellFormed(q)
<1> DEFINE N == Len(q)
<1>0. N \in Nat /\ DOMAIN q = 1..N /\ \A j \in 1..N : q[j] \in MessageSet
    OBVIOUS
<1>1. ASSUME NEW j \in 1..N, q[j].kind = "result" PROVE CallsOf(q, j) # 0
    <2>1. q[j].call \in Open(q, j - 1)
        BY <1>0, <1>1 DEF Sound
    <2>2. CallsOf(q, j - 1) # 0
        BY <2>1 DEF Open
    <2> QED BY <1>1, <2>2, OpenStep
<1>2. ASSUME NEW j \in 1..N, q[j].kind = "calls"
      PROVE  \E n \in 0..(N - j) :
                /\ \A k \in 1..n : q[j + k].kind = "result"
                /\ j + n < N => q[j + n + 1].kind # "result"
                /\ n = Len(q[j].calls)
                /\ {q[j + k].call : k \in 1..n} = ToSet(q[j].calls)
    <2> DEFINE M == {m \in 0..(N - j) : j + m = N \/ q[j + m + 1].kind # "result"}
               ids == q[j].calls
    <2>0. j \in Nat /\ N - j \in Nat /\ j + (N - j) = N
        BY <1>0
    <2>1. N - j \in M
        BY <2>0
    <2>2. M \in SUBSET Nat
        BY <2>0
    <2> HIDE DEF M
    <2>3. PICK n \in M : \A m \in M : n <= m
        <3> QED BY <2>1, <2>2, LeastElement
    <2>4. n \in 0..(N - j) /\ (j + n = N \/ q[j + n + 1].kind # "result")
        BY <2>3, Zenon DEF M
    <2>n. j \in Nat /\ N \in Nat /\ n \in Nat /\ j # 0 /\ j + n <= N
        <3>1. n \in 0..(N - j)
            BY <2>4
        <3> QED BY <1>0, <2>0, <3>1
    <2>5. ASSUME NEW k \in 1..n PROVE q[j + k].kind = "result" /\ j + k \in 1..N
        <3>1. k - 1 \in 0..(N - j) /\ ~(n <= k - 1) /\ j + (k - 1) + 1 = j + k /\ j + (k - 1) # N /\ j + k \in 1..N
            BY <2>n
        <3>2. k - 1 \notin M
            BY <2>3, <3>1
        <3> QED BY <3>1, <3>2, Zenon DEF M
    <2>6. ids \in IdSequences
        BY <1>0, <1>2, Kinds
    <2>7. ids \in Seq(CallIds) /\ Len(ids) \in Nat /\ DOMAIN ids = 1..Len(ids)
          /\ \A k, l \in 1..Len(ids) : ids[k] = ids[l] => k = l
        BY <2>6 DEF IdSequences
    <2> HIDE DEF ids
    <2>8. ASSUME NEW k \in 0..n
          PROVE  Open(q, j + k) = {c \in ToSet(ids) : \A x \in (j + 1)..(j + k) : q[x].call # c}
        <3>1. j + k \in 0..N /\ j \in 1..(j + k)
            BY <2>n
        <3>2. \A x \in (j + 1)..(j + k) : q[x].kind = "result"
            <4> SUFFICES ASSUME NEW x \in (j + 1)..(j + k) PROVE q[x].kind = "result"
                OBVIOUS
            <4>1. x - j \in 1..n /\ j + (x - j) = x
                BY <2>n
            <4> QED BY <2>5, <4>1
        <3>3. Reaches(q, j, j + k)
            BY <1>2, <3>1, <3>2 DEF Reaches
        <3>4. CallsOf(q, j + k) = j
            BY <3>1, <3>3, CallsOfIs
        <3>5. j # 0
            BY <2>0
        <3> QED BY <3>4, <3>5 DEF Open, ids
    <2>9. ASSUME NEW k \in 1..n
          PROVE  q[j + k].call \in ToSet(ids) /\ \A l \in 1..(k - 1) : q[j + l].call # q[j + k].call
        <3>1. k - 1 \in 0..n /\ (j + k) - 1 = j + (k - 1)
            BY <2>n
        <3>2. q[j + k].call \in Open(q, j + (k - 1))
            BY <1>0, <2>5, <3>1 DEF Sound
        <3>3. q[j + k].call \in {c \in ToSet(ids) : \A x \in (j + 1)..(j + (k - 1)) : q[x].call # c}
            BY <2>8, <3>1, <3>2
        <3>4. \A l \in 1..(k - 1) : j + l \in (j + 1)..(j + (k - 1))
            BY <2>n
        <3> QED BY <3>3, <3>4
    <2>10. Open(q, j + n) = {}
        <3>1. CASE j + n = N
            BY <3>1 DEF Pending
        <3>2. CASE j + n # N
            <4>1. j + n + 1 \in 1..N /\ (j + n + 1) - 1 = j + n
                BY <2>n, <3>2
            <4> QED BY <1>0, <2>4, <3>2, <4>1 DEF Sound
        <3> QED BY <3>1, <3>2
    <2>11. ASSUME NEW c \in ToSet(ids) PROVE \E k \in 1..n : q[j + k].call = c
        <3>1. n \in 0..n
            BY <2>n
        <3>2. PICK x \in (j + 1)..(j + n) : q[x].call = c
            BY <2>8, <2>10, <3>1
        <3>3. x - j \in 1..n /\ j + (x - j) = x
            BY <2>n
        <3> QED BY <3>2, <3>3
    <2>12. n = Len(ids)
        <3> DEFINE f == [k \in 1..n |-> q[j + k].call]
        <3>1. \A k \in 1..n : f[k] = q[j + k].call
            OBVIOUS
        <3> HIDE DEF f
        <3>2. \A k, l \in 1..n : f[k] = f[l] => k = l
            <4> SUFFICES ASSUME NEW k \in 1..n, NEW l \in 1..n, k < l PROVE f[k] # f[l]
                BY <2>n
            <4>1. k \in 1..(l - 1)
                BY <2>n
            <4> QED BY <2>9, <3>1, <4>1
        <3>3. Enumerates(f, n, ToSet(ids))
            BY <2>9, <2>11, <3>1, <3>2 DEF Enumerates
        <3>4. Enumerates(ids, Len(ids), ToSet(ids))
            BY <2>7 DEF Enumerates, ToSet
        <3> QED BY <2>n, <2>7, <3>3, <3>4, SameLength
    <2>13. {q[j + k].call : k \in 1..n} = ToSet(ids)
        BY <2>9, <2>11
    <2>14. j + n < N => q[j + n + 1].kind # "result"
        <3>1. j + n < N => j + n # N
            BY <2>n
        <3> QED BY <2>4, <3>1
    <2> QED BY <2>4, <2>5, <2>12, <2>13, <2>14 DEF ids
<1> HIDE DEF N
<1> QED BY <1>0, <1>1, <1>2 DEF IsWellFormed, N

-----------------------------------------------------------------------------
(* The conversation of a Run, and the stored one *)

\* The call that a tool is working on, or has answered.
InHand == IF pc \in {"executing", "record"} THEN {Head(queue)} ELSE {}

\* The mutating calls that may have taken effect and that no summary of the
\* model's own has left out.
Owed == (effects \intersect Mutations) \ dropped

\* What is stored may end in calls that wait for a result, since a Run may be cut
\* there, but in nothing else that is out of place; what it does not answer yet
\* the next Run will read as unknown.
StoredInv ==
    /\ conv \in Seq(MessageSet) /\ Sound(conv)
    /\ verbatim => Owed \subseteq Remembered(conv) \union Pending(conv)

\* The goroutine's copy waits for the calls still to be handled and no others, and
\* says of every other mutation whether it may have happened.
HeldInv ==
    /\ messages \in Seq(MessageSet) /\ Sound(messages)
    /\ Pending(messages) = IF pc \in Handling THEN ToSet(queue) ELSE {}
    /\ verbatim /\ pc \notin {"gone", "brief"}
       => Owed \subseteq Remembered(messages) \union InHand
    /\ verbatim /\ pc \in Handling => conv = messages

\* A result that is about to be recorded does not deny what was done.
ResultInv ==
    pc = "record" => /\ pendingResult \in ToolAnswers(Head(queue))
                     /\ pendingResult.outcome = "not_executed" => Head(queue) \notin effects

\* The blocks still to be looked at are folded messages.
BlocksInv == Written(messages, blocks)

\* The inductive invariant of both theorems, with BlocksInv.
TalkInv == StoredInv /\ HeldInv /\ ResultInv

\* saveConversation
LEMMA StoredIs ==
    ASSUME NEW q \in Seq(MessageSet), Sound(q)
    PROVE  /\ Stored(q) \in Seq(MessageSet) /\ Sound(Stored(q)) /\ Pending(Stored(q)) = Pending(q)
           /\ verbatim => Stored(q) = q
<1>1. CASE verbatim
    BY <1>1 DEF Stored
<1>2. CASE ~verbatim
    BY <1>2, Semantic DEF Stored
<1> QED BY <1>1, <1>2

\* A goroutine that ends, or that starts, holds nothing.
LEMMA EndedTalk ==
    ASSUME Reset, pc' \in {"gone", "brief"}, StoredInv'
    PROVE  TalkInv'
<1>1. messages' = <<>>
    BY DEF Reset
<1>2. PICK e \in Seq(MessageSet) : e = <<>> /\ Len(e) = 0
    <2>1. <<>> \in Seq(MessageSet) /\ Len(<<>>) = 0
        OBVIOUS
    <2> QED BY <2>1
<1>3. Sound(e)
    <2>1. DOMAIN e = {}
        BY <1>2
    <2> QED BY <2>1 DEF Sound
<1>4. Pending(e) = {}
    BY <1>2, OpenStart DEF Pending
<1>5. pc' \notin Handling /\ pc' # "record"
    BY DEF Handling
<1>6. HeldInv'
    BY <1>1, <1>2, <1>3, <1>4, <1>5 DEF HeldInv, Owed
<1>7. ResultInv'
    BY <1>5 DEF ResultInv
<1> QED BY <1>6, <1>7 DEF TalkInv

LEMMA StoredAsBefore ==
    ASSUME StoredInv, UNCHANGED <<verbatim, conv, effects, dropped>>
    PROVE  StoredInv'
BY DEF StoredInv, Owed

\* Between the tools of a Run: what it holds grows, or is compacted.
LEMMA NextTalk ==
    ASSUME TalkInv, NEW m \in Seq(MessageSet), messages' = m, Sound(m), Pending(m) = {},
           pc \notin {"gone", "brief", "executing", "record"}, pc' \notin Handling,
           UNCHANGED <<verbatim, effects, dropped>>, Remembered(messages) \subseteq Remembered(m), StoredInv'
    PROVE  TalkInv'
<1>1. verbatim => Owed \subseteq Remembered(messages)
    BY DEF TalkInv, HeldInv, Owed, InHand
<1>2. pc' # "record"
    BY DEF Handling
<1>3. HeldInv'
    BY <1>1 DEF HeldInv, Owed
<1>4. ResultInv'
    BY <1>2 DEF ResultInv
<1> QED BY <1>3, <1>4 DEF TalkInv

\* What the Run holds is saved while no tool is at work.
LEMMA SavedTalk ==
    ASSUME NEW m \in Seq(MessageSet), Sound(m), conv' = Stored(m), UNCHANGED verbatim,
           verbatim => Owed' \subseteq Remembered(m) \union Pending(m)
    PROVE  StoredInv'
<1>1. /\ Stored(m) \in Seq(MessageSet) /\ Sound(Stored(m)) /\ Pending(Stored(m)) = Pending(m)
      /\ verbatim => Stored(m) = m
    BY StoredIs
<1> QED BY <1>1 DEF StoredInv, Owed

LEMMA SameTalk ==
    ASSUME TalkInv, UNCHANGED <<verbatim, conv, messages, effects, dropped, queue, pendingResult>>,
           pc' = pc \/ (pc \notin {"gone", "brief"} \union Handling /\ pc' \notin {"gone", "brief"} \union Handling)
    PROVE  TalkInv'
<1>1. StoredInv'
    BY StoredAsBefore DEF TalkInv
<1>2. CASE pc' = pc
    <2>1. HeldInv'
        BY <1>2 DEF TalkInv, HeldInv, Owed, InHand
    <2>2. ResultInv'
        BY <1>2 DEF TalkInv, ResultInv
    <2> QED BY <1>1, <2>1, <2>2 DEF TalkInv
<1>3. CASE pc \notin {"gone", "brief"} \union Handling /\ pc' \notin {"gone", "brief"} \union Handling
    <2>1. pc' \notin Handling /\ pc' # "record" /\ InHand = {} /\ InHand' = {}
        BY <1>3 DEF Handling, InHand
    <2>2. HeldInv'
        BY <1>3, <2>1 DEF TalkInv, HeldInv, Owed
    <2>3. ResultInv'
        BY <2>1 DEF ResultInv
    <2> QED BY <1>1, <2>2, <2>3 DEF TalkInv
<1> QED BY <1>2, <1>3

\* A message that is neither a call nor a result.
LEMMA SaidTalk ==
    ASSUME TalkInv, pc \notin {"gone", "brief"} \union Handling, NEW x \in Plain
    PROVE  LET m == Append(messages, x)
           IN  /\ m \in Seq(MessageSet) /\ Sound(m) /\ Pending(m) = {} /\ Remembered(messages) \subseteq Remembered(m)
               /\ verbatim => Owed \subseteq Remembered(m)
<1>1. messages \in Seq(MessageSet) /\ Sound(messages) /\ Pending(messages) = {}
    BY DEF TalkInv, HeldInv, Owed
<1>2. verbatim => Owed \subseteq Remembered(messages)
    <2>1. InHand = {}
        BY DEF InHand, Handling
    <2> QED BY <2>1 DEF TalkInv, HeldInv, Owed
<1>3. x \in MessageSet /\ x.kind \notin {"calls", "result"}
    BY Kinds
<1>4. PICK q \in Seq(MessageSet) : q = messages
    BY <1>1
<1>5. Append(q, x) \in Seq(MessageSet) /\ Sound(Append(q, x)) /\ Pending(Append(q, x)) = {}
    BY <1>1, <1>3, <1>4, AppendSound
<1>6. Remembered(Append(q, x)) = Remembered(q) \union Lines(x)
    BY <1>3, RememberedAppend
<1> QED BY <1>2, <1>4, <1>5, <1>6

\* The Run reads what was stored, completed, with its wake-up message.
LEMMA BriefTalk ==
    ASSUME TalkInv, Brief
    PROVE  TalkInv'
<1>1. /\ messages' = Append(CompleteToolResults(conv), Wake) /\ conv' = Stored(messages') /\ pc' = "top"
      /\ UNCHANGED <<verbatim, effects, dropped>>
    BY DEF Brief, LoadConversation, worldVars
<1>2. PICK c \in Seq(MessageSet) : c = conv /\ Sound(c)
    BY DEF TalkInv, StoredInv, Owed
<1>3. PICK r : r = CompleteToolResults(c)
    OBVIOUS
<1>4. /\ r \in Seq(MessageSet) /\ Sound(r) /\ Pending(r) = {}
      /\ Remembered(r) = Remembered(c) \union (Pending(c) \intersect Mutations)
    BY <1>2, <1>3, Completed
<1>5. Wake \in MessageSet /\ Wake.kind \notin {"calls", "result"}
    BY Kinds
<1>6. PICK m \in Seq(MessageSet) : m = Append(r, Wake) /\ Sound(m) /\ Pending(m) = {}
    BY <1>4, <1>5, AppendSound
<1>7. Remembered(m) = Remembered(r) \union Lines(Wake)
    BY <1>4, <1>5, <1>6, RememberedAppend
<1>8. verbatim => Owed \subseteq Remembered(m)
    BY <1>2, <1>4, <1>7 DEF TalkInv, StoredInv, Owed
<1>9. messages' = m
    BY <1>1, <1>2, <1>3, <1>6
<1>10. StoredInv'
    <2>1. conv' = Stored(m)
        BY <1>1, <1>9
    <2>2. Owed' = Owed
        BY <1>1 DEF Owed
    <2>3. verbatim => Owed' \subseteq Remembered(m) \union Pending(m)
        BY <1>8, <2>2
    <2> QED BY <1>1, <1>6, <2>1, <2>3, SavedTalk
<1>11. pc' \notin Handling /\ pc' # "record" /\ InHand' = {}
    BY <1>1 DEF Handling, InHand
<1>12. HeldInv'
    BY <1>1, <1>6, <1>8, <1>9, <1>11 DEF HeldInv, Owed
<1>13. ResultInv'
    BY <1>11 DEF ResultInv
<1> QED BY <1>10, <1>12, <1>13 DEF TalkInv

\* One message more, saved or not.
LEMMA SpokenTalk ==
    ASSUME TalkInv, pc \notin {"gone", "brief"} \union Handling, pc' \notin Handling, NEW x \in Plain,
           messages' = Append(messages, x), conv' = conv \/ conv' = Stored(messages'), UNCHANGED <<verbatim, effects, dropped>>
    PROVE  TalkInv'
<1>1. PICK m \in Seq(MessageSet) :
        /\ m = Append(messages, x) /\ Sound(m) /\ Pending(m) = {} /\ Remembered(messages) \subseteq Remembered(m)
        /\ verbatim => Owed \subseteq Remembered(m)
    BY SaidTalk
<1>2. StoredInv'
    <2>1. CASE conv' = conv
        BY <2>1, StoredAsBefore DEF TalkInv
    <2>2. CASE conv' = Stored(messages')
        <3>1. conv' = Stored(m)
            BY <1>1, <2>2
        <3>2. Owed' = Owed
            BY DEF Owed
        <3>3. verbatim => Owed' \subseteq Remembered(m) \union Pending(m)
            BY <1>1, <3>2
        <3> QED BY <1>1, <3>1, <3>3, SavedTalk
    <2> QED BY <2>1, <2>2
<1>3. pc \notin {"gone", "brief", "executing", "record"}
    BY DEF Handling
<1> QED BY <1>1, <1>2, <1>3, NextTalk

LEMMA TopTalk ==
    ASSUME TalkInv, Top
    PROVE  TalkInv'
<1>1. /\ pc = "top" /\ pc' = "call" /\ UNCHANGED <<verbatim, effects, dropped, queue, pendingResult>>
    BY DEF Top, Working, worldVars
<1>2. \/ UNCHANGED <<messages, conv>>
      \/ messages' = Append(messages, Instruction) /\ conv' = conv
      \/ messages' = Append(messages, ChatMention) /\ conv' = Stored(messages')
    BY DEF Top
<1>3. pc \notin {"gone", "brief"} \union Handling /\ pc' \notin {"gone", "brief"} \union Handling
    BY <1>1 DEF Handling
<1>4. Instruction \in Plain /\ ChatMention \in Plain
    BY Kinds
<1>5. CASE UNCHANGED <<messages, conv>>
    BY <1>1, <1>3, <1>5, SameTalk
<1>6. CASE messages' = Append(messages, Instruction) /\ conv' = conv
    BY <1>1, <1>3, <1>4, <1>6, SpokenTalk
<1>7. CASE messages' = Append(messages, ChatMention) /\ conv' = Stored(messages')
    BY <1>1, <1>3, <1>4, <1>7, SpokenTalk
<1> QED BY <1>2, <1>5, <1>6, <1>7

LEMMA CompactTalk ==
    ASSUME TalkInv, Compact
    PROVE  TalkInv' /\ BlocksInv'
<1>1. PICK enough \in BOOLEAN :
        /\ messages' = CompactConversation(messages, enough).messages
        /\ blocks' = CompactConversation(messages, enough).blocks
    BY DEF Compact
<1>2. pc = "call" /\ pc' = "compacted" /\ UNCHANGED <<verbatim, conv, effects, dropped>>
    BY DEF Compact, Working, dbVars, worldVars
<1>3. pc \notin Handling /\ pc \notin {"gone", "brief", "executing", "record"} /\ pc' \notin Handling
    BY <1>2 DEF Handling
<1>4. PICK q \in Seq(MessageSet) : q = messages /\ Sound(q) /\ Pending(q) = {}
    BY <1>3 DEF TalkInv, HeldInv
<1>5. PICK m, w : m = CompactConversation(q, enough).messages /\ w = CompactConversation(q, enough).blocks
    OBVIOUS
<1>6. m \in Seq(MessageSet) /\ Sound(m) /\ Pending(m) = {} /\ Remembered(m) = Remembered(q) /\ Written(m, w)
    BY <1>4, <1>5, Compacted
<1>7. StoredInv'
    BY <1>2, StoredAsBefore DEF TalkInv
<1>8. messages' = m /\ blocks' = w /\ Remembered(messages) \subseteq Remembered(m)
    BY <1>1, <1>4, <1>5, <1>6
<1>9. BlocksInv'
    BY <1>6, <1>8 DEF BlocksInv
<1> QED BY <1>2, <1>3, <1>6, <1>7, <1>8, <1>9, NextTalk

\* A folded message in the words of the model.
Reworded(q, i, text) == [q EXCEPT ![i] = History(text)]

LEMMA Summarized ==
    ASSUME NEW q \in Seq(MessageSet), Sound(q), NEW i \in Nat, IsBlock(q, i), NEW text \in SUBSET q[i].lines,
           NEW p, p = Reworded(q, i, text)
    PROVE  /\ p \in Seq(MessageSet) /\ Sound(p) /\ Pending(p) = Pending(q)
           /\ Remembered(q) \subseteq Remembered(p) \union (q[i].lines \ text)
           /\ \A k : IsBlock(q, k) => IsBlock(p, k)
<1>1. i \in 1..Len(q) /\ q[i].kind = "history" /\ q[i] \in MessageSet /\ DOMAIN q = 1..Len(q) /\ Len(q) \in Nat
    BY DEF IsBlock
<1>2. q[i] \in Plain /\ q[i].lines \in SUBSET CallIds
    BY <1>1, Kinds
<1>3. PICK l \in SUBSET CallIds : l = text
    BY <1>2
<1>4. PICK h : h = History(l) /\ h.kind = "history" /\ h.lines = l
    <2>1. PICK h : h = History(l)
        OBVIOUS
    <2>2. h.kind = "history" /\ h.lines = l
        BY <2>1 DEF History
    <2> QED BY <2>1, <2>2
<1>5. h \in MessageSet
    <2>1. h \in Plain
        BY <1>4 DEF Plain
    <2> QED BY <2>1, Kinds
<1>6. PICK r \in Seq(MessageSet) : r = [q EXCEPT ![i] = h]
    <2>1. [q EXCEPT ![i] = h] \in Seq(MessageSet)
        BY <1>1, <1>5, ExceptSeq
    <2> QED BY <2>1
<1>7. Len(r) = Len(q) /\ r[i] = h /\ \A k \in 1..Len(q) : k # i => r[k] = q[k]
    BY <1>1, <1>5, <1>6, ExceptSeq
<1>8. \A k \in 1..Len(q) : Alike(q[k], r[k])
    <2> SUFFICES ASSUME NEW k \in 1..Len(q) PROVE Alike(q[k], r[k])
        OBVIOUS
    <2>1. CASE k = i
        BY <1>1, <1>4, <1>7, <2>1 DEF Alike
    <2>2. CASE k # i
        BY <1>7, <2>2 DEF Alike
    <2> QED BY <2>1, <2>2
<1>9. Sound(r) /\ Pending(r) = Pending(q)
    BY <1>7, <1>8, AlikeSound
<1>10. Remembered(q) \subseteq Remembered(r) \union (q[i].lines \ text)
    <2> SUFFICES ASSUME NEW c \in Remembered(q), c \notin q[i].lines \ text PROVE c \in Remembered(r)
        OBVIOUS
    <2>1. PICK k \in 1..Len(q) : c \in Lines(q[k])
        BY RememberedIs
    <2>2. CASE k = i
        <3>1. c \in q[i].lines
            BY <1>1, <2>1, <2>2 DEF Lines
        <3>2. c \in l
            BY <1>3, <3>1
        <3>3. c \in Lines(r[i])
            BY <1>4, <1>7, <3>2 DEF Lines
        <3> QED BY <1>1, <1>7, <3>3, RememberedIs
    <2>3. CASE k # i
        <3>1. c \in Lines(r[k]) /\ k \in 1..Len(r)
            BY <1>7, <2>1, <2>3
        <3> QED BY <3>1, RememberedIs
    <2> QED BY <2>2, <2>3
<1>11. ASSUME NEW k, IsBlock(q, k) PROVE IsBlock(r, k)
    <2>1. k \in 1..Len(q) /\ q[k].kind = "history"
        BY <1>11 DEF IsBlock
    <2>2. r[k].kind = "history"
        BY <1>4, <1>7, <2>1
    <2> QED BY <1>7, <2>1, <2>2 DEF IsBlock
<1>12. r = p
    BY <1>3, <1>4, <1>6 DEF Reworded
<1> QED BY <1>9, <1>10, <1>11, <1>12

LEMMA SummarizeTalk ==
    ASSUME LoopTypes, TalkInv, BlocksInv, Summarize
    PROVE  TalkInv' /\ BlocksInv'
<1>1. /\ pc = "compacted" /\ pc' = pc /\ blocks # <<>> /\ blocks' = Tail(blocks)
      /\ UNCHANGED <<verbatim, conv, effects, queue, pendingResult>>
    BY DEF Summarize, Working, dbVars
<1>2. pc \notin Handling /\ pc \notin {"gone", "brief"} /\ pc' # "record" /\ InHand = {} /\ InHand' = {}
    BY <1>1 DEF Handling, InHand
<1>3. PICK q \in Seq(MessageSet) : q = messages /\ Sound(q) /\ Pending(q) = {}
    BY <1>2 DEF TalkInv, HeldInv
<1>4. PICK w \in Seq(Nat) : w = blocks /\ \A k \in 1..Len(w) : IsBlock(q, w[k])
    BY <1>3 DEF BlocksInv, Written
<1>5. Len(w) \in Nat /\ Len(w) # 0
    BY <1>1, <1>4
<1>6. PICK i \in Nat : i = Head(w) /\ IsBlock(q, i)
    <2>1. Head(w) = w[1] /\ 1 \in 1..Len(w) /\ w[1] \in Nat
        BY <1>5
    <2> QED BY <1>4, <2>1
<1>7. PICK t \in Seq(Nat) : t = Tail(w) /\ \A k \in 1..Len(t) : IsBlock(q, t[k])
    <2>1. PICK t \in Seq(Nat) : t = Tail(w) /\ Len(t) = Len(w) - 1 /\ \A k \in 1..Len(t) : t[k] = w[k + 1]
        <3>1. Tail(w) \in Seq(Nat) /\ Len(Tail(w)) = Len(w) - 1 /\ \A k \in 1..Len(Tail(w)) : Tail(w)[k] = w[k + 1]
            BY <1>5
        <3> QED BY <3>1
    <2>2. \A k \in 1..Len(t) : k + 1 \in 1..Len(w)
        BY <1>5, <2>1
    <2> QED BY <1>4, <2>1, <2>2
<1>8. blocks' = t
    BY <1>1, <1>4, <1>7
<1>9. verbatim => Owed \subseteq Remembered(q)
    BY <1>2, <1>3 DEF TalkInv, HeldInv
<1>10. CASE UNCHANGED <<messages, dropped>>
    <2>1. TalkInv'
        BY <1>1, <1>10, SameTalk
    <2>2. BlocksInv'
        BY <1>3, <1>7, <1>8, <1>10 DEF BlocksInv, Written
    <2> QED BY <2>1, <2>2
<1>11. ASSUME NEW text \in SUBSET q[i].lines, messages' = [q EXCEPT ![i] = History(text)],
              dropped' = dropped \union (q[i].lines \ text)
       PROVE  TalkInv' /\ BlocksInv'
    <2>1. PICK r : r = Reworded(q, i, text)
        OBVIOUS
    <2>2. /\ r \in Seq(MessageSet) /\ Sound(r) /\ Pending(r) = Pending(q)
          /\ Remembered(q) \subseteq Remembered(r) \union (q[i].lines \ text)
          /\ \A k : IsBlock(q, k) => IsBlock(r, k)
        <3>1. Sound(q) /\ IsBlock(q, i)
            BY <1>3, <1>6
        <3> QED BY <2>1, <3>1, Summarized
    <2>3. messages' = r
        BY <1>11, <2>1 DEF Reworded
    <2>4. Owed' = Owed \ (q[i].lines \ text)
        BY <1>1, <1>11 DEF Owed
    <2>5. verbatim' => Owed' \subseteq Remembered(r)
        BY <1>1, <1>9, <2>2, <2>4
    <2>6. HeldInv'
        BY <1>1, <1>2, <1>3, <2>2, <2>3, <2>5 DEF HeldInv
    <2>7. StoredInv'
        BY <1>1, <2>4 DEF TalkInv, StoredInv
    <2>8. ResultInv'
        BY <1>2 DEF ResultInv
    <2>9. BlocksInv'
        BY <1>7, <1>8, <2>2, <2>3 DEF BlocksInv, Written
    <2> QED BY <2>6, <2>7, <2>8, <2>9 DEF TalkInv
<1>12. \/ UNCHANGED <<messages, dropped>>
       \/ \E text \in SUBSET q[i].lines : /\ messages' = [q EXCEPT ![i] = History(text)]
                                           /\ dropped' = dropped \union (q[i].lines \ text)
    BY <1>3, <1>4, <1>6 DEF Summarize
<1> QED BY <1>10, <1>11, <1>12

LEMMA RejectTalk ==
    ASSUME NEW said, NEW stored, Reject(said, stored)
    PROVE  /\ conv' = stored /\ UNCHANGED verbatim
           /\ \/ pc' = "gone" /\ Reset
              \/ pc' = "top" /\ messages' = messages \o said \o <<Instruction>>
BY DEF Reject, EndAs

LEMMA InvalidTalk ==
    ASSUME TalkInv, InvalidAnswer
    PROVE  TalkInv'
<1>1. Reject(<<Answer>>, conv) /\ pc = "generating" /\ UNCHANGED <<effects, dropped>>
    BY DEF InvalidAnswer, Working, worldVars
<1>2. conv' = conv /\ UNCHANGED verbatim
    BY <1>1, RejectTalk
<1>3. StoredInv'
    BY <1>1, <1>2, StoredAsBefore DEF TalkInv
<1>4. CASE pc' = "gone" /\ Reset
    BY <1>3, <1>4, EndedTalk
<1>5. CASE pc' = "top" /\ messages' = messages \o <<Answer>> \o <<Instruction>>
    <2>1. pc \notin {"gone", "brief"} \union Handling /\ pc' \notin Handling /\ pc \notin {"gone", "brief", "executing", "record"}
        BY <1>1, <1>5 DEF Handling
    <2>2. Answer \in Plain /\ Instruction \in Plain
        BY Kinds
    <2>3. PICK m \in Seq(MessageSet) :
            m = Append(messages, Answer) /\ Sound(m) /\ Pending(m) = {} /\ Remembered(messages) \subseteq Remembered(m)
        BY <2>1, <2>2, SaidTalk
    <2>4. Instruction \in MessageSet /\ Instruction.kind \notin {"calls", "result"}
        BY <2>2, Kinds
    <2>5. PICK w \in Seq(MessageSet) : w = Append(m, Instruction) /\ Sound(w) /\ Pending(w) = {}
        BY <2>3, <2>4, AppendSound
    <2>6. Remembered(w) = Remembered(m) \union Lines(Instruction)
        BY <2>4, <2>5, RememberedAppend
    <2>7. messages' = w
        <3>1. messages \in Seq(MessageSet) /\ Answer \in MessageSet
            BY <2>2, Kinds DEF TalkInv, HeldInv, Owed
        <3>2. m = messages \o <<Answer>> /\ w = m \o <<Instruction>>
            BY <2>3, <2>4, <2>5, <3>1, AppendIsConcat
        <3> QED BY <1>5, <3>2
    <2> QED BY <1>1, <1>2, <1>3, <2>1, <2>3, <2>5, <2>6, <2>7, NextTalk
<1> QED BY <1>1, <1>4, <1>5, RejectTalk

IsResult(r, c, e, o) == r = Result(c, e, o)

MayHaveHappened(e, o) == e = "" \/ o = "unknown"

LEMMA ResultIs ==
    ASSUME NEW c \in CallIds, NEW e \in ErrorTexts, NEW o \in Outcomes, NEW r, IsResult(r, c, e, o)
    PROVE  /\ r \in Results /\ r \in MessageSet /\ r.kind = "result" /\ r.call = c /\ r.outcome = o
           /\ MayHaveHappened(e, o) => Lines(r) = {c} \intersect Mutations
<1>1. PICK own \in SUBSET CallIds : own = {c}
    OBVIOUS
<1>2. r = [kind |-> "result", call |-> c, error |-> e, outcome |-> o, stands |-> own]
    BY <1>1 DEF IsResult, Result
<1>3. r \in Results
    BY <1>2 DEF Results
<1>4. r.kind = "result" /\ r.call = c /\ r.error = e /\ r.outcome = o /\ r.stands = own
    BY <1>2
<1>5. (e = "" \/ o = "unknown") => KeptLines(r) = {c} \intersect Mutations
    BY <1>1, <1>4 DEF KeptLines
<1>6. (e = "" \/ o = "unknown") => Lines(r) = {c} \intersect Mutations
    BY <1>4, <1>5 DEF Lines
<1> QED BY <1>3, <1>4, <1>6, Kinds DEF MayHaveHappened

LEMMA NewIds ==
    ASSUME LoopTypes, NEW n \in Nat, fresh + n <= MaxCalls
    PROVE  NewCalls(n) \in IdSequences
<1>1. /\ NewCalls(n) \in Seq(CallIds) /\ Len(NewCalls(n)) = n
      /\ \A k \in 1..n : NewCalls(n)[k] = fresh + k
    BY NewCallsAre
<1>2. fresh \in Nat
    BY DEF LoopTypes
<1>3. PICK ids \in Seq(CallIds) : ids = NewCalls(n)
    BY <1>1
<1>4. DOMAIN ids = 1..n /\ \A k \in 1..n : ids[k] = fresh + k
    BY <1>1, <1>3
<1>5. \A k, l \in 1..n : ids[k] = ids[l] => k = l
    BY <1>2, <1>4
<1> QED BY <1>3, <1>4, <1>5 DEF IdSequences

\* A response with calls, as a message.
LEMMA AskedTalk ==
    ASSUME TalkInv, pc = "generating", NEW ids \in IdSequences
    PROVE  LET m == Append(messages, Calls(ids))
           IN  /\ m \in Seq(MessageSet) /\ Sound(m) /\ Pending(m) = ToSet(ids) /\ Remembered(messages) \subseteq Remembered(m)
               /\ verbatim => Owed \subseteq Remembered(m)
<1>1. pc \notin Handling /\ pc \notin {"gone", "brief"} /\ InHand = {}
    BY DEF Handling, InHand
<1>2. PICK q \in Seq(MessageSet) : q = messages /\ Sound(q) /\ Pending(q) = {}
    BY <1>1 DEF TalkInv, HeldInv, Owed
<1>3. verbatim => Owed \subseteq Remembered(q)
    BY <1>1, <1>2 DEF TalkInv, HeldInv, Owed
<1>4. PICK x \in MessageSet : x = Calls(ids) /\ x.kind = "calls" /\ x.calls = ids
    BY Kinds
<1>5. Append(q, x) \in Seq(MessageSet) /\ Sound(Append(q, x)) /\ Pending(Append(q, x)) = ToSet(ids)
    BY <1>2, <1>4, AppendSound
<1>6. Remembered(Append(q, x)) = Remembered(q) \union Lines(x)
    BY RememberedAppend
<1> QED BY <1>2, <1>3, <1>4, <1>5, <1>6

LEMMA ToolCallsTalk ==
    ASSUME LoopTypes, TalkInv, NEW n \in Nat, NEW allowed, ToolCalls(n, allowed)
    PROVE  TalkInv'
<1> DEFINE ids == NewCalls(n)
           denied == [k \in 1..n |-> Result(ids[k], "TOOL_DISABLED", "not_executed")]
           asked == Append(messages, Calls(ids))
<1>1. /\ pc = "generating" /\ fresh + n <= MaxCalls /\ UNCHANGED <<effects, dropped>>
      /\ \/ Reject(<<Calls(ids)>> \o denied, Stored(asked))
         \/ /\ messages' = asked /\ conv' = Stored(asked) /\ queue' = ids /\ pc' = "tool"
            /\ UNCHANGED verbatim
    BY Zenon DEF ToolCalls, Working
<1>2. ids \in IdSequences
    BY <1>1, NewIds
<1>3. ids \in Seq(CallIds) /\ Len(ids) = n /\ \A k \in 1..n : ids[k] \in CallIds
    BY <1>1, NewCallsAre
<1> HIDE DEF ids
<1>4. PICK m \in Seq(MessageSet) :
        /\ m = asked /\ Sound(m) /\ Pending(m) = ToSet(ids) /\ Remembered(messages) \subseteq Remembered(m)
        /\ verbatim => Owed \subseteq Remembered(m)
    BY <1>1, <1>2, AskedTalk
<1>5. ASSUME conv' = Stored(asked), UNCHANGED verbatim PROVE StoredInv'
    <2>1. conv' = Stored(m)
        BY <1>4, <1>5
    <2>2. Owed' = Owed
        BY <1>1 DEF Owed
    <2>3. verbatim => Owed' \subseteq Remembered(m) \union Pending(m)
        BY <1>4, <2>2
    <2> QED BY <1>4, <1>5, <2>1, <2>3, SavedTalk
<1>6. CASE Reject(<<Calls(ids)>> \o denied, Stored(asked))
    <2>1. StoredInv' /\ UNCHANGED verbatim
        BY <1>5, <1>6, RejectTalk
    <2>2. CASE pc' = "gone" /\ Reset
        BY <2>1, <2>2, EndedTalk
    <2>3. CASE pc' = "top" /\ messages' = messages \o (<<Calls(ids)>> \o denied) \o <<Instruction>>
        <3>1. "TOOL_DISABLED" \in ErrorTexts /\ "not_executed" \in Outcomes
            BY DEF ErrorTexts, Outcomes
        <3>2. \A k \in 1..n : /\ denied[k] \in MessageSet
                              /\ denied[k].kind = "result" /\ denied[k].call = ids[k]
            <4> SUFFICES ASSUME NEW k \in 1..n
                         PROVE  denied[k] \in MessageSet /\ denied[k].kind = "result" /\ denied[k].call = ids[k]
                OBVIOUS
            <4>1. PICK c \in CallIds : c = ids[k]
                BY <1>3
            <4>2. PICK r : r = Result(c, "TOOL_DISABLED", "not_executed")
                OBVIOUS
            <4>3. r \in MessageSet /\ r.kind = "result" /\ r.call = c
                <5>1. IsResult(r, c, "TOOL_DISABLED", "not_executed")
                    BY <4>2 DEF IsResult
                <5> QED BY <3>1, <5>1, ResultIs
            <4>4. denied[k] = r
                BY <4>1, <4>2
            <4> QED BY <4>1, <4>3, <4>4
        <3>3. denied \in Seq(MessageSet) /\ Len(denied) = n
            <4>1. denied = [k \in 1..n |-> denied[k]]
                OBVIOUS
            <4> HIDE DEF denied
            <4>2. denied \in [1..n -> MessageSet]
                BY <3>2, <4>1
            <4> QED BY <4>2
        <3>4. Answers(denied, ids)
            BY <1>3, <3>2, <3>3 DEF Answers
        <3> HIDE DEF denied, asked
        <3>5. PICK w \in Seq(MessageSet) : w = m \o denied /\ Sound(w) /\ Pending(w) = {}
            BY <1>2, <1>4, <3>3, <3>4, AnswersSound
        <3>6. Remembered(w) = Remembered(m) \union Remembered(denied)
            BY <3>3, <3>5, RememberedConcat
        <3>7. Instruction \in MessageSet /\ Instruction.kind \notin {"calls", "result"}
            BY Kinds
        <3>8. PICK v \in Seq(MessageSet) : v = Append(w, Instruction) /\ Sound(v) /\ Pending(v) = {}
            BY <3>5, <3>7, AppendSound
        <3>9. Remembered(v) = Remembered(w) \union Lines(Instruction)
            BY <3>7, <3>8, RememberedAppend
        <3>10. messages' = v
            <4>1. PICK x \in Seq(MessageSet), y \in Seq(MessageSet) : x = messages /\ y = <<Calls(ids)>>
                <5>1. messages \in Seq(MessageSet) /\ Calls(ids) \in MessageSet
                    BY <1>2, Kinds DEF TalkInv, HeldInv, Owed
                <5>2. <<Calls(ids)>> \in Seq(MessageSet)
                    BY <5>1
                <5> QED BY <5>1, <5>2
            <4>2. m = x \o y
                <5>1. Calls(ids) \in MessageSet
                    BY <1>2, Kinds
                <5> QED BY <1>4, <4>1, <5>1, AppendIsConcat DEF asked
            <4>3. (x \o y) \o denied = x \o (y \o denied)
                BY <3>3, ConcatAssociative, SMTT(30)
            <4>4. v = w \o <<Instruction>>
                BY <3>7, <3>8, AppendIsConcat
            <4> QED BY <2>3, <3>5, <4>1, <4>2, <4>3, <4>4
        <3>11. pc \notin {"gone", "brief", "executing", "record"} /\ pc' \notin Handling
            BY <1>1, <2>3 DEF Handling
        <3> QED BY <1>1, <1>4, <2>1, <3>6, <3>8, <3>9, <3>10, <3>11, NextTalk
    <2> QED BY <1>6, <2>2, <2>3, RejectTalk
<1>7. CASE messages' = asked /\ conv' = Stored(asked) /\ queue' = ids /\ pc' = "tool" /\ UNCHANGED verbatim
    <2>1. StoredInv'
        BY <1>5, <1>7
    <2>2. pc' \in Handling /\ pc' # "record"
        BY <1>7 DEF Handling
    <2>3. verbatim => conv' = m
        BY <1>4, <1>7, StoredIs
    <2>4. HeldInv'
        BY <1>1, <1>4, <1>7, <2>2, <2>3 DEF HeldInv, Owed
    <2>5. ResultInv'
        BY <2>2 DEF ResultInv
    <2> QED BY <2>1, <2>4, <2>5 DEF TalkInv
<1> QED BY <1>1, <1>6, <1>7

-----------------------------------------------------------------------------
(* The calls of a response *)

LEMMA QueueRest ==
    ASSUME LoopTypes, QueueInv, queue # <<>>
    PROVE  Head(queue) \in ToSet(queue) /\ ToSet(Tail(queue)) = ToSet(queue) \ {Head(queue)}
<1>1. /\ Head(queue) = queue[1] /\ Len(queue) \in Nat \ {0}
      /\ Tail(queue) \in Seq(CallIds) /\ Len(Tail(queue)) = Len(queue) - 1
      /\ \A k \in 1..(Len(queue) - 1) : Tail(queue)[k] = queue[k + 1]
    BY QueueParts
<1>2. PICK q \in Seq(CallIds), t \in Seq(CallIds), n \in Nat \ {0} : q = queue /\ t = Tail(queue) /\ n = Len(queue)
    BY <1>1 DEF LoopTypes
<1>3. DOMAIN q = 1..n /\ DOMAIN t = 1..(n - 1) /\ \A k \in 1..(n - 1) : t[k] = q[k + 1]
    BY <1>1, <1>2 DEF LoopTypes
<1>4. ToSet(q) = {q[k] : k \in 1..n} /\ ToSet(t) = {t[k] : k \in 1..(n - 1)}
    BY <1>3 DEF ToSet
<1>5. \A k \in 1..n : k # 1 => q[k] # q[1]
    <2>1. fresh \in Nat /\ \A k \in 1..n : q[k] = fresh - n + k
        BY <1>2 DEF LoopTypes, QueueInv
    <2> QED BY <2>1
<1>6. \A k \in 1..n : k # 1 => k - 1 \in 1..(n - 1) /\ (k - 1) + 1 = k
    OBVIOUS
<1>7. \A k \in 1..(n - 1) : k + 1 \in 1..n /\ k + 1 # 1
    OBVIOUS
<1>8. \A c : c \in ToSet(t) <=> c \in ToSet(q) /\ c # q[1]
    <2>1. ASSUME NEW c \in ToSet(t) PROVE c \in ToSet(q) /\ c # q[1]
        <3>1. PICK k \in 1..(n - 1) : c = t[k]
            BY <1>4
        <3>2. PICK j \in 1..n : j = k + 1 /\ j # 1
            BY <1>7
        <3>3. c = q[j]
            BY <1>3, <3>1, <3>2
        <3> QED BY <1>4, <1>5, <3>2, <3>3
    <2>2. ASSUME NEW c \in ToSet(q), c # q[1] PROVE c \in ToSet(t)
        <3>1. PICK k \in 1..n : c = q[k]
            BY <1>4
        <3>2. PICK j \in 1..(n - 1) : j + 1 = k
            BY <1>6, <2>2, <3>1
        <3>3. c = t[j]
            BY <1>3, <3>1, <3>2
        <3> QED BY <1>4, <3>3
    <2> QED BY <2>1, <2>2
<1>9. q[1] \in ToSet(q)
    <2>1. 1 \in 1..n
        OBVIOUS
    <2> QED BY <1>4, <2>1
<1> QED BY <1>1, <1>2, <1>8, <1>9

\* A result for the first call of the queue.
LEMMA AnsweredTalk ==
    ASSUME LoopTypes, QueueInv, TalkInv, pc \in Handling, queue # <<>>, NEW x \in Results, x.call = Head(queue)
    PROVE  LET m == Append(messages, x)
           IN  /\ m \in Seq(MessageSet) /\ Sound(m) /\ Pending(m) = ToSet(Tail(queue))
               /\ Remembered(m) = Remembered(messages) \union Lines(x)
<1>1. PICK q \in Seq(MessageSet) : q = messages /\ Sound(q) /\ Pending(q) = ToSet(queue)
    BY DEF TalkInv, HeldInv, Owed
<1>2. Head(queue) \in ToSet(queue) /\ ToSet(Tail(queue)) = ToSet(queue) \ {Head(queue)}
    BY QueueRest
<1>3. x \in MessageSet /\ x.kind = "result"
    BY Kinds
<1>4. Append(q, x) \in Seq(MessageSet) /\ Sound(Append(q, x)) /\ Pending(Append(q, x)) = ToSet(Tail(queue))
    BY <1>1, <1>2, <1>3, AppendSound
<1>5. Remembered(Append(q, x)) = Remembered(q) \union Lines(x)
    BY <1>3, RememberedAppend
<1> QED BY <1>1, <1>4, <1>5

\* It is saved with the conversation.
LEMMA HandledTalk ==
    ASSUME LoopTypes, QueueInv, TalkInv, pc \in Handling, queue # <<>>, NEW x \in Results, x.call = Head(queue),
           messages' = Append(messages, x), conv' = Stored(messages'), queue' = Tail(queue), pc' = "tool",
           UNCHANGED <<verbatim, effects, dropped>>,
           verbatim => Owed \subseteq Remembered(messages) \union Lines(x)
    PROVE  TalkInv'
<1>1. PICK m \in Seq(MessageSet) :
        /\ m = Append(messages, x) /\ Sound(m) /\ Pending(m) = ToSet(Tail(queue))
        /\ Remembered(m) = Remembered(messages) \union Lines(x)
    BY AnsweredTalk
<1>2. messages' = m /\ conv' = Stored(m)
    BY <1>1
<1>3. StoredInv'
    <2>1. Owed' = Owed
        BY DEF Owed
    <2>2. verbatim => Owed' \subseteq Remembered(m) \union Pending(m)
        BY <1>1, <2>1
    <2> QED BY <1>1, <1>2, <2>2, SavedTalk
<1>4. pc' \in Handling /\ pc' # "record"
    BY DEF Handling
<1>5. verbatim => conv' = m
    BY <1>1, <1>2, StoredIs
<1>6. HeldInv'
    BY <1>1, <1>2, <1>4, <1>5 DEF HeldInv, Owed
<1>7. ResultInv'
    BY <1>4 DEF ResultInv
<1> QED BY <1>3, <1>6, <1>7 DEF TalkInv

LEMMA OverBudgetTalk ==
    ASSUME LoopTypes, QueueInv, TalkInv, ToolOverBudget
    PROVE  TalkInv'
<1>1. /\ pc = "tool" /\ pc' = "tool" /\ queue # <<>> /\ queue' = Tail(queue)
      /\ messages' = Append(messages, Result(Head(queue), "MAX_TOOL_CALL_REACHED", "not_executed"))
      /\ conv' = Stored(messages') /\ UNCHANGED <<verbatim, effects, dropped>>
    BY DEF ToolOverBudget, Working, worldVars
<1>2. Head(queue) \in CallIds
    BY <1>1, QueueParts
<1>3. "MAX_TOOL_CALL_REACHED" \in ErrorTexts /\ "not_executed" \in Outcomes
    BY DEF ErrorTexts, Outcomes
<1>4. PICK x \in Results : x = Result(Head(queue), "MAX_TOOL_CALL_REACHED", "not_executed") /\ x.call = Head(queue)
    <2>1. PICK c \in CallIds : c = Head(queue)
        BY <1>2
    <2>2. PICK r : r = Result(c, "MAX_TOOL_CALL_REACHED", "not_executed")
        OBVIOUS
    <2>3. r \in Results /\ r.call = c
        <3>1. IsResult(r, c, "MAX_TOOL_CALL_REACHED", "not_executed")
            BY <2>2 DEF IsResult
        <3> QED BY <1>3, <3>1, ResultIs
    <2> QED BY <2>1, <2>2, <2>3
<1>5. verbatim => Owed \subseteq Remembered(messages)
    <2>1. InHand = {}
        BY <1>1 DEF InHand
    <2> QED BY <1>1, <2>1 DEF TalkInv, HeldInv, Owed
<1>6. pc \in Handling
    BY <1>1 DEF Handling
<1> QED BY <1>1, <1>4, <1>5, <1>6, HandledTalk

LEMMA ReserveTalk ==
    ASSUME LoopTypes, QueueInv, TalkInv, ReserveTool
    PROVE  TalkInv'
<1>1. /\ pc = "tool" /\ pc' = "executing" /\ queue # <<>> /\ effects' = effects \union {Head(queue)}
      /\ UNCHANGED <<verbatim, conv, messages, queue, dropped>>
    BY DEF ReserveTool, Working
<1>2. pc \in Handling /\ pc' \in Handling /\ pc \notin {"gone", "brief"} /\ InHand = {} /\ InHand' = {Head(queue)}
    BY <1>1 DEF Handling, InHand
<1>3. Head(queue) \in ToSet(queue)
    BY <1>1, QueueRest
<1>4. Pending(messages) = ToSet(queue) /\ (verbatim => conv = messages)
    BY <1>2 DEF TalkInv, HeldInv, Owed
<1>8. Owed' \subseteq Owed \union {Head(queue)}
    BY <1>1 DEF Owed
<1>5. StoredInv'
    BY <1>1, <1>3, <1>4, <1>8 DEF TalkInv, StoredInv
<1>6. HeldInv'
    BY <1>1, <1>2, <1>8 DEF TalkInv, HeldInv
<1>7. ResultInv'
    BY <1>1 DEF ResultInv
<1> QED BY <1>5, <1>6, <1>7 DEF TalkInv

LEMMA ReturnTalk ==
    ASSUME LoopTypes, TalkInv, ToolReturns
    PROVE  TalkInv'
<1>1. PICK r \in ToolAnswers(Head(queue)) :
        /\ pendingResult' = r
        /\ effects' = IF r.outcome = "not_executed" THEN effects \ {Head(queue)} ELSE effects
    BY DEF ToolReturns
<1>2. pc = "executing" /\ pc' = "record" /\ UNCHANGED <<verbatim, conv, messages, queue, dropped>>
    BY DEF ToolReturns
<1>3. pc \in Handling /\ pc' \in Handling /\ pc \notin {"gone", "brief"} /\ InHand = {Head(queue)} /\ InHand' = {Head(queue)}
    BY <1>2 DEF Handling, InHand
<1>4. Owed' \subseteq Owed
    BY <1>1, <1>2 DEF Owed
<1>5. StoredInv'
    BY <1>2, <1>4 DEF TalkInv, StoredInv
<1>6. HeldInv'
    BY <1>2, <1>3, <1>4 DEF TalkInv, HeldInv
<1>7. ResultInv'
    BY <1>1, <1>2 DEF ResultInv
<1> QED BY <1>5, <1>6, <1>7 DEF TalkInv

\* A result of a call that may have taken effect says so of a mutation.
LEMMA ToolAnswersAre ==
    ASSUME NEW c \in CallIds, NEW x \in ToolAnswers(c)
    PROVE  /\ x \in Results /\ x.call = c
           /\ x.outcome # "not_executed" => Lines(x) = {c} \intersect Mutations
<1>1. PICK e, o : /\ x = Result(c, e, o)
                  /\ \/ e = "" /\ o = "ok"
                     \/ e = "rejected" /\ o = "not_executed"
                     \/ e = "TOOL_TIMEOUT" /\ o = "not_executed"
                     \/ e = "TOOL_TIMEOUT" /\ o = "unknown"
                     \/ e \in LongErrors /\ o = "not_executed"
    BY Zenon DEF ToolAnswers
<1>2. e \in ErrorTexts /\ o \in Outcomes /\ (o # "not_executed" => e = "" \/ o = "unknown")
    BY <1>1 DEF ErrorTexts, Outcomes
<1>3. PICK ee \in ErrorTexts, oo \in Outcomes : ee = e /\ oo = o
    BY <1>2
<1>4. PICK r : r = Result(c, ee, oo) /\ IsResult(r, c, ee, oo)
    BY DEF IsResult
<1>5. r \in Results /\ r.call = c /\ r.outcome = oo /\ (MayHaveHappened(ee, oo) => Lines(r) = {c} \intersect Mutations)
    BY <1>4, ResultIs
<1>6. oo # "not_executed" => MayHaveHappened(ee, oo)
    BY <1>2, <1>3 DEF MayHaveHappened
<1> QED BY <1>1, <1>3, <1>4, <1>5, <1>6

LEMMA SaveTalk ==
    ASSUME LoopTypes, QueueInv, TalkInv, SaveToolResult
    PROVE  TalkInv'
<1>1. /\ pc = "record" /\ pc' = "tool" /\ queue' = Tail(queue) /\ messages' = Append(messages, pendingResult)
      /\ conv' = Stored(messages') /\ UNCHANGED <<verbatim, effects, dropped>>
    BY DEF SaveToolResult, Working, worldVars
<1>2. queue # <<>> /\ pc \in Handling /\ pc \notin {"gone", "brief"} /\ InHand = {Head(queue)}
    BY <1>1 DEF LoopTypes, Handling, InHand
<1>3. PICK c \in CallIds : c = Head(queue)
    BY <1>2, QueueParts
<1>4. pendingResult \in ToolAnswers(c) /\ (pendingResult.outcome = "not_executed" => c \notin effects)
    BY <1>1, <1>3 DEF TalkInv, ResultInv
<1>5. PICK x \in Results : /\ x = pendingResult /\ x.call = c
                           /\ x.outcome # "not_executed" => Lines(x) = {c} \intersect Mutations
    BY <1>4, ToolAnswersAre
<1>6. verbatim => Owed \subseteq Remembered(messages) \union {c}
    BY <1>2, <1>3 DEF TalkInv, HeldInv, Owed
<1>7. verbatim => Owed \subseteq Remembered(messages) \union Lines(x)
    BY <1>4, <1>5, <1>6 DEF Owed
<1>8. messages' = Append(messages, x) /\ x.call = Head(queue)
    BY <1>1, <1>3, <1>5
<1> QED BY <1>1, <1>2, <1>7, <1>8, HandledTalk

LEMMA ToolsDoneTalk ==
    ASSUME TalkInv, ToolsDone
    PROVE  TalkInv'
<1>1. pc = "tool" /\ pc' = "top" /\ queue = <<>> /\ UNCHANGED <<verbatim, conv, messages, effects, dropped>>
    BY DEF ToolsDone, Working, dbVars, worldVars
<1>2. pc \in Handling /\ pc \notin {"gone", "brief"} /\ pc' \notin Handling /\ pc' # "record" /\ InHand = {} /\ InHand' = {}
    BY <1>1 DEF Handling, InHand
<1>3. ToSet(queue) = {}
    BY <1>1 DEF ToSet
<1>4. StoredInv'
    BY <1>1, StoredAsBefore DEF TalkInv
<1>5. HeldInv'
    BY <1>1, <1>2, <1>3 DEF TalkInv, HeldInv, Owed
<1>6. ResultInv'
    BY <1>2 DEF ResultInv
<1> QED BY <1>4, <1>5, <1>6 DEF TalkInv

-----------------------------------------------------------------------------
\* Every step of the loop keeps the conversation sound, stored and at hand.
LEMMA TalkStep ==
    ASSUME LoopTypes, RecordInv, TalkInv, BlocksInv, [Next]_vars
    PROVE  TalkInv'
<1>0. QueueInv /\ StoredInv
    BY DEF RecordInv, TalkInv
<1>1. CASE StartRun
    <2>1. pc' = "brief" /\ Reset /\ UNCHANGED <<verbatim, conv, effects, dropped>>
        BY <1>1 DEF StartRun
    <2> QED BY <1>0, <2>1, StoredAsBefore, EndedTalk
<1>2. CASE Stop
    <2>1. UNCHANGED <<verbatim, conv, messages, effects, dropped, queue, pendingResult, pc>>
        BY <1>2 DEF Stop, worldVars
    <2> QED BY <2>1, SameTalk
<1>3. CASE Crash \/ Leave \/ Fails
    <2>1. pc' = "gone" /\ Reset /\ UNCHANGED <<verbatim, conv, effects, dropped>>
        BY <1>3 DEF Crash, Leave, Fails, EndAs, dbVars, worldVars
    <2> QED BY <1>0, <2>1, StoredAsBefore, EndedTalk
<1>4. CASE Brief
    BY <1>4, BriefTalk
<1>5. CASE Top
    BY <1>5, TopTalk
<1>6. CASE Compact
    BY <1>6, CompactTalk
<1>20. CASE Summarize
    BY <1>20, SummarizeTalk
<1>7. CASE Attempt
    <2>1. pc \in {"call", "compacted"} /\ pc' = "generating" /\ UNCHANGED <<verbatim, conv, messages, effects, dropped, queue, pendingResult>>
        BY <1>7 DEF Attempt
    <2>2. pc \notin {"gone", "brief"} \union Handling /\ pc' \notin {"gone", "brief"} \union Handling
        BY <2>1 DEF Handling
    <2> QED BY <2>1, <2>2, SameTalk
<1>8. CASE NotDispatched
    <2>1. pc' = "gone" /\ Reset /\ UNCHANGED <<verbatim, conv, effects, dropped>>
        BY <1>8 DEF NotDispatched, EndAs
    <2> QED BY <1>0, <2>1, StoredAsBefore, EndedTalk
<1>9. ASSUME NEW retryable, GenerateError(retryable)
      PROVE  TalkInv'
    <2>1. /\ pc = "generating" /\ UNCHANGED <<verbatim, conv, effects, dropped>>
          /\ \/ pc' = "call" /\ UNCHANGED <<messages, queue, pendingResult>>
             \/ pc' = "gone" /\ Reset
        BY <1>9 DEF GenerateError, Working, EndAs, dbVars, worldVars
    <2>2. CASE pc' = "call" /\ UNCHANGED <<messages, queue, pendingResult>>
        <3>1. pc \notin {"gone", "brief"} \union Handling /\ pc' \notin {"gone", "brief"} \union Handling
            BY <2>1, <2>2 DEF Handling
        <3> QED BY <2>1, <2>2, <3>1, SameTalk
    <2>3. CASE pc' = "gone" /\ Reset
        BY <1>0, <2>1, <2>3, StoredAsBefore, EndedTalk
    <2> QED BY <2>1, <2>2, <2>3
<1>10. CASE InvalidAnswer
    BY <1>10, InvalidTalk
<1>11. ASSUME NEW status \in {"completed", "failed"}, FinalAnswer(status)
       PROVE  TalkInv'
    <2>1. /\ pc = "generating" /\ pc' = status /\ UNCHANGED <<verbatim, effects, dropped>>
          /\ messages' = Append(messages, Answer) /\ conv' = Stored(messages')
        BY <1>11 DEF FinalAnswer, Working, worldVars
    <2>2. pc \notin {"gone", "brief"} \union Handling /\ pc' \notin Handling
        BY <2>1 DEF Handling
    <2>3. Answer \in Plain
        BY Kinds
    <2> QED BY <2>1, <2>2, <2>3, SpokenTalk
<1>12. ASSUME NEW n \in 1..MaxCallsPerResponse, NEW allowed \in BOOLEAN, ToolCalls(n, allowed)
       PROVE  TalkInv'
    <2>1. n \in Nat
        BY RunLoopAssumption
    <2> QED BY <1>12, <2>1, ToolCallsTalk
<1>13. ASSUME NEW status, EndRun(status)
       PROVE  TalkInv'
    <2>1. pc' = "gone" /\ Reset /\ UNCHANGED <<verbatim, conv, effects, dropped>>
        BY <1>13 DEF EndRun, EndAs, worldVars
    <2> QED BY <1>0, <2>1, StoredAsBefore, EndedTalk
<1>14. CASE ToolsDone
    BY <1>14, ToolsDoneTalk
<1>15. CASE ToolOverBudget
    BY <1>0, <1>15, OverBudgetTalk
<1>16. CASE ReserveTool
    BY <1>0, <1>16, ReserveTalk
<1>17. CASE ToolReturns
    BY <1>17, ReturnTalk
<1>18. CASE SaveToolResult
    BY <1>0, <1>18, SaveTalk
<1>19. CASE UNCHANGED vars
    <2>1. UNCHANGED <<verbatim, conv, messages, effects, dropped, queue, pendingResult, pc>>
        BY <1>19 DEF vars, dbVars, worldVars
    <2> QED BY <2>1, SameTalk
<1> QED
    BY <1>1, <1>2, <1>3, <1>4, <1>5, <1>6, <1>7, <1>8, <1>9, <1>10, <1>11, <1>12, <1>13, <1>14, <1>15,
       <1>16, <1>17, <1>18, <1>19, <1>20 DEF Next, GoroutineStep, Generated

\* The blocks are those of the history at hand, until the last has been looked at.
LEMMA BlocksStep ==
    ASSUME LoopTypes, TalkInv, BlocksInv, LoopTypes', [Next]_vars
    PROVE  BlocksInv'
<1>1. CASE Compact
    BY <1>1, CompactTalk
<1>2. CASE Summarize
    BY <1>2, SummarizeTalk
<1>3. CASE Stop \/ UNCHANGED vars
    BY <1>3 DEF Stop, vars, BlocksInv
<1>4. CASE blocks' = <<>>
    BY <1>4, WrittenNone DEF BlocksInv
<1>5. CASE pc' # "compacted"
    BY <1>4, <1>5 DEF LoopTypes
<1>6. Compact \/ Summarize \/ Stop \/ UNCHANGED vars \/ pc' # "compacted"
    <2>1. CASE StartRun \/ Crash \/ Leave \/ Fails \/ Brief \/ Attempt \/ NotDispatched
        BY <2>1 DEF StartRun, Crash, Leave, Fails, EndAs, Brief, Attempt, NotDispatched
    <2>2. CASE Top
        BY <2>2, TopShape
    <2>3. ASSUME NEW retryable, GenerateError(retryable) PROVE pc' # "compacted"
        BY <2>3, ErrorShape
    <2>4. CASE InvalidAnswer
        BY <2>4, RejectShape DEF InvalidAnswer
    <2>5. ASSUME NEW status \in {"completed", "failed"}, FinalAnswer(status) \/ EndRun(status) PROVE pc' # "compacted"
        BY <2>5 DEF FinalAnswer, EndRun, EndAs
    <2>6. ASSUME NEW n, NEW allowed, ToolCalls(n, allowed) PROVE pc' # "compacted"
        BY <2>6, ToolCallsShape, RejectShape
    <2>7. CASE ToolsDone \/ ToolOverBudget \/ ReserveTool \/ ToolReturns \/ SaveToolResult
        BY <2>7 DEF ToolsDone, ToolOverBudget, ReserveTool, ToolReturns, SaveToolResult, Working
    <2> QED BY <2>1, <2>2, <2>3, <2>4, <2>5, <2>6, <2>7 DEF Next, GoroutineStep, Generated
<1> QED BY <1>1, <1>2, <1>3, <1>5, <1>6

LEMMA TalkInit == Init => TalkInv /\ BlocksInv
<1> SUFFICES ASSUME Init PROVE TalkInv /\ BlocksInv
    OBVIOUS
<1>1. PICK e \in Seq(MessageSet) : e = <<>> /\ Len(e) = 0
    <2>1. <<>> \in Seq(MessageSet) /\ Len(<<>>) = 0
        OBVIOUS
    <2> QED BY <2>1
<1>2. Sound(e)
    <2>1. DOMAIN e = {}
        BY <1>1
    <2> QED BY <2>1 DEF Sound
<1>3. Pending(e) = {}
    BY <1>1, OpenStart DEF Pending
<1>4. conv = e /\ messages = e /\ pc = "gone" /\ effects = {} /\ blocks = <<>>
    BY <1>1 DEF Init
<1>5. StoredInv
    BY <1>2, <1>4 DEF StoredInv, Owed
<1>6. HeldInv
    BY <1>2, <1>3, <1>4 DEF HeldInv, Owed, Handling
<1>7. ResultInv
    BY <1>4 DEF ResultInv
<1>8. BlocksInv
    BY <1>4, WrittenNone DEF BlocksInv
<1> QED BY <1>5, <1>6, <1>7, <1>8 DEF TalkInv

LEMMA TalkAlways == Spec => [](LoopTypes /\ RecordInv /\ TalkInv /\ BlocksInv)
<1>1. Init => LoopTypes /\ RecordInv /\ TalkInv /\ BlocksInv
    BY LoopInit, RecordInit, TalkInit
<1>2. LoopTypes /\ RecordInv /\ TalkInv /\ BlocksInv /\ [Next]_vars => (LoopTypes /\ RecordInv /\ TalkInv /\ BlocksInv)'
    <2> SUFFICES ASSUME LoopTypes, RecordInv, TalkInv, BlocksInv, [Next]_vars
                 PROVE  (LoopTypes /\ RecordInv /\ TalkInv /\ BlocksInv)'
        OBVIOUS
    <2>1. LoopTypes'
        BY TypesStep
    <2> QED BY <2>1, RecordStep, TalkStep, BlocksStep
<1> QED BY <1>1, <1>2, PTL DEF Spec

\* completeToolResults, semanticConversation, compactConversation: wherever a Run
\* was cut, and however its conversation was stored, completed and compacted since,
\* a request pairs each call with one result, in place, and no result stands alone.
THEOREM RequestsArePaired == Spec => []RequestsAreWellFormed
<1>1. LoopTypes /\ RecordInv /\ TalkInv /\ BlocksInv => RequestsAreWellFormed
    <2> SUFFICES ASSUME TalkInv, pc = "generating" PROVE IsWellFormed(messages)
        BY DEF RequestsAreWellFormed
    <2>1. pc \notin Handling
        BY DEF Handling
    <2>2. messages \in Seq(MessageSet) /\ Sound(messages) /\ Pending(messages) = {}
        BY <2>1 DEF TalkInv, HeldInv, Owed
    <2> QED BY <2>2, SoundIsWellFormed
<1> QED BY <1>1, TalkAlways, PTL

\* loadConversation: of a Session that keeps its conversation verbatim, the next Run
\* reads of every mutating call that may have taken effect that it was done or is
\* uncertain, wherever the Run that made the call was cut and whatever was folded;
\* only a summary that the model itself wrote of a folded history may leave it out.
THEOREM VerbatimIsRemembered == Spec => []VerbatimRemembers
<1>1. LoopTypes /\ RecordInv /\ TalkInv /\ BlocksInv => VerbatimRemembers
    <2> SUFFICES ASSUME TalkInv, verbatim PROVE Owed \subseteq Remembered(LoadConversation)
        BY DEF VerbatimRemembers, ExecutedCallsAreRemembered, Owed
    <2>1. PICK c \in Seq(MessageSet) : c = conv /\ Sound(c)
        BY DEF TalkInv, StoredInv, Owed
    <2>2. Remembered(CompleteToolResults(c)) = Remembered(c) \union (Pending(c) \intersect Mutations)
        BY <2>1, Completed
    <2>3. Owed \subseteq Remembered(c) \union (Pending(c) \intersect Mutations)
        BY <2>1 DEF TalkInv, StoredInv, Owed
    <2> QED BY <2>1, <2>2, <2>3 DEF LoadConversation
<1> QED BY <1>1, TalkAlways, PTL

=============================================================================
