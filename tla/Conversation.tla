---------------------------- MODULE Conversation ----------------------------
(***************************************************************************)
(* The Session conversation of agent_server/internal/agent: what the model *)
(* sees (without the system prompt), the form in which it is stored, how a *)
(* cut conversation is completed on load and how a long one is compacted.  *)
(* conversation.go and model_context.go; pure operators on sequences.      *)
(*                                                                         *)
(* A message keeps its role and, for tool traffic, which call it belongs   *)
(* to, the error and the outcome.  Text is left out, except that an error  *)
(* text longer than digestRunes is told from its digest.                   *)
(***************************************************************************)
EXTENDS Integers, Sequences, FiniteSets, SequencesExt

CONSTANTS Mutations   \* call ids of mutating tools; every other call is a read

\* The message constructors.  `stands` are the calls a result speaks for:
\* its own and, after folding, the ones counted in its "repeated".
Wake        == [kind |-> "wake"]
ChatMention == [kind |-> "mention"]
Instruction == [kind |-> "instruction"]
Answer      == [kind |-> "answer"]
Calls(ids)  == [kind |-> "calls", calls |-> ids]
Result(c, error, outcome) ==
    [kind |-> "result", call |-> c, error |-> error, outcome |-> outcome,
     stands |-> {c}]
History(lines) == [kind |-> "history", lines |-> lines]

\* tools.ErrorResult texts; "" is a success.
LongErrors == {"longA", "longB"}

\* Mutant: a call without a result is taken for one that was not made.
NotExecuted(c) == Result(c, "RUN_INTERRUPTED", "not_executed")

Unknown(c) == Result(c, "RUN_INTERRUPTED", "unknown")

-----------------------------------------------------------------------------
(* completeToolResults *)

\* The assistant message whose run of results reaches message j, or 0.
CallsOf(q, j) ==
    LET I == {i \in 1..j : /\ q[i].kind = "calls"
                           /\ \A k \in (i + 1)..j : q[k].kind = "result"}
    IN IF I = {} THEN 0 ELSE CHOOSE i \in I : TRUE

\* The calls of that message that have no result when its run ends at j.
Unanswered(q, j) ==
    LET i == CallsOf(q, j) IN
    IF i = 0 \/ (j < Len(q) /\ q[j + 1].kind = "result") THEN {}
    ELSE {c \in ToSet(q[i].calls) : \A k \in (i + 1)..j : q[k].call # c}

\* A result for each of them, in the order of the calls.
Completion(q, j) ==
    IF Unanswered(q, j) = {} THEN <<>>
    ELSE LET calls == q[CallsOf(q, j)].calls
         IN FlattenSeq([n \in DOMAIN calls |->
                IF calls[n] \in Unanswered(q, j) THEN <<Unknown(calls[n])>> ELSE <<>>])

CompleteToolResults(q) == FlattenSeq([j \in DOMAIN q |-> <<q[j]>> \o Completion(q, j)])

-----------------------------------------------------------------------------
(* semanticConversation *)

IsRejectedFinal(q, i) ==
    q[i].kind = "answer" /\ i < Len(q) /\ q[i + 1].kind = "instruction"

\* digestToolResult: mutations stay whole, the error of a read is truncated.
Digest(m) ==
    IF m.kind = "result" /\ m.call \notin Mutations /\ m.error \in LongErrors
    THEN [m EXCEPT !.error = "long"] ELSE m

\* failureKey: the tool and the error, not the outcome ("" for a success).
FailureKey(m) ==
    IF m.error = "" THEN ""
    ELSE <<IF m.call \in Mutations THEN "mutation" ELSE "read", m.error>>

IsLoneCall(q, i) ==
    /\ q[i].kind = "calls" /\ Len(q[i].calls) = 1
    /\ i < Len(q) /\ q[i + 1].kind = "result"

\* One round of the loop over messages; acc.at is lastFailureResult.
SemanticStep(q, acc, i) ==
    IF acc.skip THEN [acc EXCEPT !.skip = FALSE]
    ELSE IF q[i].kind = "instruction" \/ IsRejectedFinal(q, i) THEN acc
    ELSE IF IsLoneCall(q, i) THEN
        LET key == FailureKey(q[i + 1]) IN
        IF key # "" /\ key = acc.key /\ acc.at > 0
        THEN [acc EXCEPT !.kept[acc.at].stands = @ \cup q[i + 1].stands,
                         !.skip = TRUE]
        ELSE [kept |-> acc.kept \o <<q[i], Digest(q[i + 1])>>,
              key  |-> key,
              at   |-> IF key = "" THEN 0 ELSE Len(acc.kept) + 2,
              skip |-> TRUE]
    ELSE [kept |-> Append(acc.kept, Digest(q[i])), key |-> "", at |-> 0, skip |-> FALSE]

SemanticConversation(q) ==
    LET scan[i \in 0..Len(q)] ==
            IF i = 0 THEN [kept |-> <<>>, key |-> "", at |-> 0, skip |-> FALSE]
                     ELSE SemanticStep(q, scan[i - 1], i)
    IN scan[Len(q)].kept

-----------------------------------------------------------------------------
(* compactConversation *)

\* compactToolCallLine for a mutation: dropped when it failed and is known not
\* to have happened.  Reads leave nothing to remember.
KeptLines(m) ==
    IF m.error # "" /\ m.outcome # "unknown" THEN {} ELSE m.stands \cap Mutations

FoldMessages(q) ==
    History(UNION {IF m.kind = "history" THEN m.lines
                   ELSE IF m.kind = "result" THEN KeptLines(m) ELSE {} : m \in ToSet(q)})

IsAssistant(m) == m.kind \in {"answer", "calls"}

\* What precedes the current wake-up message folds into one message; with
\* `enough` false the steps before the last assistant turn fold too.  `blocks`
\* are the positions of the messages it wrote.
CompactConversation(q, enough) ==
    LET lastWake == SelectLastInSeq(q, LAMBDA m : m.kind = "wake")
        foldsPast == lastWake > 1 /\ ~(lastWake = 2 /\ q[1].kind = "history")
        past == IF foldsPast
                THEN <<FoldMessages(SubSeq(q, 1, lastWake - 1))>>
                     \o SubSeq(q, lastWake, Len(q))
                ELSE q
        wake == IF foldsPast THEN 2 ELSE lastWake
        tail == SelectLastInSubSeq(past, wake + 2, Len(past), IsAssistant)
        foldsSteps == /\ ~(foldsPast /\ enough)
                      /\ tail # 0
                      /\ ~(tail = wake + 2 /\ past[wake + 1].kind = "history")
    IN [messages |-> IF foldsSteps
                     THEN SubSeq(past, 1, wake)
                          \o <<FoldMessages(SubSeq(past, wake + 1, tail - 1))>>
                          \o SubSeq(past, tail, Len(past))
                     ELSE past,
        blocks |-> (IF foldsPast THEN <<1>> ELSE <<>>)
                   \o (IF foldsSteps THEN <<wake + 1>> ELSE <<>>)]

-----------------------------------------------------------------------------
(* What a conversation must be. *)

\* The Gateway accepts it: each assistant turn with calls is followed at once
\* by exactly one result for each of them, and no result stands alone.
IsWellFormed(q) ==
    \A j \in DOMAIN q :
        /\ q[j].kind = "calls" =>
             \E n \in 0..(Len(q) - j) :
                /\ \A k \in 1..n : q[j + k].kind = "result"
                /\ j + n < Len(q) => q[j + n + 1].kind # "result"
                /\ n = Len(q[j].calls)
                /\ {q[j + k].call : k \in 1..n} = ToSet(q[j].calls)
        /\ q[j].kind = "result" => CallsOf(q, j) # 0

\* The mutating calls the conversation says may have taken effect.
Remembered(q) ==
    UNION {IF m.kind = "result" THEN KeptLines(m)
           ELSE IF m.kind = "history" THEN m.lines ELSE {} : m \in ToSet(q)}
=============================================================================
