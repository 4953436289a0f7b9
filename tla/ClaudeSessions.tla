--------------------------- MODULE ClaudeSessions ---------------------------
(***************************************************************************)
(* The transport sessions of Claude Code: ClaudeSessions and               *)
(* GenerateClaudeSession of webharness/sessions.go.  A session is a        *)
(* working directory and the UUID of a transcript the CLI keeps in it.     *)
(* One caller at a time works in a session (its gate); a caller resumes    *)
(* the transcript with what is new in its request, or starts a fresh one.  *)
(*                                                                         *)
(* The CLI is external: it may record the prompt and its answer in the     *)
(* transcript and fail all the same.  Everything a caller does to the      *)
(* store it does under cs.mu, so one critical section is one action.       *)
(***************************************************************************)
EXTENDS Integers, Sequences, FiniteSets

CONSTANTS Callers,      \* requests that may be handled at a time
          Keys,         \* conversation and signature
          Requests,     \* message lists a request may carry
          Answers,      \* what the CLI may answer
          MaxSessions   \* bound on the session objects that are live at a time

ASSUME ClaudeAssumption ==
    /\ MaxSessions \in Nat
    /\ Keys # {}
    /\ \A r \in Requests : r \in Seq({r[i] : i \in DOMAIN r}) /\ Len(r) > 0

VARIABLES
    sessions,   \* cs.sessions: key -> session, 0 if none
    session,    \* the claudeHarnessSession objects
    calls,      \* the callers of GenerateClaudeSession
    doomed,     \* directories the collector or a release of a conversation removes
    collecting  \* the collector goroutine has not been stopped

claudeVars == <<sessions, session, calls, doomed, collecting>>

Sids == 1..MaxSessions

\* A session before it is made.
Blank == [key |-> CHOOSE k \in Keys : TRUE, active |-> 0, retired |-> FALSE, gate |-> FALSE,
          directory |-> FALSE, delivered |-> <<>>, generated |-> <<>>, told |-> <<>>, own |-> <<>>]

\* newSession: a directory, a UUID and a gate with its token.
New(k) == [Blank EXCEPT !.key = k, !.gate = TRUE, !.directory = TRUE]

\* Objects newSession may return: nobody refers to them.
Unused == {s \in Sids : session[s] = Blank}

NoContinuation == [after |-> 0, messages |-> <<>>]

\* What a caller may send as continuation of a request: nothing, or a cut.
Continuations(r) ==
    {NoContinuation} \union {[after |-> n, messages |-> SubSeq(r, n + 2, Len(r))] : n \in 1..(Len(r) - 2)}

Idle == [pc |-> "idle", key |-> CHOOSE k \in Keys : TRUE, messages |-> <<>>,
         continuation |-> NoContinuation, session |-> 0, fresh |-> 0, resume |-> FALSE,
         then |-> "done", answered |-> FALSE]

ClaudeInit ==
    /\ sessions = [k \in Keys |-> 0]
    /\ session = [s \in Sids |-> Blank]
    /\ calls = [c \in Callers |-> Idle]
    /\ doomed = {}
    /\ collecting = TRUE

Mapped(s) == sessions[session[s].key] = s

\* The map without s, if s is still its key's session.
Unmapped(s) == IF Mapped(s) THEN [sessions EXCEPT ![session[s].key] = 0] ELSE sessions

At(c, p) == calls[c].pc = p

\* A caller on its way out has no more use for its request.
Going(c, p) == [Idle EXCEPT !.pc = p, !.session = calls[c].session]

-----------------------------------------------------------------------------
(* Acquire *)

CallClaude(c, k, r, n) ==
    /\ At(c, "idle")
    /\ calls' = [calls EXCEPT ![c] = [Idle EXCEPT !.pc = "look", !.key = k, !.messages = r,
                                                  !.continuation = n]]
    /\ UNCHANGED <<sessions, session, doomed, collecting>>

\* The key's session, or a new one; the caller is counted before it waits.
Look(c) ==
    LET k == calls[c].key
        s == sessions[k]
    IN  /\ At(c, "look")
        /\ s = 0 => Unused # {}
        /\ s # 0 => ~session[s].retired
        /\ LET t == IF s = 0 THEN CHOOSE n \in Unused : TRUE ELSE s
               o == IF s = 0 THEN New(k) ELSE session[s]
           IN  /\ session' = [session EXCEPT ![t] = [o EXCEPT !.active = @ + 1]]
               /\ sessions' = [sessions EXCEPT ![k] = t]
               /\ calls' = [calls EXCEPT ![c].pc = "wait", ![c].session = t, ![c].then = "done"]
        /\ UNCHANGED <<doomed, collecting>>

\* The session is retired and still mapped, or a new one cannot be made.
LookFails(c) ==
    LET s == sessions[calls[c].key]
    IN  /\ At(c, "look")
        /\ s # 0 => session[s].retired
        /\ calls' = [calls EXCEPT ![c] = Idle]
        /\ UNCHANGED <<sessions, session, doomed, collecting>>

TakeGate(c) ==
    /\ At(c, "wait")
    /\ session[calls[c].session].gate
    /\ session' = [session EXCEPT ![calls[c].session].gate = FALSE]
    /\ calls' = [calls EXCEPT ![c].pc = "check"]
    /\ UNCHANGED <<sessions, doomed, collecting>>

\* Where a caller goes on: with the replacement, back to Acquire, or home.
Resumed(call) ==
    CASE call.then = "run"  -> [call EXCEPT !.pc = "run", !.session = call.fresh, !.fresh = 0]
      [] call.then = "look" -> [call EXCEPT !.pc = "look", !.session = 0]
      [] OTHER              -> Idle

\* A caller leaves its session.  The last one to leave a retired session takes
\* it out of the map and removes its directory, after the lock.
Leaves(c) ==
    LET s == calls[c].session
        last == session[s].retired /\ session[s].active = 1
    IN  /\ sessions' = IF last THEN Unmapped(s) ELSE sessions
        /\ calls' = [calls EXCEPT ![c] = IF last THEN [@ EXCEPT !.pc = "clean"] ELSE Resumed(@)]

\* The wait is given up: the client, a timeout or the shutdown has ended the
\* request's context.  (It may end at any time and is looked at here, in
\* ReserveReplacement and when the CLI has failed; who sees it ended leaves.)
GiveUp(c) ==
    LET s == calls[c].session
    IN  /\ At(c, "wait")
        /\ session' = [session EXCEPT ![s].active = @ - 1]
        /\ Leaves(c)
        /\ UNCHANGED <<doomed, collecting>>

-----------------------------------------------------------------------------
(* GenerateClaudeSession *)

ValidContinuation(o, messages, n) ==
    /\ n.after = Len(o.delivered) /\ n.messages # <<>> /\ o.generated # <<>>
    /\ messages = o.delivered \o o.generated \o n.messages

MessagePrefix(messages, delivered) ==
    /\ Len(messages) >= Len(delivered)
    /\ SubSeq(messages, 1, Len(delivered)) = delivered

\* Whether the session can be resumed for these messages.
Resumable(o, messages, n) ==
    IF n # NoContinuation
    THEN ValidContinuation(o, messages, n)
    ELSE MessagePrefix(messages, o.delivered) /\ Len(messages) # Len(o.delivered)

\* What a resumed session is told.
ResumeMessages(o, messages, n) ==
    IF n # NoContinuation THEN n.messages
    ELSE SubSeq(messages, Len(o.delivered) + 1, Len(messages))

\* With the gate in hand: is the session still the key's?  If not the caller
\* releases it and looks again; if it was retired in place, it gives up.
Stale(c) ==
    LET s == calls[c].session
    IN  /\ At(c, "check")
        /\ ~Mapped(s) \/ session[s].retired
        /\ calls' = [calls EXCEPT ![c].pc = "release", ![c].then = IF Mapped(s) THEN "done" ELSE "look"]
        /\ UNCHANGED <<sessions, session, doomed, collecting>>

\* It is: resume it, start cold if it was never used, or replace it.  What is
\* looked at here belongs to the holder of the gate.
Decide(c) ==
    LET call == calls[c]
        o == session[call.session]
        used == o.delivered # <<>>
        resume == o.directory /\ used /\ Resumable(o, call.messages, call.continuation)
        replace == ~o.directory \/ (used /\ ~resume)
    IN  /\ At(c, "check")
        /\ Mapped(call.session) /\ ~o.retired
        /\ calls' = [calls EXCEPT ![c].resume = resume,
                                  ![c].pc = IF replace THEN "replace" ELSE "run"]
        /\ UNCHANGED <<sessions, session, doomed, collecting>>

\* ReserveReplacement: a fresh session takes the key, its gate already taken.
\* Its failures leave the session retired; each is followed by a Release.
ReserveReplacement(c) ==
    LET s == calls[c].session
        k == calls[c].key
        fresh == CHOOSE n \in Unused : TRUE
    IN  /\ At(c, "replace")
        /\ Mapped(s) /\ ~session[s].retired
        /\ Unused # {}
        /\ session' = [session EXCEPT ![s].retired = TRUE,
                                      ![fresh] = [New(k) EXCEPT !.gate = FALSE, !.active = 1]]
        /\ sessions' = [sessions EXCEPT ![k] = fresh]
        /\ calls' = [calls EXCEPT ![c].pc = "release", ![c].then = "run", ![c].fresh = fresh]
        /\ UNCHANGED <<doomed, collecting>>

\* The context has ended, the session was retired meanwhile, or a new one
\* cannot be made; only the second leaves map and session alone.
ReplacementFails(c) ==
    LET s == calls[c].session
    IN  /\ At(c, "replace")
        /\ sessions' \in {Unmapped(s)} \union (IF session[s].retired THEN {sessions} ELSE {})
        /\ session' = [session EXCEPT ![s].retired = TRUE]
        /\ calls' = [calls EXCEPT ![c] = Going(c, "release")]
        /\ UNCHANGED <<doomed, collecting>>

\* The transcript of the CLI after the prompt of a call: all it has been told,
\* with its last answer where a continuation goes on from it.
Transcript(c) ==
    LET call == calls[c]
        o == session[call.session]
    IN  IF ~call.resume THEN o.told \o call.messages
        ELSE o.told \o (IF call.continuation # NoContinuation THEN o.own ELSE <<>>)
                    \o ResumeMessages(o, call.messages, call.continuation)

\* generateInDirectory returns an answer: it is acknowledged and the session
\* released.
CLISucceeds(c, a) ==
    LET s == calls[c].session
    IN  /\ At(c, "run")
        /\ session' = [session EXCEPT ![s].told = Transcript(c), ![s].own = <<a>>,
                                      ![s].delivered = calls[c].messages,
                                      ![s].generated = <<a>>]
        /\ calls' = [calls EXCEPT ![c] = [Going(c, "release") EXCEPT !.messages = calls[c].messages, !.answered = TRUE]]
        /\ UNCHANGED <<sessions, doomed, collecting>>

\* It fails, having recorded the prompt or not.  A resumed session is tried
\* again cold, unless the context has ended.
CLIFails(c) ==
    LET s == calls[c].session
    IN  /\ At(c, "run")
        /\ \E t \in {session[s].told, Transcript(c)} : session' = [session EXCEPT ![s].told = t]
        /\ \/ calls' = [calls EXCEPT ![c] = Going(c, "retire")]
           \/ /\ calls[c].resume
              /\ calls' = [calls EXCEPT ![c].resume = FALSE, ![c].pc = "replace"]
        /\ UNCHANGED <<sessions, doomed, collecting>>

\* Mutant: the session of a failed call is handed out again.
ReleaseWithoutRetire(c) ==
    /\ At(c, "retire")
    /\ calls' = [calls EXCEPT ![c] = Going(c, "release")]
    /\ UNCHANGED <<sessions, session, doomed, collecting>>

Retire(c) ==
    LET s == calls[c].session
    IN  /\ At(c, "retire")
        /\ sessions' = Unmapped(s)
        /\ session' = [session EXCEPT ![s].retired = TRUE]
        /\ calls' = [calls EXCEPT ![c] = Going(c, "release")]
        /\ UNCHANGED <<doomed, collecting>>

\* Mutant: the gate of a retired session is not given back.
ReleaseKeepingGate(c) ==
    LET s == calls[c].session
    IN  /\ At(c, "release")
        /\ session' = [session EXCEPT ![s].active = @ - 1, ![s].gate = ~session[s].retired]
        /\ Leaves(c)
        /\ UNCHANGED <<doomed, collecting>>

Release(c) ==
    /\ At(c, "release")
    /\ session' = [session EXCEPT ![calls[c].session].active = @ - 1,
                                  ![calls[c].session].gate = TRUE]
    /\ Leaves(c)
    /\ UNCHANGED <<doomed, collecting>>

\* os.RemoveAll of the caller that left last; with the directory goes the
\* transcript, and nobody refers to the object any more.
CleanUp(c) ==
    /\ At(c, "clean")
    /\ session' = [session EXCEPT ![calls[c].session] = Blank]
    /\ calls' = [calls EXCEPT ![c] = Resumed(@)]
    /\ UNCHANGED <<sessions, doomed, collecting>>

-----------------------------------------------------------------------------
(* The collector, and the release or the end of everything *)

\* The sessions S leave the map for good.
Drop(S) ==
    /\ sessions' = [k \in Keys |-> IF sessions[k] \in S THEN 0 ELSE sessions[k]]
    /\ doomed' = doomed \union S

\* Mutant: the collector looks at the age alone.
CollectByAge ==
    /\ collecting
    /\ \E S \in SUBSET {s \in Sids : Mapped(s)} :
         /\ S # {}
         /\ Drop(S)
         /\ session' = [s \in Sids |-> [session[s] EXCEPT !.retired = @ \/ s \in S]]
    /\ UNCHANGED <<calls, collecting>>

\* One round: sessions nobody uses may have grown older than the TTL.
Collect ==
    /\ collecting
    /\ \E S \in SUBSET {s \in Sids : Mapped(s) /\ session[s].active = 0} :
         /\ S # {}
         /\ Drop(S)
         /\ session' = [s \in Sids |-> [session[s] EXCEPT !.retired = @ \/ s \in S]]
    /\ UNCHANGED <<calls, collecting>>

\* The keys K of a conversation: its sessions are retired; the ones in use keep
\* key and directory until they are released.
RemoveConversation(K) ==
    /\ \E k \in K : sessions[k] # 0
    /\ session' = [s \in Sids |-> [session[s] EXCEPT !.retired = @ \/ (Mapped(s) /\ session[s].key \in K)]]
    /\ Drop({s \in Sids : Mapped(s) /\ session[s].key \in K /\ session[s].active = 0})
    /\ UNCHANGED <<calls, collecting>>

\* Stop ends the collector, waits for it and removes everything.
StopCollector ==
    /\ collecting
    /\ collecting' = FALSE
    /\ UNCHANGED <<sessions, session, calls, doomed>>

RemoveAll ==
    /\ Drop({s \in Sids : Mapped(s)})
    /\ session' = [s \in Sids |-> [session[s] EXCEPT !.retired = @ \/ Mapped(s)]]
    /\ UNCHANGED <<calls, collecting>>

RemoveDirectory(s) ==
    /\ s \in doomed
    /\ doomed' = doomed \ {s}
    /\ session' = [session EXCEPT ![s] = Blank]
    /\ UNCHANGED <<sessions, calls, collecting>>

\* External: something else clears the temporary directory of an idle session.
DirectoryVanishes(s) ==
    /\ Mapped(s) /\ session[s].active = 0 /\ session[s].directory
    /\ session' = [session EXCEPT ![s].directory = FALSE]
    /\ UNCHANGED <<sessions, calls, doomed, collecting>>

-----------------------------------------------------------------------------
\* What the goroutine of a request does by itself, whether its context ends or not.
CallStep(c) ==
    \/ Look(c) \/ LookFails(c) \/ TakeGate(c) \/ Stale(c) \/ Decide(c)
    \/ ReserveReplacement(c) \/ ReplacementFails(c)
    \/ CLIFails(c) \/ \E a \in Answers : CLISucceeds(c, a)
    \/ Retire(c) \/ Release(c) \/ CleanUp(c)

ClaudeStep ==
    \/ \E c \in Callers : CallStep(c) \/ GiveUp(c)
    \/ Collect
    \/ \E s \in Sids : RemoveDirectory(s) \/ DirectoryVanishes(s)

-----------------------------------------------------------------------------
(* Properties. *)

\* Callers that hold the gate of s, or have reserved s as a replacement.
Workers(s) ==
    {c \in Callers : \/ calls[c].fresh = s
                     \/ /\ calls[c].session = s
                        /\ calls[c].pc \in {"check", "replace", "run", "retire", "release"}}

Removing(s) == s \in doomed \/ \E c \in Callers : At(c, "clean") /\ calls[c].session = s

\* sessions.go: one CLI works in a directory at a time, the directory is not
\* removed while a caller works in it or waits for it, and a directory nobody
\* can reach any more is being removed, whatever was replaced, retired,
\* collected or released meanwhile.
DirectoriesFollowTheirUsers ==
    \A s \in Sids :
        /\ Cardinality(Workers(s)) = IF session[s].active > 0 /\ ~session[s].gate THEN 1 ELSE 0
        /\ session[s].active > 0 => ~Removing(s)
        /\ session[s].directory => Mapped(s) \/ session[s].active > 0 \/ Removing(s)

\* GenerateClaudeSession: an answer that is accepted was given to exactly the
\* messages of its request, although earlier calls on the same transcript were
\* canceled, failed after the CLI had recorded them, or had another history.
AnswersAreInContext ==
    \A c \in Callers :
        calls[c].answered => session[calls[c].session].told = calls[c].messages
=============================================================================
