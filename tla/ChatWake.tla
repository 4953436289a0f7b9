------------------------------ MODULE ChatWake ------------------------------
(***************************************************************************)
(* How an agent learns of the messages that tag its account: the inbox of  *)
(* a run and the mentions during it (agent/message_tools.go), and the poll *)
(* that wakes an idle session (agent/chat_wake.go), on the MessageBoard.   *)
(*                                                                         *)
(* One session, which is running; a run of it is on or not.  fetchAfter    *)
(* reads the board over HTTP: what it read may be old when it is used.     *)
(* The time of a run's start is the number of messages posted before it    *)
(* (the two services have one clock); reading is allowed throughout        *)
(* (chat_read).                                                            *)
(***************************************************************************)
EXTENDS MessageBoard

CONSTANTS PageSize,  \* messages of a page
          MaxStarts  \* bound on the runs

ASSUME ChatAssumption == PageSize \in Nat \ {0} /\ MaxStarts \in Nat

VARIABLES
    cursor,  \* session_chat_cursors: mention_after and wake_after, 0 if empty
    run,     \* the latest run
    poll,    \* what ChatWakeTask has read for the session
    told,    \* ghost: how often a run was told of a message
    again    \* ghost: tags that woke the session, and again though a run was told
chatVars == <<cursor, run, poll, told, again>>

\* pc: "off", "brief" (before the inbox), "work", or on the way through inbox,
\* "fetched" and "marked" (the cursor is saved).
NoneYet == [pc |-> "off", n |-> 0, start |-> 0, previous |-> 0, chatWake |-> FALSE, page |-> {}]

ChatInit ==
    /\ cursor = [mention |-> 0, wake |-> 0]
    /\ run = NoneYet
    /\ poll = {}
    /\ told = [m \in Messages |-> 0]
    /\ again = [woke |-> {}, twice |-> {}]

Oldest(S, k) == {m \in S : Cardinality({n \in S : n <= m}) <= k}
Newest(S, k) == {m \in S : Cardinality({n \in S : n >= m}) <= k}

\* fetchAfter: what follows the cursor, oldest first, one page or all; without
\* the cursor's message the newest page, or all.
FetchAfter(c, all) ==
    LET from == IF c \in visible THEN {m \in visible : m > c} ELSE visible
    IN  IF all THEN from
        ELSE IF c \in visible THEN Oldest(from, PageSize) ELSE Newest(from, PageSize)

\* startPendingRunTx
Started(chatWake) ==
    [pc |-> "brief", n |-> run.n + 1, start |-> posted, previous |-> run.start, chatWake |-> chatWake, page |-> {}]

-----------------------------------------------------------------------------
(* Runs *)

\* For another reason than a mention.
RunStarts ==
    /\ run.pc = "off" /\ run.n < MaxStarts
    /\ run' = Started(FALSE)
    /\ UNCHANGED <<cursor, poll, told, again>>

\* It completes, fails or is stopped, or the server stops.
RunStops ==
    /\ run.pc # "off"
    /\ run' = [run EXCEPT !.pc = "off", !.page = {}]
    /\ UNCHANGED <<cursor, poll, told, again>>

\* inbox reads: for the wake-up message, or (chatMentions) before a model call.
InboxFetches ==
    LET page == FetchAfter(cursor.mention, run.pc = "brief" /\ run.chatWake)
    IN  /\ run.pc \in {"brief", "work"}
        /\ run' = [run EXCEPT !.page = page, !.pc = IF page = {} THEN "work" ELSE "fetched"]
        /\ UNCHANGED <<cursor, poll, told, again>>

\* The board cannot be read: the run goes on without.
InboxFails ==
    /\ run.pc = "brief"
    /\ run' = [run EXCEPT !.pc = "work"]
    /\ UNCHANGED <<cursor, poll, told, again>>

\* setChatCursor, before anything is done with the messages.
InboxMarks ==
    /\ run.pc = "fetched"
    /\ cursor' = [cursor EXCEPT !.mention = Max(run.page)]
    /\ run' = [run EXCEPT !.pc = "marked"]
    /\ UNCHANGED <<poll, told, again>>

\* The message that carries those after the previous run's start is saved.
InboxTells ==
    /\ run.pc = "marked"
    /\ told' = [m \in Messages |-> IF m \in run.page /\ m > run.previous THEN told[m] + 1 ELSE told[m]]
    /\ run' = [run EXCEPT !.pc = "work", !.page = {}]
    /\ UNCHANGED <<cursor, poll, again>>

-----------------------------------------------------------------------------
(* ChatWakeTask *)

PollReads ==
    /\ poll = {}
    /\ poll' = FetchAfter(IF cursor.wake # 0 THEN cursor.wake ELSE cursor.mention, TRUE)
    /\ UNCHANGED <<cursor, run, told, again>>

\* Mutant: without the cursor's message every tag is new.
NewTagsSinceEver ==
    {m \in poll \intersect byUser : cursor.mention \in poll => m > cursor.mention}

\* The tags of the USER that are new: after the delivered one, or without it
\* since the start of the latest run.
NewTags ==
    {m \in poll \intersect byUser : IF cursor.mention \in poll THEN m > cursor.mention ELSE m > run.start}

\* claimChatWake, while a run is on: only what was delivered is acknowledged.
ClaimBusy ==
    /\ poll # {} /\ run.pc # "off"
    /\ cursor' = IF cursor.mention \in poll THEN [cursor EXCEPT !.wake = cursor.mention] ELSE cursor
    /\ poll' = {}
    /\ UNCHANGED <<run, told, again>>

\* While none is: everything read is acknowledged, and new tags start a run in
\* the same transaction ...
ClaimIdle ==
    /\ poll # {} /\ run.pc = "off"
    /\ cursor' = [cursor EXCEPT !.wake = Max(poll)]
    /\ \/ NewTags = {} /\ UNCHANGED <<run, again>>
       \/ /\ NewTags # {} /\ run.n < MaxStarts
          /\ run' = Started(TRUE)
          /\ again' = [woke |-> again.woke \union NewTags,
                       twice |-> again.twice \union {m \in NewTags \intersect again.woke \intersect visible : told[m] > 0}]
    /\ poll' = {}
    /\ UNCHANGED told

\* ... unless the latest is younger than chatWakeQuiet, or the session is not
\* running any more.
ClaimNothing ==
    /\ poll # {}
    /\ poll' = {}
    /\ UNCHANGED <<cursor, run, told, again>>

ChatStep ==
    \/ RunStarts \/ RunStops \/ InboxFetches \/ InboxFails \/ InboxMarks \/ InboxTells
    \/ PollReads \/ ClaimBusy \/ ClaimIdle \/ ClaimNothing

ChatSpecInit == BoardInit /\ ChatInit

RowStep ==
    \/ \E user \in BOOLEAN : InsertMessage(user)
    \/ \E m \in Messages : CommitMessage(m) \/ DeleteMessage(m)
    \/ ClearMessages

ChatNext == (RowStep /\ UNCHANGED chatVars) \/ (ChatStep /\ UNCHANGED boardVars)

ChatSpec == ChatSpecInit /\ [][ChatNext]_<<boardVars, chatVars>>

-----------------------------------------------------------------------------
(* Properties. *)

\* claimChatWake: a tag that woke the session, is on the board and that a run
\* has been told of does not wake the session a second time, although polls,
\* runs and deletions of the messages the cursors name come in any order.  (A
\* tag that a run was told of while it worked may still wake the session once:
\* without the delivered message in the page, what is younger than the latest
\* run's start counts as new.)
ToldTagsWakeOnce == again.twice = {}

\* inbox: "Each is delivered once: at Run start through the wake-up message, or
\* during a Run through chatMentions".
TagsAreDeliveredOnce == \A m \in Messages : told[m] <= 1
=============================================================================
