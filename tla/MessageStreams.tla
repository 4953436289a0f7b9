--------------------------- MODULE MessageStreams ---------------------------
(***************************************************************************)
(* The push of the board's changes to the page of the USER: streams and    *)
(* publish of backend/internal/message, streamMessages, and the cache of   *)
(* the page, frontend/src/pages/messages/store.js.                         *)
(*                                                                         *)
(* A change is committed first and published afterwards, outside any lock. *)
(* The page connects, then reads the board, and adds what is pushed; after *)
(* a lost connection it reads again from its oldest message.  One page.  A *)
(* list of the board is one answer (PAGE and CATCH_UP exceed the bound on  *)
(* the messages), so loadOlder is left out.                                *)
(***************************************************************************)
EXTENDS MessageBoard, SequencesExt

CONSTANTS StreamBuffer,   \* streamBuffer
          MaxReads,       \* bound on the reads of the page that are under way
          MaxConnections  \* bound on the connections the page asks for

ASSUME StreamsAssumption == {StreamBuffer, MaxReads, MaxConnections} \subseteq Nat \ {0}

VARIABLES
    unsaid,      \* events of committed changes, in that order, not published yet
    feed,        \* the page's connection, its subscription and its channel
    page,        \* chat of store.js: messages, removed, ready; connections so far
    reads,       \* requests of the page that are under way
    streamsOff,  \* streams.closed
    excused      \* ghost: why a message may be missed, Excuses that came true
streamVars == <<unsaid, feed, page, reads, streamsOff, excused>>

\* gap: commits or events out of order, or a resync that failed; overtaken: a
\* resync was asked while another one was to be answered.
Excuses == {"gap", "overtaken"}
Excuse(why, happened) == IF happened THEN excused \union {why} ELSE excused

NoFeed == [state |-> "none", on |-> FALSE, buffer |-> <<>>]

StreamsInit ==
    /\ unsaid = <<>>
    /\ feed = NoFeed
    /\ page = [messages |-> {}, removed |-> {}, ready |-> FALSE, count |-> 0]
    /\ reads = {}
    /\ streamsOff = FALSE
    /\ excused = {}

-----------------------------------------------------------------------------
(* Post, Delete, Clear: the commit, and the event still to be published *)

InsertForStream ==
    /\ InsertMessage(FALSE)
    /\ UNCHANGED streamVars

PostCommits(m) ==
    /\ CommitMessage(m)
    /\ unsaid' = Append(unsaid, [name |-> "created", m |-> m])
    /\ excused' = Excuse("gap", \E n \in Messages : m < n /\ n <= posted /\ n \notin opened)
    /\ UNCHANGED <<feed, page, reads, streamsOff>>

DeleteCommits(m) ==
    /\ DeleteMessage(m)
    /\ unsaid' = Append(unsaid, [name |-> "deleted", m |-> m])
    /\ UNCHANGED <<feed, page, reads, streamsOff, excused>>

ClearCommits ==
    /\ visible # {}
    /\ ClearMessages
    /\ unsaid' = Append(unsaid, [name |-> "cleared", m |-> 0])
    /\ UNCHANGED <<feed, page, reads, streamsOff, excused>>

-----------------------------------------------------------------------------
(* publish, CloseStreams *)

\* Mutant: a subscriber that is full is passed over.
PassOver(e) ==
    IF feed.on /\ Len(feed.buffer) < StreamBuffer
    THEN [feed EXCEPT !.buffer = Append(@, e)] ELSE feed

\* A subscriber that is full is dropped.
SendOrDrop(e) ==
    IF ~feed.on THEN feed
    ELSE IF Len(feed.buffer) < StreamBuffer
         THEN [feed EXCEPT !.buffer = Append(@, e)] ELSE [feed EXCEPT !.on = FALSE]

PublishEvent(i) ==
    /\ unsaid' = RemoveAt(unsaid, i)
    /\ feed' = SendOrDrop(unsaid[i])
    /\ excused' = Excuse("gap", i > 1)
    /\ UNCHANGED <<page, reads, streamsOff>>

\* The backend shuts down: every stream ends.
CloseStreams ==
    /\ ~streamsOff
    /\ streamsOff' = TRUE
    /\ feed' = [feed EXCEPT !.on = FALSE]
    /\ UNCHANGED <<unsaid, page, reads, excused>>

-----------------------------------------------------------------------------
(* store.js.  A read is a load (from 0) or a resync (from a message); it is  *)
(* asked, answered by the board, and applied.  old: the epoch has moved on.  *)

Ask(from) == [from |-> from, answered |-> FALSE, old |-> FALSE, gone |-> FALSE, list |-> {}]

\* loadLatest: only the answer of the last one counts (loadSeq).
AskLatest(R) == {r \in R : r.from # 0} \union {Ask(0)}

Outdated(R) == {[r EXCEPT !.old = TRUE] : r \in R}

\* reload: epoch and loadSeq move on; R is what is under way otherwise.
Reload(R) ==
    /\ page' = [page EXCEPT !.messages = {}, !.ready = FALSE]
    /\ reads' = AskLatest(Outdated(R))

\* streamMessages subscribes before it sends the response's header; when the
\* streams are closed the channel is too.
Subscribe ==
    /\ feed.state = "none" /\ page.count < MaxConnections
    /\ feed' = [feed EXCEPT !.state = "subscribed", !.on = ~streamsOff]
    /\ page' = [page EXCEPT !.count = @ + 1]
    /\ UNCHANGED <<unsaid, reads, streamsOff, excused>>

\* The connection is refused: onerror loads what was never loaded.
Refused ==
    /\ feed.state = "none" /\ page.count < MaxConnections
    /\ page' = [page EXCEPT !.count = @ + 1]
    /\ reads' = IF page.ready THEN reads ELSE AskLatest(reads)
    /\ UNCHANGED <<unsaid, feed, streamsOff, excused>>

\* The page reads again from its oldest message before it has the answer of the
\* last such read, which may hold older ones.
Overtakes == page.ready /\ page.messages # {} /\ \E r \in reads : r.from # 0 /\ ~r.old

\* onopen: loadLatest, resync, or without a message reload.
Opens ==
    /\ feed.state = "subscribed" /\ Cardinality(reads) < MaxReads
    /\ feed' = [feed EXCEPT !.state = "open"]
    /\ CASE ~page.ready -> page' = page /\ reads' = AskLatest(reads)
         [] page.ready /\ page.messages = {} -> Reload(reads)
         [] OTHER -> page' = page /\ reads' = reads \union {Ask(Min(page.messages))}
    /\ excused' = Excuse("overtaken", Overtakes)
    /\ UNCHANGED <<unsaid, streamsOff>>

\* The channel is closed and empty, or the client cannot be written to, or is
\* gone with what is left in the channel.
StreamEnds ==
    /\ feed.state # "none"
    /\ feed' = NoFeed
    /\ UNCHANGED <<unsaid, page, reads, streamsOff, excused>>

\* An event reaches the page: add, remove or clear.
Pushed ==
    LET e == Head(feed.buffer)
    IN  /\ feed.state = "open" /\ feed.buffer # <<>>
        /\ feed' = [feed EXCEPT !.buffer = Tail(@)]
        /\ page' = CASE e.name = "created" -> [page EXCEPT !.messages = @ \union ({e.m} \ page.removed)]
                     [] e.name = "deleted" -> [page EXCEPT !.messages = @ \ {e.m}, !.removed = @ \union {e.m}]
                     [] e.name = "cleared" -> [page EXCEPT !.messages = {}]
        /\ reads' = IF e.name = "cleared" THEN Outdated(reads) ELSE reads
        /\ UNCHANGED <<unsaid, streamsOff, excused>>

\* gone: the message the read starts from was deleted (invalid_request).
BoardAnswers(r) ==
    /\ ~r.answered
    /\ reads' = (reads \ {r}) \union
         {[r EXCEPT !.answered = TRUE, !.gone = r.from \notin visible \union {0}, !.list = ListMessages(r.from)]}
    /\ UNCHANGED <<unsaid, feed, page, streamsOff, excused>>

\* loadLatest: the list is dropped when the page was cleared meanwhile.
LoadApplies(r) ==
    /\ r.answered /\ r.from = 0
    /\ reads' = reads \ {r}
    /\ page' = [page EXCEPT !.ready = TRUE, !.messages = IF r.old THEN @ ELSE @ \union (r.list \ page.removed)]
    /\ UNCHANGED <<unsaid, feed, streamsOff, excused>>

\* What was read, and what was pushed meanwhile.
FreshAndPushed(r) ==
    LET fresh == r.list \union {r.from}
    IN  fresh \union {m \in page.messages : m > Max(fresh)}

\* resync: the answer is dropped when the page was cleared meanwhile.
ResyncApplies(r) ==
    /\ r.answered /\ r.from # 0
    /\ IF r.gone /\ ~r.old THEN Reload(reads \ {r})
       ELSE /\ reads' = reads \ {r}
            /\ page' = IF r.old THEN page ELSE [page EXCEPT !.messages = FreshAndPushed(r) \ page.removed]
    /\ UNCHANGED <<unsaid, feed, streamsOff, excused>>

\* The request fails: a load leaves ready alone and may be started again; a
\* resync is given up.
ReadFails(r) ==
    /\ reads' = reads \ {r}
    /\ excused' = Excuse("gap", r.from # 0)
    /\ UNCHANGED <<unsaid, feed, page, streamsOff>>

\* start, when the page is shown again: a load that failed is tried again.
StartAgain ==
    /\ ~page.ready /\ feed.state = "open" /\ reads = {}
    /\ reads' = {Ask(0)}
    /\ UNCHANGED <<unsaid, feed, page, streamsOff, excused>>

-----------------------------------------------------------------------------
PageStep ==
    \/ \E i \in DOMAIN unsaid : PublishEvent(i)
    \/ CloseStreams \/ Subscribe \/ Refused \/ Opens \/ StreamEnds \/ Pushed \/ StartAgain
    \/ \E r \in reads : BoardAnswers(r) \/ LoadApplies(r) \/ ResyncApplies(r) \/ ReadFails(r)

StreamsNext ==
    \/ InsertForStream
    \/ \E m \in Messages : PostCommits(m) \/ DeleteCommits(m)
    \/ ClearCommits
    \/ PageStep /\ UNCHANGED boardVars

StreamsSpec == BoardInit /\ StreamsInit /\ [][StreamsNext]_<<boardVars, streamVars>>

-----------------------------------------------------------------------------
(* Properties. *)

Settled ==
    /\ feed.state = "open" /\ feed.on /\ feed.buffer = <<>>
    /\ unsaid = <<>> /\ reads = {} /\ page.ready

\* store.js, connect and resync: nothing is missed between the read and the
\* push.  A page that is connected, has loaded and has nothing under way shows
\* every message of the board, whatever was posted, deleted, cleared, dropped and
\* read again before, as long as posts are committed in the order of created_at,
\* events are published in the order of the commits, no resync failed, and none
\* was asked while another one was to be answered.
PagesMissNothing ==
    Settled /\ excused = {} => visible \subseteq page.messages

\* The same of every reconnection, the comment of connect: a page that reads again
\* each time it is connected has what was posted meanwhile, also when the connection
\* is lost again before the read has been answered.
ReconnectsCatchUp ==
    Settled /\ "gap" \notin excused => visible \subseteq page.messages
=============================================================================
