--------------------------- MODULE MarketRuntime ---------------------------
(***************************************************************************)
(* The price cache and its subscriptions: Runtime of backend/internal/     *)
(* market (runtime.go, subscription.go).  One entry per symbol is cache    *)
(* and subscription at once; GetPrice starts the subscription it needs and *)
(* waits on the entry's broadcast channel; a sweep cancels subscriptions   *)
(* nobody has asked for; Close cancels all and waits.                      *)
(*                                                                         *)
(* Every step is a critical section of r.mu.  A price is fresh or not, an  *)
(* entry has been asked for lately or not.  The source is external: it     *)
(* sends prices, and returns when it fails or is canceled.                 *)
(***************************************************************************)
EXTENDS Integers, FiniteSets

CONSTANTS Symbols,  \* market and symbol
          Askers    \* callers of GetPrice

VARIABLES
    entry,    \* r.entries
    stream,   \* goroutines of Runtime.stream: symbol -> how many
    live,     \* symbols whose source has not been told to stop
    askers,   \* callers of GetPrice
    closing   \* Close: "no", "swept" (closed, all canceled), "stopped", "done"
marketVars == <<entry, stream, live, askers, closing>>

Unknown == [fresh |-> FALSE, idle |-> FALSE, state |-> "inactive", cancel |-> FALSE, lastErr |-> FALSE]
Away == [pc |-> "away", symbol |-> CHOOSE s \in Symbols : TRUE, waited |-> FALSE]

MarketInit ==
    /\ entry = [s \in Symbols |-> Unknown]
    /\ stream = [s \in Symbols |-> 0]
    /\ live = {}
    /\ askers = [c \in Askers |-> Away]
    /\ closing = "no"

\* broadcast: everyone who waits for s wakes up.
Awake(s) == [c \in Askers |-> IF askers[c].pc = "wait" /\ askers[c].symbol = s
                              THEN [askers[c] EXCEPT !.pc = "look", !.waited = TRUE] ELSE askers[c]]

AskPrice(c, s) ==
    /\ askers[c].pc = "away"
    /\ askers' = [askers EXCEPT ![c] = [pc |-> "look", symbol |-> s, waited |-> FALSE]]
    /\ UNCHANGED <<entry, stream, live, closing>>

\* One round of GetPrice that answers: closed, a fresh price, or an error met
\* while it waited.
Answered(c) ==
    LET s == askers[c].symbol
    IN  /\ askers[c].pc = "look"
        /\ \/ closing # "no" /\ UNCHANGED entry
           \/ /\ closing = "no"
              /\ entry[s].fresh \/ (askers[c].waited /\ entry[s].lastErr)
              /\ entry' = [entry EXCEPT ![s].idle = FALSE]
        /\ askers' = [askers EXCEPT ![c] = Away]
        /\ UNCHANGED <<stream, live, closing>>

\* One that does not: the subscription is started if there is none, and the
\* channel to wait on is picked up before the lock is given back.
StartsWaiting(c) ==
    LET s == askers[c].symbol
        start == entry[s].state = "inactive"
    IN  /\ askers[c].pc = "look" /\ closing = "no"
        /\ ~entry[s].fresh /\ ~(askers[c].waited /\ entry[s].lastErr)
        /\ entry' = [entry EXCEPT ![s] =
             IF start THEN [@ EXCEPT !.idle = FALSE, !.state = "activating", !.cancel = TRUE, !.lastErr = FALSE]
                      ELSE [@ EXCEPT !.idle = FALSE]]
        /\ stream' = [stream EXCEPT ![s] = IF start THEN @ + 1 ELSE @]
        /\ live' = IF start THEN live \union {s} ELSE live
        /\ askers' = [askers EXCEPT ![c].pc = "wait"]
        /\ UNCHANGED closing

\* waitTimeout, or the caller's context.
TimesOut(c) ==
    /\ askers[c].pc = "wait"
    /\ askers' = [askers EXCEPT ![c] = Away]
    /\ UNCHANGED <<entry, stream, live, closing>>

\* publish: also after a cancellation, until the source returns.
Publish(s) ==
    /\ stream[s] > 0
    /\ entry' = [entry EXCEPT ![s].fresh = TRUE, ![s].lastErr = FALSE, ![s].state = "active"]
    /\ askers' = Awake(s)
    /\ UNCHANGED <<stream, live, closing>>

\* Mutant: the waiting callers are not told that the subscription has ended.
FinishQuietly(s, failed) ==
    /\ stream[s] > 0
    /\ entry' = [entry EXCEPT ![s].state = "inactive", ![s].cancel = FALSE, ![s].lastErr = @ \/ failed]
    /\ stream' = [stream EXCEPT ![s] = @ - 1]
    /\ live' = live \ {s}
    /\ UNCHANGED <<askers, closing>>

\* finish: the source returned, with an error of its own or because it was
\* canceled (or with an error that looks like that).
FinishStream(s, failed) ==
    /\ stream[s] > 0
    /\ entry' = [entry EXCEPT ![s].state = "inactive", ![s].cancel = FALSE, ![s].lastErr = @ \/ failed]
    /\ stream' = [stream EXCEPT ![s] = @ - 1]
    /\ live' = live \ {s}
    /\ askers' = Awake(s)
    /\ UNCHANGED closing

\* Mutant: a canceled subscription counts as ended at once.
SweepInactive(s) ==
    /\ closing \in {"no", "swept"}
    /\ entry[s].state # "inactive" /\ entry[s].cancel /\ entry[s].idle
    /\ entry' = [entry EXCEPT ![s].cancel = FALSE, ![s].state = "inactive"]
    /\ live' = live \ {s}
    /\ UNCHANGED <<stream, askers, closing>>

\* sweep, for one symbol: the state stays until the stream has finished.
Sweep(s) ==
    /\ closing \in {"no", "swept"}
    /\ entry[s].state # "inactive" /\ entry[s].cancel /\ entry[s].idle
    /\ entry' = [entry EXCEPT ![s].cancel = FALSE]
    /\ live' = live \ {s}
    /\ UNCHANGED <<stream, askers, closing>>

\* Time passes: a price is no longer fresh, a request no longer recent.
Ages(s) ==
    /\ \/ entry[s].fresh /\ entry' = [entry EXCEPT ![s].fresh = FALSE]
       \/ ~entry[s].idle /\ entry[s].state # "inactive" /\ entry' = [entry EXCEPT ![s].idle = TRUE]
    /\ UNCHANGED <<stream, live, askers, closing>>

-----------------------------------------------------------------------------
(* Close *)

CloseMarket ==
    \/ /\ closing = "no"
       /\ closing' = "swept"
       /\ entry' = [s \in Symbols |-> [entry[s] EXCEPT !.cancel = FALSE]]
       /\ live' = {}
       /\ UNCHANGED <<stream, askers>>
    \/ /\ closing = "swept"
       /\ closing' = "stopped"       \* close(r.stopped): sweepLoop returns
       /\ UNCHANGED <<entry, stream, live, askers>>

MarketClosed ==
    /\ closing = "stopped"
    /\ \A s \in Symbols : stream[s] = 0
    /\ closing' = "done"
    /\ UNCHANGED <<entry, stream, live, askers>>

-----------------------------------------------------------------------------
Asking(c) == Answered(c) \/ StartsWaiting(c)

MarketNext ==
    \/ \E c \in Askers : Asking(c) \/ TimesOut(c) \/ \E s \in Symbols : AskPrice(c, s)
    \/ \E s \in Symbols : Publish(s) \/ Sweep(s) \/ Ages(s) \/ \E b \in BOOLEAN : FinishStream(s, b)
    \/ CloseMarket \/ MarketClosed

MarketSpec == MarketInit /\ [][MarketNext]_marketVars

\* Goroutines run, and a canceled source returns (Source's contract).
MarketFairness ==
    /\ \A c \in Askers : WF_marketVars(Asking(c))
    /\ \A s \in Symbols : WF_marketVars(s \notin live /\ \E b \in BOOLEAN : FinishStream(s, b))
    /\ WF_marketVars(closing # "no" /\ (CloseMarket \/ MarketClosed))

FairMarketSpec == MarketSpec /\ MarketFairness

-----------------------------------------------------------------------------
(* Properties. *)

\* runtime.go: a symbol has at most one stream, and its entry is inactive
\* exactly when it has none, so whoever waits has a stream that will wake it:
\* no sweep, failure or Close between a look and a wait loses the wake-up, and
\* no stream runs or starts once Close has returned.
WaitersHaveAStream ==
    /\ \A s \in Symbols :
         /\ stream[s] = IF entry[s].state = "inactive" THEN 0 ELSE 1
         /\ entry[s].cancel <=> s \in live
    /\ \A c \in Askers : askers[c].pc = "wait" => stream[askers[c].symbol] = 1
    /\ closing = "done" => \A s \in Symbols : stream[s] = 0

\* Close returns, and with it every caller that still waits for a price: it is
\* not left to its timeout.
CloseReleasesEveryone ==
    closing = "swept" ~> (closing = "done" /\ \A c \in Askers : askers[c].pc # "wait")
=============================================================================
