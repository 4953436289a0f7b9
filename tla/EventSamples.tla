---------------------------- MODULE EventSamples ----------------------------
(***************************************************************************)
(* What makes an Event fire: the rounds of PriceEventTask and              *)
(* PositionEventTask (agent/price_events.go, position_events.go) and the   *)
(* evaluation of their samples (events/price.go, position.go).             *)
(*                                                                         *)
(* A round looks up what is watched, asks the Backend over HTTP, reads the *)
(* clock and claims in one transaction; between any two of these Events    *)
(* are created, deleted and expire, prices move, the position opens and    *)
(* closes, and the server may stop.  One instrument and one position.      *)
(* Only the order of prices matters: below (0), at (1) and above (2) the   *)
(* level of every Event; price_change_pct is a level on its base price.    *)
(* The clocks of the two servers are taken to agree: no sample is dated    *)
(* after the time it arrives.                                              *)
(* A claim that fails latches a fault or is canceled by a shutdown: the    *)
(* next thing that happens is EventsRestart.                               *)
(***************************************************************************)
EXTENDS Integers, Sequences

CONSTANTS Watches,  \* ids of Events
          MaxTime,  \* bound on the clock
          MaxAge    \* priceSampleMaxAge

ASSUME SamplesAssumption == {MaxTime, MaxAge} \subseteq Nat \ {0}

VARIABLES
    quotes,         \* the price at each time; its length is the clock
    position,       \* of the account: "none", "open" or "closed"
    watches,        \* rows of events: id -> row, or NoRow
    created,        \* ids that have been used
    lastSample,     \* lastSamples of the price task: a time, 0 if none
    priceRound,     \* the round of the price task
    positionRound,  \* the round of the position task
    firings,        \* ghost: what was fired, with its evidence
    newest          \* ghost: the newest sample a claim has had for an Event
sampleVars == <<quotes, position, watches, created, lastSample, priceRound, positionRound, firings, newest>>

clock == Len(quotes)
Level == 1

CrossTypes == {"price_cross_above", "price_cross_below"}
PriceTypes == {"price_above", "price_below"} \union CrossTypes
EventTypes == PriceTypes \union {"position_close"}

\* state is the time of the baseline, or 1 once the position was observed open.
NoRow == [type |-> "none", expires |-> 0, state |-> 0]
Resting == [pc |-> "idle", sample |-> 0, now |-> 0]

SamplesInit ==
    /\ quotes = <<>>
    /\ position = "none"
    /\ watches = [e \in Watches |-> NoRow]
    /\ created = {}
    /\ lastSample = 0
    /\ priceRound = Resting
    /\ positionRound = Resting
    /\ firings = {}
    /\ newest = [e \in Watches |-> 0]

\* Mutant: expired Events are left to the local task alone.
WatchedForever(types, now) == {e \in Watches : watches[e].type \in types}

\* Events of some types that have not expired at a time.
Watched(types, now) == {e \in Watches : watches[e].type \in types /\ watches[e].expires > now}

-----------------------------------------------------------------------------
(* The market, the account, and the other ends of an Event *)

Quote(price) ==
    /\ clock < MaxTime
    /\ quotes' = Append(quotes, price)
    /\ UNCHANGED <<position, watches, created, lastSample, priceRound, positionRound, firings, newest>>

MovePosition ==
    /\ position # "closed"
    /\ position' = IF position = "none" THEN "open" ELSE "closed"
    /\ UNCHANGED <<quotes, watches, created, lastSample, priceRound, positionRound, firings, newest>>

CreateWatch(e, type, expires) ==
    /\ e \notin created /\ expires > clock
    /\ created' = created \union {e}
    /\ watches' = [watches EXCEPT ![e] = [type |-> type, expires |-> expires, state |-> 0]]
    /\ UNCHANGED <<quotes, position, lastSample, priceRound, positionRound, firings, newest>>

\* Deleted by its Run or the user, cleared with its Session, or expired.
RemoveWatch(e) ==
    /\ watches[e] # NoRow
    /\ watches' = [watches EXCEPT ![e] = NoRow]
    /\ UNCHANGED <<quotes, position, created, lastSample, priceRound, positionRound, firings, newest>>

-----------------------------------------------------------------------------
(* PriceEventTask *)

\* watchedInstruments; samplePrices forgets an instrument nobody watches.
WatchPrices ==
    /\ priceRound.pc = "idle"
    /\ IF Watched(PriceTypes, clock) # {}
       THEN priceRound' = [priceRound EXCEPT !.pc = "sample"] /\ UNCHANGED lastSample
       ELSE lastSample' = 0 /\ UNCHANGED priceRound
    /\ UNCHANGED <<quotes, position, watches, created, positionRound, firings, newest>>

\* samplePrices: the Backend answers with the price of time t, maybe an old one.
SamplePrice(t) ==
    /\ priceRound.pc = "sample"
    /\ IF clock - t <= MaxAge /\ t > lastSample
       THEN /\ lastSample' = t
            /\ priceRound' = [priceRound EXCEPT !.pc = "clock", !.sample = t]
       ELSE priceRound' = Resting /\ UNCHANGED lastSample
    /\ UNCHANGED <<quotes, position, watches, created, positionRound, firings, newest>>

SampleFails ==
    /\ priceRound.pc = "sample"
    /\ priceRound' = Resting
    /\ UNCHANGED <<quotes, position, watches, created, lastSample, positionRound, firings, newest>>

\* The claim clock is read after sampling and before r.mu is waited for.
ReadClock ==
    /\ priceRound.pc = "clock"
    /\ priceRound' = [priceRound EXCEPT !.pc = "claim", !.now = clock]
    /\ UNCHANGED <<quotes, position, watches, created, lastSample, positionRound, firings, newest>>

Crossed(type, before, after) ==
    IF type = "price_cross_above" THEN before < Level /\ after >= Level
                                  ELSE before > Level /\ after <= Level

\* Mutant: a sample that is not newer than the baseline counts too.
EvaluateAnySample(row, t) ==
    CASE row.type = "price_above" -> [fires |-> quotes[t] >= Level, state |-> row.state]
      [] row.type = "price_below" -> [fires |-> quotes[t] <= Level, state |-> row.state]
      [] OTHER ->
            IF row.state = 0 THEN [fires |-> FALSE, state |-> t]
            ELSE [fires |-> Crossed(row.type, quotes[row.state], quotes[t]), state |-> t]

\* evaluatePriceEvent: whether the sample of time t fires, and the new baseline.
Evaluate(row, t) ==
    CASE row.type = "price_above" -> [fires |-> quotes[t] >= Level, state |-> row.state]
      [] row.type = "price_below" -> [fires |-> quotes[t] <= Level, state |-> row.state]
      [] OTHER ->
            IF row.state = 0 THEN [fires |-> FALSE, state |-> t]
            ELSE IF t <= row.state THEN [fires |-> FALSE, state |-> row.state]
            ELSE [fires |-> Crossed(row.type, quotes[row.state], quotes[t]), state |-> t]

\* fireEventTx: what is reported of an Event.
Firing(e, sample, now) == [row |-> watches[e], newest |-> newest[e], sample |-> sample, now |-> now]

\* MatchPriceTx
ClaimPrices ==
    LET t == priceRound.sample
        W == Watched(PriceTypes, priceRound.now)
        Fired == {e \in W : Evaluate(watches[e], t).fires}
    IN  /\ priceRound.pc = "claim"
        /\ watches' = [e \in Watches |->
             IF e \in Fired THEN NoRow
             ELSE IF e \in W THEN [watches[e] EXCEPT !.state = Evaluate(watches[e], t).state] ELSE watches[e]]
        /\ firings' = firings \union {Firing(e, t, priceRound.now) : e \in Fired}
        /\ newest' = [e \in Watches |-> IF e \in W /\ t > newest[e] THEN t ELSE newest[e]]
        /\ priceRound' = Resting
        /\ UNCHANGED <<quotes, position, created, lastSample, positionRound>>

-----------------------------------------------------------------------------
(* PositionEventTask; sample is 1 when the account shows the position, else 0 *)

WatchPositions ==
    /\ positionRound.pc = "idle"
    /\ Watched({"position_close"}, clock) # {}
    /\ positionRound' = [positionRound EXCEPT !.pc = "sample"]
    /\ UNCHANGED <<quotes, position, watches, created, lastSample, priceRound, firings, newest>>

\* samplePositions, then the clock.
SamplePositions ==
    /\ positionRound.pc = "sample"
    /\ \/ positionRound' = [pc |-> "clock", sample |-> IF position = "open" THEN 1 ELSE 0, now |-> 0]
       \/ positionRound' = Resting
    /\ UNCHANGED <<quotes, position, watches, created, lastSample, priceRound, firings, newest>>

ReadPositionClock ==
    /\ positionRound.pc = "clock"
    /\ positionRound' = [positionRound EXCEPT !.pc = "claim", !.now = clock]
    /\ UNCHANGED <<quotes, position, watches, created, lastSample, priceRound, firings, newest>>

\* Mutant: a position that is not there counts as closed, observed or not.
ClosedUnobserved(e) == positionRound.sample = 0

\* Not there, and an earlier poll has observed it.
ClosedNow(e) == positionRound.sample = 0 /\ watches[e].state = 1

\* MatchPositionCloseTx
ClaimPositions ==
    LET W == Watched({"position_close"}, positionRound.now)
        Fired == {e \in W : ClosedNow(e)}
    IN  /\ positionRound.pc = "claim"
        /\ watches' = [e \in Watches |->
             IF e \in Fired THEN NoRow
             ELSE IF e \in W /\ positionRound.sample = 1 THEN [watches[e] EXCEPT !.state = 1] ELSE watches[e]]
        /\ firings' = firings \union {Firing(e, 0, positionRound.now) : e \in Fired}
        /\ positionRound' = Resting
        /\ UNCHANGED <<quotes, position, created, lastSample, priceRound, newest>>

-----------------------------------------------------------------------------
\* The server stops and starts again: the rows stay, the tasks start afresh.
EventsRestart ==
    /\ lastSample' = 0
    /\ priceRound' = Resting
    /\ positionRound' = Resting
    /\ UNCHANGED <<quotes, position, watches, created, firings, newest>>

SamplesNext ==
    \/ \E price \in 0..2 : Quote(price)
    \/ MovePosition
    \/ \E e \in Watches, type \in EventTypes, expires \in 1..MaxTime : CreateWatch(e, type, expires)
    \/ \E e \in Watches : RemoveWatch(e)
    \/ WatchPrices \/ SampleFails \/ ReadClock \/ ClaimPrices
    \/ \E t \in 1..clock : SamplePrice(t)
    \/ WatchPositions \/ SamplePositions \/ ReadPositionClock \/ ClaimPositions
    \/ EventsRestart

SamplesSpec == SamplesInit /\ [][SamplesNext]_sampleVars

-----------------------------------------------------------------------------
(* Properties. *)

\* evaluatePriceEvent, "Cross baselines are persisted ... so a restart compares
\* against the last persisted sample": the baseline of a cross Event is the
\* newest sample any claim has had for it, and it fires on a crossing from that
\* one to a newer one, although answers come late and the memory of the task is
\* lost at a restart or when nobody watches.  So no crossing between two samples
\* is missed and none is reported that lies in the past.
CrossingsAreExact ==
    /\ \A e \in Watches : watches[e].type \in CrossTypes => watches[e].state = newest[e]
    /\ \A f \in firings : f.row.type \in CrossTypes =>
         /\ 0 < f.row.state /\ f.row.state = f.newest /\ f.newest < f.sample
         /\ Crossed(f.row.type, quotes[f.newest], quotes[f.sample])

\* MatchPositionCloseTx: "A position is closed only after a successful earlier
\* poll observed it"; an Event never reports a position that is yet to be opened
\* or is still open.
ClosesAreReal == \A f \in firings : f.row.type = "position_close" => position = "closed"

\* PriceEventTask: "fired_at is never earlier than the sample it reports", and an
\* Event whose expiry arrived while the Backend was answering does not fire.
FiringsAreInTime == \A f \in firings : f.sample <= f.now /\ f.now < f.row.expires

\* Whatever fires, fires on evidence that is new, true and in time.
EventsFollowTheSamples == CrossingsAreExact /\ ClosesAreReal /\ FiringsAreInTime
=============================================================================
