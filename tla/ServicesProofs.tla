--------------------------- MODULE ServicesProofs ---------------------------
(***************************************************************************)
(* Theorems about five services of MCServices, MarketRuntime,              *)
(* EventSamples, ChatWake, RunHistory and MessageStreams: for any number   *)
(* of symbols, callers, Events, messages, runs, shards, readers and        *)
(* connections, and however long they run.                                 *)
(***************************************************************************)
EXTENDS MarketRuntime, EventSamples, ChatWake, RunHistory, MessageStreams, FiniteSetTheorems, WellFoundedInduction, TLAPS

-----------------------------------------------------------------------------
(* MarketRuntime *)

Entries == [fresh : BOOLEAN, idle : BOOLEAN, state : {"inactive", "activating", "active"},
            cancel : BOOLEAN, lastErr : BOOLEAN]

Callers == [pc : {"away", "look", "wait"}, symbol : Symbols \union {Away.symbol}, waited : BOOLEAN]

MarketTypes ==
    /\ entry \in [Symbols -> Entries]
    /\ stream \in [Symbols -> Nat]
    /\ live \subseteq Symbols
    /\ askers \in [Askers -> Callers]
    /\ \A c \in Askers : askers[c].pc # "away" => askers[c].symbol \in Symbols
    /\ closing \in {"no", "swept", "stopped", "done"}

MarketInv == MarketTypes /\ WaitersHaveAStream

\* The ways an entry is written keep its type; most keep state and cancel.
LEMMA EntryWrites ==
    ASSUME NEW x \in Entries
    PROVE  /\ LET y == [x EXCEPT !.idle = FALSE]
              IN  y \in Entries /\ y.state = x.state /\ y.cancel = x.cancel
           /\ LET y == [x EXCEPT !.idle = TRUE]
              IN  y \in Entries /\ y.state = x.state /\ y.cancel = x.cancel
           /\ LET y == [x EXCEPT !.fresh = FALSE]
              IN  y \in Entries /\ y.state = x.state /\ y.cancel = x.cancel
           /\ LET y == [x EXCEPT !.idle = FALSE, !.state = "activating", !.cancel = TRUE, !.lastErr = FALSE]
              IN  y \in Entries /\ y.state = "activating" /\ y.cancel = TRUE
           /\ LET y == [x EXCEPT !.fresh = TRUE, !.lastErr = FALSE, !.state = "active"]
              IN  y \in Entries /\ y.state = "active" /\ y.cancel = x.cancel
           /\ LET y == [x EXCEPT !.cancel = FALSE]
              IN  y \in Entries /\ y.state = x.state /\ y.cancel = FALSE
BY DEF Entries

\* broadcast: those who waited for s look again, the others are left alone.
LEMMA AwakeCallers ==
    ASSUME askers \in [Askers -> Callers], NEW s
    PROVE  /\ Awake(s) \in [Askers -> Callers]
           /\ \A c \in Askers : /\ Awake(s)[c].symbol = askers[c].symbol
                                /\ Awake(s)[c].pc # "away" => askers[c].pc # "away"
                                /\ Awake(s)[c].pc = "wait" => askers[c].pc = "wait" /\ askers[c].symbol # s
<1> SUFFICES ASSUME NEW c \in Askers
             PROVE  /\ Awake(s)[c] \in Callers
                    /\ Awake(s)[c].symbol = askers[c].symbol
                    /\ Awake(s)[c].pc # "away" => askers[c].pc # "away"
                    /\ Awake(s)[c].pc = "wait" => askers[c].pc = "wait" /\ askers[c].symbol # s
    BY DEF Awake
<1>1. CASE askers[c].pc = "wait" /\ askers[c].symbol = s
    <2>1. Awake(s)[c] = [askers[c] EXCEPT !.pc = "look", !.waited = TRUE]
        BY <1>1 DEF Awake
    <2>2. \A x \in Callers : LET y == [x EXCEPT !.pc = "look", !.waited = TRUE]
                             IN  y \in Callers /\ y.pc = "look" /\ y.symbol = x.symbol
        BY DEF Callers
    <2>3. Awake(s)[c] \in Callers /\ Awake(s)[c].pc = "look" /\ Awake(s)[c].symbol = askers[c].symbol
        BY <2>1, <2>2
    <2> QED BY <1>1, <2>3
<1>2. CASE ~(askers[c].pc = "wait" /\ askers[c].symbol = s)
    BY <1>2 DEF Awake
<1> QED BY <1>1, <1>2

\* A step that changes one entry: it keeps the types, and says what became of
\* the stream and of the right to cancel it.
LEMMA EntryStep ==
    ASSUME MarketTypes, NEW s \in Symbols, NEW e \in Entries, entry' = [entry EXCEPT ![s] = e]
    PROVE  /\ entry' \in [Symbols -> Entries]
           /\ entry'[s] = e
           /\ \A t \in Symbols : t # s => entry'[t] = entry[t]
BY DEF MarketTypes

\* Every step keeps entries, streams and waiting callers in agreement.
LEMMA MarketStep ==
    ASSUME MarketInv, [MarketNext]_marketVars
    PROVE  MarketInv'
<1> USE DEF MarketInv, MarketTypes, WaitersHaveAStream
<1>1. ASSUME NEW c \in Askers, NEW s \in Symbols, AskPrice(c, s) PROVE MarketInv'
    BY <1>1 DEF AskPrice, Callers
<1>2. ASSUME NEW c \in Askers, Answered(c) PROVE MarketInv'
    <2> DEFINE s == askers[c].symbol
               e == [entry[s] EXCEPT !.idle = FALSE]
    <2>1. s \in Symbols
        BY <1>2 DEF Answered
    <2>2. e \in Entries /\ e.state = entry[s].state /\ e.cancel = entry[s].cancel
        BY <2>1, EntryWrites
    <2>3. entry' = entry \/ entry' = [entry EXCEPT ![s] = e]
        BY <1>2 DEF Answered
    <2>4. /\ entry' \in [Symbols -> Entries]
          /\ \A t \in Symbols : entry'[t].state = entry[t].state /\ entry'[t].cancel = entry[t].cancel
        BY <2>1, <2>2, <2>3, EntryStep
    <2>5. askers' = [askers EXCEPT ![c] = Away] /\ UNCHANGED <<stream, live, closing>>
        BY <1>2 DEF Answered
    <2>6. Away \in Callers
        BY DEF Away, Callers
    <2> QED BY <2>4, <2>5, <2>6 DEF Away
<1>3. ASSUME NEW c \in Askers, StartsWaiting(c) PROVE MarketInv'
    <2> DEFINE s == askers[c].symbol
               start == entry[s].state = "inactive"
               x == [entry[s] EXCEPT !.idle = FALSE, !.state = "activating", !.cancel = TRUE, !.lastErr = FALSE]
               y == [entry[s] EXCEPT !.idle = FALSE]
               e == IF start THEN x ELSE y
    <2>1. s \in Symbols
        BY <1>3 DEF StartsWaiting
    <2>2. /\ x \in Entries /\ x.state = "activating" /\ x.cancel = TRUE
          /\ y \in Entries /\ y.state = entry[s].state /\ y.cancel = entry[s].cancel
        BY <2>1, EntryWrites
    <2>3. entry' = [entry EXCEPT ![s] = e]
        BY <1>3 DEF StartsWaiting
    <2> HIDE DEF x, y
    <2>4. /\ e \in Entries /\ e.state # "inactive"
          /\ start => e.cancel = TRUE
          /\ ~start => e.cancel = entry[s].cancel
        BY <2>1, <2>2
    <2>5. /\ stream' = [stream EXCEPT ![s] = IF start THEN @ + 1 ELSE @]
          /\ live' = IF start THEN live \union {s} ELSE live
          /\ askers' = [askers EXCEPT ![c].pc = "wait"]
          /\ closing' = closing /\ closing = "no" /\ askers[c].pc = "look"
        BY <1>3 DEF StartsWaiting
    <2> HIDE DEF e
    <2>6. /\ entry' \in [Symbols -> Entries] /\ entry'[s] = e
          /\ \A t \in Symbols : t # s => entry'[t] = entry[t]
        BY <2>1, <2>3, <2>4, EntryStep
    <2>7. stream' \in [Symbols -> Nat] /\ live' \subseteq Symbols
        BY <2>1, <2>5
    <2>8. \A t \in Symbols : stream'[t] = IF entry'[t].state = "inactive" THEN 0 ELSE 1
        BY <2>1, <2>4, <2>5, <2>6
    <2>9. \A t \in Symbols : entry'[t].cancel <=> t \in live'
        BY <2>1, <2>4, <2>5, <2>6
    <2>10. /\ askers' \in [Askers -> Callers]
           /\ \A d \in Askers : askers'[d].symbol = askers[d].symbol /\ (d # c => askers'[d] = askers[d])
        BY <2>5 DEF Callers
    <2>11. \A d \in Askers : askers'[d].pc = "wait" => stream'[askers'[d].symbol] = 1
        BY <2>1, <2>4, <2>5, <2>6, <2>8, <2>10
    <2> QED BY <2>1, <2>5, <2>6, <2>7, <2>8, <2>9, <2>10, <2>11
<1>4. ASSUME NEW c \in Askers, TimesOut(c) PROVE MarketInv'
    <2>1. Away \in Callers
        BY DEF Away, Callers
    <2> QED BY <1>4, <2>1 DEF TimesOut, Away
<1>5. ASSUME NEW s \in Symbols, Publish(s) PROVE MarketInv'
    <2> DEFINE e == [entry[s] EXCEPT !.fresh = TRUE, !.lastErr = FALSE, !.state = "active"]
    <2>1. e \in Entries /\ e.state = "active" /\ e.cancel = entry[s].cancel
        BY EntryWrites
    <2>2. entry' = [entry EXCEPT ![s] = e] /\ stream[s] > 0 /\ UNCHANGED <<stream, live, closing>>
        BY <1>5 DEF Publish
    <2> HIDE DEF e
    <2>3. /\ entry' \in [Symbols -> Entries] /\ entry'[s] = e
          /\ \A t \in Symbols : t # s => entry'[t] = entry[t]
        BY <2>1, <2>2, EntryStep
    <2>4. askers' = Awake(s)
        BY <1>5 DEF Publish
    <2>5. \A t \in Symbols : stream'[t] = IF entry'[t].state = "inactive" THEN 0 ELSE 1
        BY <2>1, <2>2, <2>3
    <2>6. \A t \in Symbols : entry'[t].cancel <=> t \in live'
        BY <2>1, <2>2, <2>3
    <2>7. /\ askers' \in [Askers -> Callers]
          /\ \A c \in Askers : /\ askers'[c].symbol = askers[c].symbol
                               /\ askers'[c].pc # "away" => askers[c].pc # "away"
                               /\ askers'[c].pc = "wait" => askers[c].pc = "wait" /\ askers[c].symbol # s
        BY <2>2, <2>4, AwakeCallers
    <2> QED BY <2>2, <2>3, <2>5, <2>6, <2>7
<1>6. ASSUME NEW s \in Symbols, NEW b \in BOOLEAN, FinishStream(s, b) PROVE MarketInv'
    <2> DEFINE e == [entry[s] EXCEPT !.state = "inactive", !.cancel = FALSE, !.lastErr = @ \/ b]
    <2>0. entry[s] \in Entries /\ entry[s].lastErr \in BOOLEAN /\ (entry[s].lastErr \/ b) \in BOOLEAN
        BY DEF Entries
    <2>1. e \in Entries /\ e.state = "inactive" /\ e.cancel = FALSE
        BY <2>0 DEF Entries
    <2>2. /\ entry' = [entry EXCEPT ![s] = e] /\ stream[s] > 0 /\ closing' = closing
          /\ stream' = [stream EXCEPT ![s] = @ - 1] /\ live' = live \ {s} /\ askers' = Awake(s)
        BY <1>6 DEF FinishStream
    <2> HIDE DEF e
    <2>3. /\ entry' \in [Symbols -> Entries] /\ entry'[s] = e
          /\ \A t \in Symbols : t # s => entry'[t] = entry[t]
        BY <2>1, <2>2, EntryStep
    <2>4. stream[s] = 1 /\ stream' \in [Symbols -> Nat]
        BY <2>2
    <2>5. \A t \in Symbols : stream'[t] = IF entry'[t].state = "inactive" THEN 0 ELSE 1
        BY <2>1, <2>2, <2>3, <2>4
    <2>6. \A t \in Symbols : entry'[t].cancel <=> t \in live'
        BY <2>1, <2>2, <2>3
    <2>7. /\ askers' \in [Askers -> Callers]
          /\ \A c \in Askers : /\ askers'[c].symbol = askers[c].symbol
                               /\ askers'[c].pc # "away" => askers[c].pc # "away"
                               /\ askers'[c].pc = "wait" => askers[c].pc = "wait" /\ askers[c].symbol # s
        BY <2>2, <2>4, AwakeCallers
    <2> QED BY <2>2, <2>3, <2>4, <2>5, <2>6, <2>7
<1>7. ASSUME NEW s \in Symbols, Sweep(s) PROVE MarketInv'
    <2> DEFINE e == [entry[s] EXCEPT !.cancel = FALSE]
    <2>1. e \in Entries /\ e.state = entry[s].state /\ e.cancel = FALSE
        BY DEF Entries
    <2>2. entry' = [entry EXCEPT ![s] = e] /\ live' = live \ {s} /\ UNCHANGED <<stream, askers, closing>>
        BY <1>7 DEF Sweep
    <2> HIDE DEF e
    <2>3. /\ entry' \in [Symbols -> Entries] /\ entry'[s] = e
          /\ \A t \in Symbols : t # s => entry'[t] = entry[t]
        BY <2>1, <2>2, EntryStep
    <2>4. \A t \in Symbols : entry'[t].cancel <=> t \in live'
        BY <2>1, <2>2, <2>3
    <2> QED BY <2>1, <2>2, <2>3, <2>4
<1>8. ASSUME NEW s \in Symbols, Ages(s) PROVE MarketInv'
    <2> DEFINE x == [entry[s] EXCEPT !.fresh = FALSE]
               y == [entry[s] EXCEPT !.idle = TRUE]
    <2>1. /\ x \in Entries /\ x.state = entry[s].state /\ x.cancel = entry[s].cancel
          /\ y \in Entries /\ y.state = entry[s].state /\ y.cancel = entry[s].cancel
        BY EntryWrites
    <2>2. entry' = [entry EXCEPT ![s] = x] \/ entry' = [entry EXCEPT ![s] = y]
        BY <1>8 DEF Ages
    <2> HIDE DEF x, y
    <2>3. /\ entry' \in [Symbols -> Entries]
          /\ \A t \in Symbols : entry'[t].state = entry[t].state /\ entry'[t].cancel = entry[t].cancel
        BY <2>1, <2>2, EntryStep
    <2>4. UNCHANGED <<stream, live, askers, closing>>
        BY <1>8 DEF Ages
    <2> QED BY <2>3, <2>4
<1>9. CASE CloseMarket
    <2>1. CASE entry' = [s \in Symbols |-> [entry[s] EXCEPT !.cancel = FALSE]] /\ live' = {}
        <3>1. /\ entry' \in [Symbols -> Entries]
              /\ \A t \in Symbols : entry'[t].state = entry[t].state /\ entry'[t].cancel = FALSE
            BY <2>1, EntryWrites
        <3>2. UNCHANGED <<stream, askers>> /\ closing' \in {"swept", "stopped"}
            BY <1>9 DEF CloseMarket
        <3> QED BY <2>1, <3>1, <3>2
    <2>2. CASE UNCHANGED <<entry, stream, live, askers>> /\ closing' = "stopped"
        BY <2>2
    <2> QED BY <1>9, <2>1, <2>2 DEF CloseMarket
<1>10. CASE MarketClosed
    BY <1>10 DEF MarketClosed
<1>11. CASE UNCHANGED marketVars
    BY <1>11 DEF marketVars
<1> QED
    BY <1>1, <1>2, <1>3, <1>4, <1>5, <1>6, <1>7, <1>8, <1>9, <1>10, <1>11 DEF MarketNext, Asking

\* GetPrice, publish, finish, sweep, Close: whoever waits for a price has a
\* stream that will wake it, a symbol has at most one stream, and none is left
\* when Close has returned.
THEOREM WaitersAreServed == MarketSpec => []WaitersHaveAStream
<1>1. MarketInit => MarketInv
    BY DEF MarketInit, MarketInv, MarketTypes, Entries, Callers, WaitersHaveAStream, Unknown, Away
<1>2. MarketInv => WaitersHaveAStream
    BY DEF MarketInv
<1> QED BY <1>1, <1>2, MarketStep, PTL DEF MarketSpec

-----------------------------------------------------------------------------
(* EventSamples *)

Rows == [type : EventTypes \union {"none"}, expires : Nat, state : Nat]
Rounds == [pc : {"idle", "sample", "clock", "claim"}, sample : Nat, now : Nat]

SampleTypes ==
    /\ quotes \in Seq(0..2)
    /\ position \in {"none", "open", "closed"}
    /\ watches \in [Watches -> Rows]
    /\ created \subseteq Watches
    /\ priceRound \in Rounds /\ positionRound \in Rounds
    /\ newest \in [Watches -> Nat]

\* An id that is not used yet has no history.
FreshIds == \A e \in Watches : e \notin created => watches[e] = NoRow /\ newest[e] = 0

\* What a round has read lies in the past, and its clock is not before it.
RoundsLookBack ==
    /\ priceRound.pc \in {"clock", "claim"} => priceRound.sample \in 1..Len(quotes)
    /\ priceRound.pc = "claim" => priceRound.sample <= priceRound.now

\* An Event has observed the position open only if it was; while a round holds
\* an answer without the position, it has closed or no Event has observed it.
Observed == {e \in Watches : watches[e].type = "position_close" /\ watches[e].state = 1}
ObservationsAreTrue ==
    /\ position = "none" => Observed = {}
    /\ positionRound.pc \in {"clock", "claim"} =>
         IF positionRound.sample = 0 THEN position = "closed" \/ Observed = {} ELSE position # "none"

\* The evidence of a firing lies in the past.
EvidenceIsOld == \A f \in firings : f.row.type \in CrossTypes => f.newest \in Nat /\ f.sample \in 1..Len(quotes)

SamplesInv ==
    /\ SampleTypes /\ FreshIds /\ RoundsLookBack /\ ObservationsAreTrue /\ EvidenceIsOld
    /\ EventsFollowTheSamples

USE DEF SampleTypes, Rows, Rounds, EventTypes, PriceTypes, CrossTypes, clock

\* A step that leaves quotes, Events and firings alone keeps the properties.
LEMMA SamplesQuiet ==
    ASSUME EventsFollowTheSamples, UNCHANGED <<quotes, watches, firings, newest>>,
           position' = position \/ position # "closed"
    PROVE  EventsFollowTheSamples'
<1>1. CASE position' = position
    BY <1>1 DEF EventsFollowTheSamples, CrossingsAreExact, ClosesAreReal, FiringsAreInTime, Crossed
<1>2. CASE position # "closed"
    BY <1>2 DEF EventsFollowTheSamples, CrossingsAreExact, ClosesAreReal, FiringsAreInTime, Crossed
<1> QED BY <1>1, <1>2

\* evaluatePriceEvent: a cross Event fires on a crossing to a newer sample, and
\* otherwise keeps the newer of its baseline and the sample.
LEMMA Evaluated ==
    ASSUME NEW row \in Rows, NEW t \in Nat \ {0}
    PROVE  /\ Evaluate(row, t).state \in Nat
           /\ row.type \in CrossTypes =>
                IF Evaluate(row, t).fires
                THEN row.state > 0 /\ t > row.state /\ Crossed(row.type, quotes[row.state], quotes[t])
                ELSE Evaluate(row, t).state = IF t > row.state THEN t ELSE row.state
<1>1. CASE row.type = "price_above"
    BY <1>1 DEF Evaluate
<1>2. CASE row.type = "price_below"
    BY <1>2 DEF Evaluate
<1>3. CASE row.type \notin {"price_above", "price_below"}
    <2> DEFINE crossed == Crossed(row.type, quotes[row.state], quotes[t])
    <2>1. Evaluate(row, t) = IF row.state = 0 THEN [fires |-> FALSE, state |-> t]
                             ELSE IF t <= row.state THEN [fires |-> FALSE, state |-> row.state]
                             ELSE [fires |-> crossed, state |-> t]
        BY <1>3 DEF Evaluate
    <2> HIDE DEF crossed
    <2>2. CASE row.state = 0
        BY <2>1, <2>2
    <2>3. CASE row.state # 0 /\ t <= row.state
        BY <2>1, <2>3
    <2>4. CASE row.state # 0 /\ ~(t <= row.state)
        BY <2>1, <2>4 DEF crossed
    <2> QED BY <2>2, <2>3, <2>4
<1> QED BY <1>1, <1>2, <1>3

\* MatchPriceTx
LEMMA ClaimPricesStep ==
    ASSUME SamplesInv, ClaimPrices
    PROVE  SamplesInv'
<1> DEFINE t == priceRound.sample
           now == priceRound.now
           W == Watched(PriceTypes, now)
           Fired == {e \in W : Evaluate(watches[e], t).fires}
<1>1. SampleTypes /\ FreshIds /\ RoundsLookBack /\ ObservationsAreTrue /\ EvidenceIsOld
    BY DEF SamplesInv
<1>2. CrossingsAreExact /\ ClosesAreReal /\ FiringsAreInTime
    BY DEF SamplesInv, EventsFollowTheSamples
<1>3. priceRound.pc = "claim" /\ t \in 1..Len(quotes) /\ t \in Nat \ {0} /\ now \in Nat /\ t <= now
    BY <1>1 DEF ClaimPrices, RoundsLookBack
<1>4. /\ watches' = [e \in Watches |->
             IF e \in Fired THEN NoRow
             ELSE IF e \in W THEN [watches[e] EXCEPT !.state = Evaluate(watches[e], t).state] ELSE watches[e]]
      /\ firings' = firings \union {Firing(e, t, now) : e \in Fired}
      /\ newest' = [e \in Watches |-> IF e \in W /\ t > newest[e] THEN t ELSE newest[e]]
      /\ priceRound' = Resting
      /\ UNCHANGED <<quotes, position, created, lastSample, positionRound>>
    BY DEF ClaimPrices
<1>5. \A e \in W : e \in Watches /\ watches[e].type \in PriceTypes /\ watches[e].expires > now
    BY DEF Watched
<1>6. \A e \in Watches : watches[e] \in Rows
    BY <1>1
<1> HIDE DEF t, now, W
<1>7. ASSUME NEW e \in Watches
      PROVE  /\ watches'[e] \in Rows /\ newest'[e] \in Nat
             /\ watches'[e] \in {NoRow, watches[e]}
                \/ (watches'[e].type = watches[e].type /\ watches[e].type \in PriceTypes)
             /\ watches'[e].type \in CrossTypes => watches'[e].state = newest'[e]
    <2>1. Evaluate(watches[e], t).state \in Nat
        BY <1>3, <1>6, Evaluated
    <2>2. CASE e \in Fired
        BY <1>1, <1>3, <1>4, <2>2 DEF NoRow
    <2>3. CASE e \notin Fired /\ e \in W
        <3>1. watches'[e] = [watches[e] EXCEPT !.state = Evaluate(watches[e], t).state]
            BY <1>4, <2>3
        <3>2. /\ watches'[e].type = watches[e].type /\ watches'[e] \in Rows
              /\ watches'[e].state = Evaluate(watches[e], t).state
            BY <1>6, <2>1, <3>1
        <3>3. newest'[e] = IF t > newest[e] THEN t ELSE newest[e]
            BY <1>4, <2>3
        <3>4. ~Evaluate(watches[e], t).fires
            BY <2>3
        <3>5. watches[e].type \in CrossTypes => watches'[e].state = newest'[e]
            BY <1>2, <1>3, <1>6, <3>2, <3>3, <3>4, Evaluated DEF CrossingsAreExact
        <3> QED BY <1>1, <1>3, <1>5, <2>3, <3>2, <3>3, <3>5
    <2>4. CASE e \notin W
        <3>1. watches'[e] = watches[e] /\ newest'[e] = newest[e]
            BY <1>4, <2>4
        <3> QED BY <1>1, <1>2, <3>1 DEF CrossingsAreExact
    <2> QED BY <2>2, <2>3, <2>4
<1>8. ASSUME NEW f \in firings', f \notin firings
      PROVE  /\ f.row.type \in PriceTypes /\ f.sample <= f.now /\ f.now < f.row.expires
             /\ f.row.type \in CrossTypes =>
                  /\ f.newest \in Nat /\ f.sample \in 1..Len(quotes)
                  /\ 0 < f.row.state /\ f.row.state = f.newest /\ f.newest < f.sample
                  /\ Crossed(f.row.type, quotes[f.newest], quotes[f.sample])
    <2>1. PICK e \in Fired : f = Firing(e, t, now)
        BY <1>4, <1>8
    <2>2. e \in W /\ Evaluate(watches[e], t).fires
        BY <2>1
    <2>3. f.row = watches[e] /\ f.newest = newest[e] /\ f.sample = t /\ f.now = now
        BY <2>1 DEF Firing
    <2>4. watches[e].type \in CrossTypes => watches[e].state = newest[e]
        BY <1>2, <1>5, <2>2 DEF CrossingsAreExact
    <2>5. watches[e].type \in CrossTypes =>
             /\ watches[e].state > 0 /\ t > watches[e].state
             /\ Crossed(watches[e].type, quotes[watches[e].state], quotes[t])
        BY <1>3, <1>5, <1>6, <2>2, Evaluated
    <2> QED BY <1>1, <1>3, <1>5, <2>2, <2>3, <2>4, <2>5
<1>9. SampleTypes' /\ FreshIds'
    <2>1. newest' \in [Watches -> Nat] /\ watches' \in [Watches -> Rows]
        BY <1>4, <1>7
    <2>2. \A e \in Watches : e \notin created => e \notin W
        <3>1. NoRow.type \notin PriceTypes
            BY DEF NoRow
        <3> QED BY <1>1, <1>5, <3>1 DEF FreshIds
    <2> QED BY <1>1, <1>4, <2>1, <2>2 DEF FreshIds, Resting
<1>10. RoundsLookBack' /\ ObservationsAreTrue'
    <2>1. Observed' \subseteq Observed
        BY <1>7 DEF Observed, NoRow
    <2> QED BY <1>1, <1>4, <2>1 DEF RoundsLookBack, ObservationsAreTrue, Resting
<1>11. EvidenceIsOld' /\ EventsFollowTheSamples'
    <2>1. quotes' = quotes /\ position' = position
        BY <1>4
    <2>2. CrossingsAreExact'
        BY <1>2, <1>7, <1>8, <2>1 DEF CrossingsAreExact, Crossed
    <2>3. ClosesAreReal' /\ FiringsAreInTime' /\ EvidenceIsOld'
        BY <1>1, <1>2, <1>8, <2>1 DEF ClosesAreReal, FiringsAreInTime, EvidenceIsOld
    <2> QED BY <2>2, <2>3 DEF EventsFollowTheSamples
<1> QED BY <1>9, <1>10, <1>11 DEF SamplesInv

\* MatchPositionCloseTx
LEMMA ClaimPositionsStep ==
    ASSUME SamplesInv, ClaimPositions
    PROVE  SamplesInv'
<1> DEFINE now == positionRound.now
           W == Watched({"position_close"}, now)
           Fired == {e \in W : ClosedNow(e)}
<1>1. SampleTypes /\ FreshIds /\ RoundsLookBack /\ ObservationsAreTrue /\ EvidenceIsOld
    BY DEF SamplesInv
<1>2. CrossingsAreExact /\ ClosesAreReal /\ FiringsAreInTime
    BY DEF SamplesInv, EventsFollowTheSamples
<1>3. positionRound.pc = "claim" /\ now \in Nat
    BY <1>1 DEF ClaimPositions
<1>4. /\ watches' = [e \in Watches |->
             IF e \in Fired THEN NoRow
             ELSE IF e \in W /\ positionRound.sample = 1 THEN [watches[e] EXCEPT !.state = 1] ELSE watches[e]]
      /\ firings' = firings \union {Firing(e, 0, now) : e \in Fired}
      /\ positionRound' = Resting
      /\ UNCHANGED <<quotes, position, created, lastSample, priceRound, newest>>
    BY DEF ClaimPositions
<1>5. \A e \in W : e \in Watches /\ watches[e].type = "position_close" /\ watches[e].expires > now
    BY DEF Watched
<1> HIDE DEF now, W
<1>6. ASSUME NEW e \in Watches
      PROVE  /\ watches'[e] \in Rows
             /\ watches'[e] \in {NoRow, watches[e]}
                \/ (watches'[e].type = "position_close" /\ watches[e] # NoRow /\ positionRound.sample = 1)
    <2>1. CASE e \in Fired
        BY <1>4, <2>1 DEF NoRow
    <2>2. CASE e \notin Fired /\ e \in W /\ positionRound.sample = 1
        <3>1. watches'[e] = [watches[e] EXCEPT !.state = 1]
            BY <1>4, <2>2
        <3>2. watches[e] \in Rows /\ watches[e].type = "position_close"
            BY <1>1, <1>5, <2>2
        <3>3. watches[e] # NoRow
            BY <3>2 DEF NoRow
        <3> QED BY <2>2, <3>1, <3>2, <3>3
    <2>3. CASE e \notin Fired /\ ~(e \in W /\ positionRound.sample = 1)
        BY <1>1, <1>4, <2>3
    <2> QED BY <2>1, <2>2, <2>3
<1>7. ASSUME NEW f \in firings', f \notin firings
      PROVE  /\ f.row.type = "position_close" /\ position = "closed"
             /\ f.sample <= f.now /\ f.now < f.row.expires
    <2>1. PICK e \in Fired : f = Firing(e, 0, now)
        BY <1>4, <1>7
    <2>2. f.row = watches[e] /\ f.sample = 0 /\ f.now = now
        BY <2>1 DEF Firing
    <2>3. e \in Observed /\ positionRound.sample = 0
        BY <1>5, <2>1 DEF Observed, ClosedNow
    <2> QED BY <1>1, <1>3, <1>5, <2>1, <2>2, <2>3 DEF ObservationsAreTrue
<1>8. SampleTypes' /\ FreshIds' /\ RoundsLookBack'
    <2>1. watches' \in [Watches -> Rows]
        BY <1>4, <1>6
    <2>2. Resting \in Rounds
        BY DEF Resting
    <2> QED BY <1>1, <1>4, <1>6, <2>1, <2>2 DEF FreshIds, RoundsLookBack
<1>9. ObservationsAreTrue'
    <2>1. position = "none" => Observed' = {}
        <3> SUFFICES ASSUME position = "none", NEW e \in Watches
                     PROVE  ~(watches'[e].type = "position_close" /\ watches'[e].state = 1)
            BY DEF Observed
        <3>1. positionRound.sample = 0 /\ Observed = {}
            BY <1>1, <1>3 DEF ObservationsAreTrue
        <3>2. watches'[e] = NoRow \/ watches'[e] = watches[e]
            BY <1>6, <3>1
        <3> QED BY <3>1, <3>2 DEF Observed, NoRow
    <2> QED BY <1>4, <2>1 DEF ObservationsAreTrue, Resting
<1>10. EvidenceIsOld' /\ EventsFollowTheSamples'
    <2>1. quotes' = quotes /\ position' = position /\ newest' = newest
        BY <1>4
    <2>2. CrossingsAreExact'
        BY <1>2, <1>6, <1>7, <2>1 DEF CrossingsAreExact, Crossed, NoRow
    <2>3. ClosesAreReal' /\ FiringsAreInTime' /\ EvidenceIsOld'
        BY <1>1, <1>2, <1>7, <2>1 DEF ClosesAreReal, FiringsAreInTime, EvidenceIsOld
    <2> QED BY <2>2, <2>3 DEF EventsFollowTheSamples
<1> QED BY <1>8, <1>9, <1>10 DEF SamplesInv

\* Every step keeps the invariant.
LEMMA SamplesStep ==
    ASSUME SamplesInv, [SamplesNext]_sampleVars
    PROVE  SamplesInv'
<1>n. Len(quotes) \in Nat
    BY DEF SamplesInv
<1> USE <1>n DEF SamplesInv, FreshIds, RoundsLookBack, ObservationsAreTrue, EvidenceIsOld, Observed
<1>1. ASSUME NEW price \in 0..2, Quote(price) PROVE SamplesInv'
    <2>1. /\ quotes' \in Seq(0..2) /\ Len(quotes') = Len(quotes) + 1
          /\ \A t \in 1..Len(quotes) : quotes'[t] = quotes[t]
        BY <1>1 DEF Quote
    <2>2. UNCHANGED <<position, watches, created, lastSample, priceRound, positionRound, firings, newest>>
        BY <1>1 DEF Quote
    <2>3. ASSUME NEW f \in firings, f.row.type \in CrossTypes
          PROVE  quotes'[f.newest] = quotes[f.newest] /\ quotes'[f.sample] = quotes[f.sample]
        <3>1. f.newest \in 1..Len(quotes) /\ f.sample \in 1..Len(quotes)
            <4>1. f.newest \in Nat /\ f.sample \in 1..Len(quotes)
                BY <2>3
            <4>2. 0 < f.newest /\ f.newest < f.sample
                BY <2>3 DEF EventsFollowTheSamples, CrossingsAreExact
            <4> QED BY <4>1, <4>2
        <3> QED BY <2>1, <3>1
    <2>4. CrossingsAreExact'
        BY <2>2, <2>3 DEF EventsFollowTheSamples, CrossingsAreExact, Crossed
    <2>5. EventsFollowTheSamples'
        BY <2>2, <2>4 DEF EventsFollowTheSamples, ClosesAreReal, FiringsAreInTime
    <2> QED BY <2>1, <2>2, <2>5
<1>2. CASE MovePosition
    BY <1>2, SamplesQuiet DEF MovePosition
<1>3. ASSUME NEW e \in Watches, NEW type \in EventTypes, NEW x \in 1..MaxTime, CreateWatch(e, type, x)
      PROVE SamplesInv'
    <2>1. EventsFollowTheSamples'
        BY <1>3 DEF CreateWatch, EventsFollowTheSamples, CrossingsAreExact, ClosesAreReal, FiringsAreInTime, Crossed
    <2> QED BY <1>3, <2>1 DEF CreateWatch, NoRow
<1>4. ASSUME NEW e \in Watches, RemoveWatch(e) PROVE SamplesInv'
    <2>1. EventsFollowTheSamples'
        BY <1>4 DEF RemoveWatch, NoRow, EventsFollowTheSamples, CrossingsAreExact, ClosesAreReal, FiringsAreInTime, Crossed
    <2> QED BY <1>4, <2>1 DEF RemoveWatch, NoRow
<1>5. CASE WatchPrices
    BY <1>5, SamplesQuiet DEF WatchPrices
<1>6. ASSUME NEW t \in 1..Len(quotes), SamplePrice(t) PROVE SamplesInv'
    <2>1. \/ priceRound' = [priceRound EXCEPT !.pc = "clock", !.sample = t]
          \/ priceRound' = Resting
        BY <1>6 DEF SamplePrice
    <2>2. priceRound' \in Rounds /\ (priceRound'.pc = "idle" \/ (priceRound'.pc = "clock" /\ priceRound'.sample = t))
        <3>1. t \in Nat /\ Resting \in Rounds /\ Resting.pc = "idle"
            BY DEF Resting
        <3>2. CASE priceRound' = [priceRound EXCEPT !.pc = "clock", !.sample = t]
            BY <3>1, <3>2
        <3> QED BY <2>1, <3>1, <3>2
    <2>3. UNCHANGED <<quotes, position, watches, created, positionRound, firings, newest>>
        BY <1>6 DEF SamplePrice
    <2> QED BY <2>2, <2>3, SamplesQuiet
<1>7. CASE SampleFails
    BY <1>7, SamplesQuiet DEF SampleFails, Resting
<1>8. CASE ReadClock
    <2>1. /\ priceRound.pc = "clock"
          /\ priceRound' = [priceRound EXCEPT !.pc = "claim", !.now = Len(quotes)]
          /\ UNCHANGED <<quotes, position, watches, created, positionRound, firings, newest>>
        BY <1>8 DEF ReadClock
    <2>2. /\ priceRound' \in Rounds /\ priceRound'.pc = "claim"
          /\ priceRound'.sample = priceRound.sample /\ priceRound'.now = Len(quotes)
        BY <2>1
    <2> QED BY <2>1, <2>2, SamplesQuiet
<1>9. CASE ClaimPrices
    BY <1>9, ClaimPricesStep
<1>10. CASE WatchPositions
    BY <1>10, SamplesQuiet DEF WatchPositions
<1>11. CASE SamplePositions
    BY <1>11, SamplesQuiet DEF SamplePositions, Resting
<1>12. CASE ReadPositionClock
    BY <1>12, SamplesQuiet DEF ReadPositionClock
<1>13. CASE ClaimPositions
    BY <1>13, ClaimPositionsStep
<1>14. CASE EventsRestart
    BY <1>14, SamplesQuiet DEF EventsRestart, Resting
<1>15. CASE UNCHANGED sampleVars
    BY <1>15, SamplesQuiet DEF sampleVars
<1> QED
    BY <1>1, <1>2, <1>3, <1>4, <1>5, <1>6, <1>7, <1>8, <1>9, <1>10, <1>11, <1>12, <1>13, <1>14, <1>15
       DEF SamplesNext

\* PriceEventTask, PositionEventTask and their claims: whatever answers come
\* late, whatever a restart forgets and whenever Events come and go, an Event
\* fires on a crossing from the newest sample it has had to a newer one, on a
\* close that happened, and before it expires.
THEOREM EventsFireOnEvidence == SamplesSpec => []EventsFollowTheSamples
<1>1. SamplesInit => SamplesInv
    <2> SUFFICES ASSUME SamplesInit PROVE SamplesInv
        OBVIOUS
    <2>1. SampleTypes /\ FreshIds /\ RoundsLookBack
        BY DEF SamplesInit, NoRow, Resting, FreshIds, RoundsLookBack
    <2>2. ObservationsAreTrue /\ EvidenceIsOld
        BY DEF SamplesInit, NoRow, Resting, ObservationsAreTrue, Observed, EvidenceIsOld
    <2>3. EventsFollowTheSamples
        BY DEF SamplesInit, NoRow, EventsFollowTheSamples, CrossingsAreExact, ClosesAreReal, FiringsAreInTime
    <2> QED BY <2>1, <2>2, <2>3 DEF SamplesInv
<1>2. SamplesInv => EventsFollowTheSamples
    BY DEF SamplesInv
<1> QED BY <1>1, <1>2, SamplesStep, PTL DEF SamplesSpec

-----------------------------------------------------------------------------
(* ChatWake *)

Pcs == {"off", "brief", "work", "fetched", "marked"}

\* What has been read was committed: it is no longer in an open transaction.
Past(S) == S \subseteq 1..posted /\ S \intersect opened = {}

ChatTypes ==
    /\ posted \in 0..MaxMessages /\ opened \subseteq 1..posted
    /\ Past(visible) /\ Past(poll) /\ Past(run.page)
    /\ run \in [pc : Pcs, n : Nat, start : Nat, previous : Nat, chatWake : BOOLEAN, page : SUBSET Nat]
    /\ run.start <= posted
    /\ cursor \in [mention : Nat, wake : Nat]
    /\ told \in [Messages -> Nat]
    /\ again \in [woke : SUBSET Nat, twice : SUBSET Nat]

\* A run was told of m, and m is still there.
StillTold(m) == m \in Messages /\ told[m] > 0 /\ m \in visible

ToldArePast == \A m \in Messages : told[m] > 0 => m <= posted /\ m \notin opened

\* The tags that woke the session are not younger than the latest run.
WokenAreOld == \A m \in again.woke : m <= run.start

\* The delivered cursor is at or after everything that was told and is there,
\* and an inbox on its way will not move it back.
CursorCoversTheTold ==
    /\ \A m \in Messages : StillTold(m) => m <= cursor.mention
    /\ run.pc = "fetched" => /\ run.page # {}
                             /\ \A m \in Messages : StillTold(m) => \E x \in run.page : m <= x
    /\ run.pc = "marked" => \A x \in run.page : x <= cursor.mention

ChatInv == ChatTypes /\ ToldArePast /\ WokenAreOld /\ CursorCoversTheTold /\ ToldTagsWakeOnce

\* The latest message of some is one of them.
LEMMA Latest ==
    ASSUME NEW n \in Nat, NEW S \in SUBSET (1..n), S # {}
    PROVE  Max(S) \in S /\ \A m \in S : m <= Max(S)
<1> DEFINE T == {n - m : m \in S}
<1>1. T \subseteq Nat /\ T # {}
    <2>1. PICK m \in S : TRUE
        OBVIOUS
    <2>2. n - m \in T
        OBVIOUS
    <2> QED BY <2>2
<1> DEFINE R == OpToRel(<, Nat)
<1>2. IsWellFoundedOn(R, Nat)
    BY NatLessThanWellFounded
<1>3. PICK x \in T : \A y \in T : <<y, x>> \notin R
    BY <1>1, <1>2, WFMin, Zenon
<1>4. \A y \in T : ~ (y < x)
    BY <1>1, <1>3 DEF OpToRel
<1>5. PICK k \in S : x = n - k
    OBVIOUS
<1>6. \A m \in S : k >= m
    <2> SUFFICES ASSUME NEW m \in S PROVE k >= m
        OBVIOUS
    <2>1. n - m \in T
        OBVIOUS
    <2>2. ~ (n - m < n - k)
        BY <1>4, <1>5, <2>1
    <2> QED BY <2>2
<1>7. \E z \in S : \A y \in S : z >= y
    BY <1>6
<1> HIDE DEF T
<1>8. Max(S) \in S /\ \A y \in S : Max(S) >= y
    BY <1>7 DEF Max
<1> QED BY <1>8

\* The board: rows become visible from open transactions and never return.
LEMMA RowsGoForward ==
    ASSUME ChatTypes, RowStep
    PROVE  /\ posted' \in 0..MaxMessages /\ posted <= posted'
           /\ opened' \subseteq 1..posted'
           /\ \A m \in 1..posted : m \in opened' => m \in opened
           /\ visible' \subseteq 1..posted' /\ visible' \intersect opened' = {}
           /\ \A m \in visible' : m \in visible \/ m \in opened
<1> USE BoardAssumption DEF ChatTypes, Past
<1>1. CASE \E user \in BOOLEAN : InsertMessage(user)
    BY <1>1 DEF InsertMessage, Messages
<1>2. CASE \E m \in Messages : CommitMessage(m)
    BY <1>2 DEF CommitMessage
<1>3. CASE \E m \in Messages : DeleteMessage(m)
    BY <1>3 DEF DeleteMessage
<1>4. CASE ClearMessages
    BY <1>4 DEF ClearMessages
<1> QED BY <1>1, <1>2, <1>3, <1>4 DEF RowStep

LEMMA BoardKeepsChat ==
    ASSUME ChatInv, RowStep, UNCHANGED chatVars
    PROVE  ChatInv'
<1>1. UNCHANGED <<cursor, run, poll, told, again>>
    BY DEF chatVars
<1>2. ChatTypes /\ ToldArePast /\ WokenAreOld /\ CursorCoversTheTold /\ ToldTagsWakeOnce
    BY DEF ChatInv
<1>3. ChatTypes'
    BY <1>1, <1>2, RowsGoForward, BoardAssumption DEF ChatTypes, Past
<1>4. ToldArePast'
    BY <1>1, <1>2, RowsGoForward, BoardAssumption DEF ChatTypes, ToldArePast, Messages
<1>5. \A m \in Messages : StillTold(m)' => StillTold(m)
    BY <1>1, <1>2, RowsGoForward DEF ToldArePast, StillTold
<1>6. CursorCoversTheTold'
    BY <1>1, <1>2, <1>5 DEF CursorCoversTheTold
<1>7. WokenAreOld' /\ ToldTagsWakeOnce'
    BY <1>1, <1>2 DEF WokenAreOld, ToldTagsWakeOnce
<1> QED BY <1>3, <1>4, <1>6, <1>7 DEF ChatInv

\* fetchAfter returns rows that are there; a page of the inbox reaches at least
\* as far as everything that was told and is there.
LEMMA PagesReachTheTold ==
    ASSUME ChatInv, NEW all \in BOOLEAN, NEW c
    PROVE  /\ FetchAfter(c, all) \subseteq visible
           /\ c = cursor.mention /\ FetchAfter(c, all) # {}
              => \A m \in Messages : StillTold(m) => \E x \in FetchAfter(c, all) : m <= x
<1>1. FetchAfter(c, all) \subseteq visible
    BY DEF FetchAfter, Oldest, Newest
<1>2. /\ posted \in Nat /\ visible \subseteq 1..posted /\ cursor.mention \in Nat
      /\ \A m \in Messages : StillTold(m) => m <= cursor.mention
    BY BoardAssumption DEF ChatInv, ChatTypes, Past, CursorCoversTheTold
<1> SUFFICES ASSUME c = cursor.mention, FetchAfter(c, all) # {}, NEW m \in Messages, StillTold(m)
             PROVE  \E x \in FetchAfter(c, all) : m <= x
    BY <1>1
<1>3. m \in visible /\ m \in Nat
    BY <1>2 DEF StillTold
<1>4. CASE c \in visible
    <2>1. PICK x : x \in FetchAfter(c, all)
        OBVIOUS
    <2>2. x \in visible /\ x > c
        BY <1>4, <2>1 DEF FetchAfter, Oldest
    <2>3. x \in Nat /\ m <= x
        BY <1>2, <1>3, <2>2
    <2> QED BY <2>1, <2>3
<1>5. CASE c \notin visible /\ all
    BY <1>3, <1>5 DEF FetchAfter
<1>6. CASE c \notin visible /\ ~all
    <2>1. PICK top \in visible : \A k \in visible : k <= top
        BY <1>2, <1>3, Latest
    <2>2. {k \in visible : k >= top} = {top}
        <3>1. \A k \in visible : k >= top => k = top
            BY <1>2, <2>1
        <3>2. top >= top
            BY <1>2
        <3> QED BY <2>1, <3>1, <3>2
    <2>3. Cardinality({k \in visible : k >= top}) <= PageSize
        BY <2>2, FS_Singleton, ChatAssumption
    <2>4. top \in FetchAfter(c, all)
        BY <1>6, <2>1, <2>3 DEF FetchAfter, Newest
    <2> QED BY <1>3, <2>1, <2>4
<1> QED BY <1>4, <1>5, <1>6

\* A step that reads nothing, tells nothing and leaves the delivered cursor:
\* only a run that starts or stops, or a cursor of the poll.
LEMMA ChatQuiet ==
    ASSUME ChatInv, UNCHANGED boardVars, UNCHANGED told, UNCHANGED again,
           cursor' \in [mention : Nat, wake : Nat], cursor'.mention = cursor.mention,
           run' \in [pc : Pcs, n : Nat, start : Nat, previous : Nat, chatWake : BOOLEAN, page : SUBSET Nat],
           run.start <= run'.start, run'.start <= posted,
           run'.page = {} \/ run'.page = run.page,
           run'.pc \in {"fetched", "marked"} => run'.pc = run.pc /\ run'.page = run.page,
           Past(poll')
    PROVE  ChatInv'
<1>1. ChatTypes /\ ToldArePast /\ WokenAreOld /\ CursorCoversTheTold /\ ToldTagsWakeOnce
    BY DEF ChatInv
<1>2. UNCHANGED <<posted, byUser, opened, visible>>
    BY DEF boardVars
<1>3. ChatTypes'
    BY <1>1, <1>2 DEF ChatTypes, Past
<1>4. ToldArePast' /\ ToldTagsWakeOnce'
    BY <1>1, <1>2 DEF ToldArePast, ToldTagsWakeOnce
<1>5. WokenAreOld'
    <2>1. \A m \in again.woke : m \in Nat /\ m <= run.start
        BY <1>1 DEF ChatTypes, WokenAreOld
    <2>2. run.start \in Nat /\ run'.start \in Nat
        BY <1>1 DEF ChatTypes
    <2> QED BY <2>1, <2>2 DEF WokenAreOld
<1>6. \A m \in Messages : StillTold(m)' <=> StillTold(m)
    BY <1>2 DEF StillTold
<1>7. CursorCoversTheTold'
    BY <1>1, <1>6 DEF CursorCoversTheTold
<1> QED BY <1>3, <1>4, <1>5, <1>7 DEF ChatInv

\* inbox reads a page.
LEMMA FetchesStep ==
    ASSUME ChatInv, InboxFetches, UNCHANGED boardVars
    PROVE  ChatInv'
<1>1. ChatTypes /\ ToldArePast /\ WokenAreOld /\ CursorCoversTheTold /\ ToldTagsWakeOnce
    BY DEF ChatInv
<1>2. UNCHANGED <<posted, byUser, opened, visible, cursor, poll, told, again>>
    BY DEF boardVars, InboxFetches
<1>3. PICK got : /\ got = FetchAfter(cursor.mention, run.pc = "brief" /\ run.chatWake)
                 /\ run' = [run EXCEPT !.page = got, !.pc = IF got = {} THEN "work" ELSE "fetched"]
    BY Zenon DEF InboxFetches
<1>4. /\ got \subseteq visible
      /\ got # {} => \A m \in Messages : StillTold(m) => \E x \in got : m <= x
    <2>1. (run.pc = "brief" /\ run.chatWake) \in BOOLEAN
        OBVIOUS
    <2> QED BY <1>3, <2>1, PagesReachTheTold
<1>5. run \in [pc : Pcs, n : Nat, start : Nat, previous : Nat, chatWake : BOOLEAN, page : SUBSET Nat]
    BY <1>1 DEF ChatTypes
<1>6. got \subseteq 1..posted /\ got \in SUBSET Nat /\ got \intersect opened = {}
    BY <1>1, <1>4, BoardAssumption DEF ChatTypes, Past
<1>7. /\ run' \in [pc : Pcs, n : Nat, start : Nat, previous : Nat, chatWake : BOOLEAN, page : SUBSET Nat]
      /\ run'.start = run.start /\ run'.page = got
      /\ run'.pc = IF got = {} THEN "work" ELSE "fetched"
    BY <1>3, <1>5, <1>6 DEF Pcs
<1>8. ChatTypes'
    BY <1>1, <1>2, <1>6, <1>7 DEF ChatTypes, Past
<1>9. ToldArePast' /\ WokenAreOld' /\ ToldTagsWakeOnce'
    BY <1>1, <1>2, <1>7 DEF ToldArePast, WokenAreOld, ToldTagsWakeOnce
<1>10. \A m \in Messages : StillTold(m)' <=> StillTold(m)
    BY <1>2 DEF StillTold
<1>11. CursorCoversTheTold'
    BY <1>1, <1>2, <1>4, <1>7, <1>10 DEF CursorCoversTheTold
<1> QED BY <1>8, <1>9, <1>11 DEF ChatInv

\* inbox saves the cursor at the latest message of the page.
LEMMA MarksStep ==
    ASSUME ChatInv, InboxMarks, UNCHANGED boardVars
    PROVE  ChatInv'
<1>1. ChatTypes /\ ToldArePast /\ WokenAreOld /\ CursorCoversTheTold /\ ToldTagsWakeOnce
    BY DEF ChatInv
<1>2. UNCHANGED <<posted, byUser, opened, visible, poll, told, again>>
    BY DEF boardVars, InboxMarks
<1>3. /\ run.pc = "fetched" /\ run' = [run EXCEPT !.pc = "marked"]
      /\ cursor' = [cursor EXCEPT !.mention = Max(run.page)]
    BY DEF InboxMarks
<1>4. /\ run \in [pc : Pcs, n : Nat, start : Nat, previous : Nat, chatWake : BOOLEAN, page : SUBSET Nat]
      /\ cursor \in [mention : Nat, wake : Nat] /\ posted \in Nat /\ run.page \subseteq 1..posted
    BY <1>1, BoardAssumption DEF ChatTypes, Past
<1>5. run.page # {} /\ \A m \in Messages : StillTold(m) => \E x \in run.page : m <= x
    BY <1>1, <1>3 DEF CursorCoversTheTold
<1>6. Max(run.page) \in run.page /\ \A m \in run.page : m <= Max(run.page)
    BY <1>4, <1>5, Latest
<1>7. PICK top \in run.page : cursor' = [cursor EXCEPT !.mention = top] /\ \A m \in run.page : m <= top
    BY <1>3, <1>6
<1>8. cursor' \in [mention : Nat, wake : Nat] /\ cursor'.mention = top
    BY <1>4, <1>7
<1>9. /\ run' \in [pc : Pcs, n : Nat, start : Nat, previous : Nat, chatWake : BOOLEAN, page : SUBSET Nat]
      /\ run'.start = run.start /\ run'.page = run.page /\ run'.pc = "marked"
    BY <1>3, <1>4 DEF Pcs
<1>10. ChatTypes'
    BY <1>1, <1>2, <1>8, <1>9 DEF ChatTypes, Past
<1>11. ToldArePast' /\ WokenAreOld' /\ ToldTagsWakeOnce'
    BY <1>1, <1>2, <1>9 DEF ToldArePast, WokenAreOld, ToldTagsWakeOnce
<1>12. \A m \in Messages : StillTold(m) => m <= top
    <2> SUFFICES ASSUME NEW m \in Messages, StillTold(m) PROVE m <= top
        OBVIOUS
    <2>1. PICK x \in run.page : m <= x
        BY <1>5
    <2>2. x <= top /\ x \in Nat /\ top \in Nat /\ m \in Nat
        BY <1>4, <1>7, BoardAssumption DEF Messages
    <2> QED BY <2>1, <2>2
<1>13. \A m \in Messages : StillTold(m)' <=> StillTold(m)
    BY <1>2 DEF StillTold
<1>14. CursorCoversTheTold'
    BY <1>7, <1>8, <1>9, <1>12, <1>13 DEF CursorCoversTheTold
<1> QED BY <1>10, <1>11, <1>14 DEF ChatInv

\* The message with what the inbox read is saved.
LEMMA TellsStep ==
    ASSUME ChatInv, InboxTells, UNCHANGED boardVars
    PROVE  ChatInv'
<1>1. ChatTypes /\ ToldArePast /\ WokenAreOld /\ CursorCoversTheTold /\ ToldTagsWakeOnce
    BY DEF ChatInv
<1>2. UNCHANGED <<posted, byUser, opened, visible, poll, cursor, again>>
    BY DEF boardVars, InboxTells
<1>3. /\ run.pc = "marked" /\ run' = [run EXCEPT !.pc = "work", !.page = {}]
      /\ told' = [m \in Messages |-> IF m \in run.page /\ m > run.previous THEN told[m] + 1 ELSE told[m]]
    BY DEF InboxTells
<1>4. /\ run \in [pc : Pcs, n : Nat, start : Nat, previous : Nat, chatWake : BOOLEAN, page : SUBSET Nat]
      /\ told \in [Messages -> Nat] /\ posted \in Nat
      /\ run.page \subseteq 1..posted /\ run.page \intersect opened = {}
    BY <1>1, BoardAssumption DEF ChatTypes, Past
<1>5. /\ run' \in [pc : Pcs, n : Nat, start : Nat, previous : Nat, chatWake : BOOLEAN, page : SUBSET Nat]
      /\ run'.start = run.start /\ run'.page = {} /\ run'.pc = "work"
    BY <1>3, <1>4 DEF Pcs
<1>6. told' \in [Messages -> Nat] /\ \A m \in Messages : told'[m] > 0 => told[m] > 0 \/ m \in run.page
    BY <1>3, <1>4
<1>7. ChatTypes'
    BY <1>1, <1>2, <1>5, <1>6 DEF ChatTypes, Past
<1>8. ToldArePast'
    BY <1>1, <1>2, <1>4, <1>6 DEF ToldArePast
<1>9. WokenAreOld' /\ ToldTagsWakeOnce'
    BY <1>1, <1>2, <1>5 DEF WokenAreOld, ToldTagsWakeOnce
<1>10. \A m \in Messages : StillTold(m)' => StillTold(m) \/ m \in run.page
    BY <1>2, <1>6 DEF StillTold
<1>11. CursorCoversTheTold'
    BY <1>1, <1>2, <1>3, <1>5, <1>10 DEF CursorCoversTheTold
<1> QED BY <1>7, <1>8, <1>9, <1>11 DEF ChatInv

\* claimChatWake starts a run: a tag among the new ones that woke the session
\* before is after the delivered cursor, so no run was told of it, or gone.
LEMMA WakesStep ==
    ASSUME ChatInv, UNCHANGED boardVars, UNCHANGED told, run' = Started(TRUE),
           cursor' \in [mention : Nat, wake : Nat], cursor'.mention = cursor.mention, poll' = {},
           again' = [woke |-> again.woke \union NewTags,
                     twice |-> again.twice \union {m \in NewTags \intersect again.woke \intersect visible : told[m] > 0}]
    PROVE  ChatInv'
<1>1. ChatTypes /\ ToldArePast /\ WokenAreOld /\ CursorCoversTheTold /\ ToldTagsWakeOnce
    BY DEF ChatInv
<1>2. UNCHANGED <<posted, byUser, opened, visible>>
    BY DEF boardVars
<1>3. /\ run \in [pc : Pcs, n : Nat, start : Nat, previous : Nat, chatWake : BOOLEAN, page : SUBSET Nat]
      /\ again \in [woke : SUBSET Nat, twice : SUBSET Nat] /\ posted \in Nat /\ posted <= MaxMessages
      /\ poll \subseteq 1..posted /\ visible \subseteq 1..posted /\ run.start <= posted /\ cursor.mention \in Nat
    BY <1>1, BoardAssumption DEF ChatTypes, Past
<1>4. /\ run' \in [pc : Pcs, n : Nat, start : Nat, previous : Nat, chatWake : BOOLEAN, page : SUBSET Nat]
      /\ run'.start = posted /\ run'.page = {} /\ run'.pc = "brief"
    BY <1>3 DEF Started, Pcs
<1>5. \A m \in NewTags : m \in Nat /\ m <= posted
    BY <1>3 DEF NewTags
<1>6. \A m \in NewTags : m \in again.woke /\ m \in visible => ~(told[m] > 0)
    <2> SUFFICES ASSUME NEW m \in NewTags, m \in again.woke, m \in visible, told[m] > 0
                 PROVE  FALSE
        OBVIOUS
    <2>1. m \in Nat /\ m \in Messages /\ m <= run.start
        BY <1>1, <1>3, BoardAssumption DEF WokenAreOld, Messages
    <2>2. m <= cursor.mention
        BY <1>1, <2>1 DEF CursorCoversTheTold, StillTold
    <2>3. m > cursor.mention \/ m > run.start
        BY DEF NewTags
    <2> QED BY <1>3, <2>1, <2>2, <2>3
<1>7. again'.woke = again.woke \union NewTags /\ again'.twice = {}
    BY <1>1, <1>6 DEF ToldTagsWakeOnce
<1>8. again' \in [woke : SUBSET Nat, twice : SUBSET Nat]
    <2>1. again.woke \union NewTags \in SUBSET Nat
        BY <1>3, <1>5
    <2>2. again' = [woke |-> again.woke \union NewTags, twice |-> {}]
        BY <1>7
    <2> QED BY <2>1, <2>2
<1>9. ChatTypes'
    <2>1. posted' \in 0..MaxMessages /\ (opened \subseteq 1..posted)' /\ Past(visible)'
        BY <1>1, <1>2 DEF ChatTypes, Past
    <2>2. Past(poll)' /\ Past(run.page)' /\ run'.start <= posted'
        <3>1. Past(poll)' /\ Past(run.page)'
            BY <1>4, Zenon DEF Past
        <3>2. run'.start <= posted'
            <4>1. posted <= posted
                BY <1>3
            <4> QED BY <1>2, <1>4, <4>1, Zenon
        <3> QED BY <3>1, <3>2
    <2>3. told' \in [Messages -> Nat]
        BY <1>1 DEF ChatTypes
    <2> QED BY <1>4, <1>8, <2>1, <2>2, <2>3 DEF ChatTypes
<1>10. ToldArePast'
    BY <1>1, <1>2 DEF ToldArePast
<1>11. WokenAreOld'
    <2>1. \A m \in again.woke : m \in Nat /\ m <= run.start
        BY <1>1, <1>3 DEF WokenAreOld
    <2>2. \A m \in again'.woke : m <= posted
        BY <1>3, <1>5, <1>7, <2>1
    <2> QED BY <1>4, <2>2 DEF WokenAreOld
<1>12. \A m \in Messages : StillTold(m)' <=> StillTold(m)
    BY <1>2 DEF StillTold
<1>13. CursorCoversTheTold'
    BY <1>1, <1>4, <1>12 DEF CursorCoversTheTold
<1> QED BY <1>7, <1>9, <1>10, <1>11, <1>13 DEF ChatInv, ToldTagsWakeOnce

LEMMA ChatKeepsChat ==
    ASSUME ChatInv, ChatStep, UNCHANGED boardVars
    PROVE  ChatInv'
<1>1. /\ run \in [pc : Pcs, n : Nat, start : Nat, previous : Nat, chatWake : BOOLEAN, page : SUBSET Nat]
      /\ cursor \in [mention : Nat, wake : Nat] /\ run.start <= posted
      /\ posted \in Nat /\ Past(visible) /\ Past(poll) /\ Past({})
    BY BoardAssumption DEF ChatInv, ChatTypes, Past
<1>2. run.start <= run.start
    BY <1>1
<1>3. CASE RunStarts
    <2>1. /\ run' \in [pc : Pcs, n : Nat, start : Nat, previous : Nat, chatWake : BOOLEAN, page : SUBSET Nat]
          /\ run'.start = posted /\ run'.page = {} /\ run'.pc = "brief"
        BY <1>1, <1>3 DEF RunStarts, Started, Pcs
    <2>2. UNCHANGED <<cursor, poll, told, again>>
        BY <1>3 DEF RunStarts
    <2>3. run'.start <= posted
        BY <1>1, <2>1
    <2> QED BY <1>1, <2>1, <2>2, <2>3, ChatQuiet
<1>4. CASE RunStops
    <2>1. /\ run' \in [pc : Pcs, n : Nat, start : Nat, previous : Nat, chatWake : BOOLEAN, page : SUBSET Nat]
          /\ run'.start = run.start /\ run'.page = {} /\ run'.pc = "off"
        BY <1>1, <1>4 DEF RunStops, Pcs
    <2>2. UNCHANGED <<cursor, poll, told, again>>
        BY <1>4 DEF RunStops
    <2> QED BY <1>1, <1>2, <2>1, <2>2, ChatQuiet
<1>5. CASE InboxFetches
    BY <1>5, FetchesStep
<1>6. CASE InboxFails
    <2>1. /\ run' \in [pc : Pcs, n : Nat, start : Nat, previous : Nat, chatWake : BOOLEAN, page : SUBSET Nat]
          /\ run'.start = run.start /\ run'.page = run.page /\ run'.pc = "work"
        BY <1>1, <1>6 DEF InboxFails, Pcs
    <2>2. UNCHANGED <<cursor, poll, told, again>>
        BY <1>6 DEF InboxFails
    <2> QED BY <1>1, <1>2, <2>1, <2>2, ChatQuiet
<1>7. CASE InboxMarks
    BY <1>7, MarksStep
<1>8. CASE InboxTells
    BY <1>8, TellsStep
<1>9. CASE PollReads
    <2>1. UNCHANGED <<cursor, run, told, again>>
        BY <1>9 DEF PollReads
    <2>2. PICK c : poll' = FetchAfter(c, TRUE)
        BY <1>9 DEF PollReads
    <2>3. Past(poll')
        BY <1>1, <2>2, PagesReachTheTold DEF Past
    <2> QED BY <1>1, <1>2, <2>1, <2>3, ChatQuiet
<1>10. CASE ClaimBusy
    <2>1. UNCHANGED <<run, told, again>> /\ poll' = {}
        BY <1>10 DEF ClaimBusy
    <2>2. cursor' \in [mention : Nat, wake : Nat] /\ cursor'.mention = cursor.mention
        BY <1>1, <1>10 DEF ClaimBusy
    <2> QED BY <1>1, <1>2, <2>1, <2>2, ChatQuiet
<1>11. CASE ClaimIdle
    <2>1. poll # {} /\ UNCHANGED told /\ poll' = {}
        BY <1>11 DEF ClaimIdle
    <2>2. cursor' \in [mention : Nat, wake : Nat] /\ cursor'.mention = cursor.mention
        <3>1. cursor' = [cursor EXCEPT !.wake = Max(poll)]
            BY <1>11 DEF ClaimIdle
        <3>2. Max(poll) \in poll
            BY <1>1, <2>1, Latest DEF Past
        <3>3. PICK top \in Nat : cursor' = [cursor EXCEPT !.wake = top]
            BY <1>1, <3>1, <3>2 DEF Past
        <3> QED BY <1>1, <3>3
    <2>3. CASE NewTags = {} /\ UNCHANGED <<run, again>>
        BY <1>1, <1>2, <2>1, <2>2, <2>3, ChatQuiet
    <2>4. CASE /\ run' = Started(TRUE)
               /\ again' = [woke |-> again.woke \union NewTags,
                            twice |-> again.twice \union {m \in NewTags \intersect again.woke \intersect visible : told[m] > 0}]
        BY <2>1, <2>2, <2>4, WakesStep
    <2> QED BY <1>11, <2>3, <2>4 DEF ClaimIdle
<1>12. CASE ClaimNothing
    <2>1. UNCHANGED <<cursor, run, told, again>> /\ poll' = {}
        BY <1>12 DEF ClaimNothing
    <2> QED BY <1>1, <1>2, <2>1, ChatQuiet
<1> QED BY <1>3, <1>4, <1>5, <1>6, <1>7, <1>8, <1>9, <1>10, <1>11, <1>12 DEF ChatStep

\* claimChatWake and inbox: in whatever order polls, runs, posts and deletions
\* come, and however many messages fit a page, a tag that a run was told of and
\* that is still on the board never wakes the session again.
THEOREM TagsWakeOnce == ChatSpec => []ToldTagsWakeOnce
<1>1. ChatSpecInit => ChatInv
    <2> SUFFICES ASSUME ChatSpecInit PROVE ChatInv
        OBVIOUS
    <2>1. ChatTypes
        BY BoardAssumption DEF ChatSpecInit, BoardInit, ChatInit, NoneYet, ChatTypes, Past, Pcs
    <2>2. ToldArePast /\ WokenAreOld
        BY DEF ChatSpecInit, BoardInit, ChatInit, NoneYet, ToldArePast, WokenAreOld
    <2>3. CursorCoversTheTold /\ ToldTagsWakeOnce
        BY DEF ChatSpecInit, BoardInit, ChatInit, NoneYet, CursorCoversTheTold, StillTold, ToldTagsWakeOnce
    <2> QED BY <2>1, <2>2, <2>3 DEF ChatInv
<1>2. ChatInv /\ [ChatNext]_<<boardVars, chatVars>> => ChatInv'
    <2> SUFFICES ASSUME ChatInv, [ChatNext]_<<boardVars, chatVars>> PROVE ChatInv'
        OBVIOUS
    <2>1. CASE RowStep /\ UNCHANGED chatVars
        BY <2>1, BoardKeepsChat
    <2>2. CASE ChatStep /\ UNCHANGED boardVars
        BY <2>2, ChatKeepsChat
    <2>3. CASE UNCHANGED <<boardVars, chatVars>>
        <3>1. UNCHANGED <<posted, byUser, opened, visible, cursor, run, poll, told, again>>
            BY <2>3 DEF boardVars, chatVars
        <3> QED BY <3>1 DEF ChatInv, ChatTypes, Past, ToldArePast, WokenAreOld, CursorCoversTheTold,
                            StillTold, ToldTagsWakeOnce
    <2> QED BY <2>1, <2>2, <2>3 DEF ChatNext
<1>3. ChatInv => ToldTagsWakeOnce
    BY DEF ChatInv
<1> QED BY <1>1, <1>2, <1>3, PTL DEF ChatSpec

-----------------------------------------------------------------------------
(* RunHistory *)

\* What a run ends in and its rows of the log.
LogRows == [created : Runs, outcome : Runs \union {0}]
States == [last : Runs \union {0}, ended : SUBSET Runs, log : SUBSET LogRows]
Bodies == [runs : SUBSET Runs, log : SUBSET LogRows]
Staged == [shard : Shards, previous : Bodies]
Steps == {"none", "stage", "write", "commit", "finish", "restore"}
Transactions == [pc : Steps, db : States, targets : SUBSET Shards, staged : Seq(Staged), open : BOOLEAN]
Reads == [pc : {"idle", "index", "read", "alarm"}, run : Runs \union {1}]

HistoryTypes ==
    /\ db \in States /\ index \subseteq Shards /\ file \in [Shards -> Bodies]
    /\ tx \in Transactions /\ historyMu \in BOOLEAN
    /\ boot \in {"repair", "recover", "up", "fault", "down"}
    /\ repaired \subseteq Shards /\ readers \in [Readers -> Reads] /\ damaged \subseteq Shards

\* The shards that a running transaction has written.
IsStaged(st, s) == \E i \in DOMAIN st : st[i].shard = s

\* Shard s, as it was before the transaction, is what d says.
Mirrored(d, x, f, st, s) ==
    Projection(d, s).runs # {} =>
        /\ s \in x
        /\ \A i \in DOMAIN st : st[i].shard = s => st[i].previous = Projection(d, s)
        /\ ~IsStaged(st, s) => f[s] = Projection(d, s)

\* The shards a start has seen to.
Scope(b, done) == IF b \in {"up", "fault", "recover"} THEN Shards ELSE IF b = "repair" THEN done ELSE {}

\* A transaction that may still fail can put everything back; one that has
\* committed has written what it committed.
FilesInv ==
    /\ tx.pc # "finish" =>
         \A s \in Scope(boot, repaired) \ damaged : Mirrored(db, index, file, tx.staged, s)
    /\ tx.pc = "finish" =>
         \A s \in (Scope(boot, repaired) \union tx.targets) \ damaged : Mirrored(db, index, file, <<>>, s)

\* A transaction writes each of its shards once, with what it will commit, and
\* leaves every other shard as it is.
StagingInv ==
    /\ \A i \in DOMAIN tx.staged : tx.staged[i].shard \in tx.targets
    /\ \A i, j \in DOMAIN tx.staged : tx.staged[i].shard = tx.staged[j].shard => i = j
    /\ tx.pc \in {"none", "stage"} => tx.staged = <<>>
    /\ tx.pc \in {"write", "commit"} =>
         \A i \in DOMAIN tx.staged : file[tx.staged[i].shard] = Projection(tx.db, tx.staged[i].shard)
    /\ tx.pc = "commit" => \A s \in tx.targets : IsStaged(tx.staged, s)
    /\ tx.pc \in {"stage", "write", "commit"} =>
         /\ db.ended \subseteq tx.db.ended
         /\ \A s \in Shards \ tx.targets :
              Projection(tx.db, s).runs # {} => Projection(tx.db, s) = Projection(db, s)
    /\ tx.pc = "write" \/ tx.staged # <<>> => historyMu = TRUE

\* A reader reads a run that has ended.
ReadersInv ==
    \A r \in Readers :
        /\ readers[r].pc \in {"index", "read"} => readers[r].run \in db.ended
        /\ readers[r].pc = "alarm" => ShardOf(readers[r].run) \in damaged

HistoryInv == HistoryTypes /\ FilesInv /\ StagingInv /\ ReadersInv

-----------------------------------------------------------------------------
(* Shards *)

LEMMA ProjectionType ==
    ASSUME NEW d \in States, NEW s \in Shards
    PROVE  Projection(d, s) \in Bodies /\ Projection(d, s).runs = {r \in d.ended : ShardOf(r) = s}
BY DEF Projection, States, Bodies

LEMMA AbsentType == Absent \in Bodies
BY DEF Absent, Bodies

\* A run that has ended is in the body of its shard.
LEMMA EndedIsShown ==
    ASSUME NEW d \in States, NEW n \in d.ended
    PROVE  /\ n \in Runs /\ ShardOf(n) \in Shards
           /\ n \in Projection(d, ShardOf(n)).runs
<1>1. n \in Runs /\ ShardOf(n) \in Shards
    BY DEF States, Shards
<1> QED BY <1>1, ProjectionType

\* A transaction leaves a shard as it is when it ends none of its runs and logs
\* no row that names one.
LEMMA SameProjection ==
    ASSUME NEW d \in States, NEW e \in States, NEW R, NEW s \in Shards,
           d.ended \subseteq e.ended, e.ended \subseteq d.ended \union R,
           d.log \subseteq e.log, \A x \in e.log \ d.log : x.created \in R /\ (x.outcome \in R \/ x.outcome = 0),
           \A r \in R \cap Runs : ShardOf(r) # s
    PROVE  Projection(e, s) = Projection(d, s)
<1>1. d.ended \subseteq Runs /\ e.ended \subseteq Runs
    BY DEF States
<1>2. {r \in e.ended : ShardOf(r) = s} = {r \in d.ended : ShardOf(r) = s}
    BY <1>1
<1>3. 0 \notin Runs
    BY DEF Runs
<1> DEFINE ended == {r \in d.ended : ShardOf(r) = s}
<1>4. \A x \in e.log : x.created \in ended \/ x.outcome \in ended => x \in d.log
    BY <1>1, <1>3
<1>5. {x \in e.log : x.created \in ended \/ x.outcome \in ended} = {x \in d.log : x.created \in ended \/ x.outcome \in ended}
    BY <1>4
<1> QED BY <1>2, <1>5 DEF Projection

LEMMA NoTxType ==
    /\ NoTx \in Transactions
    /\ NoTx.pc = "none" /\ NoTx.staged = <<>> /\ NoTx.targets = {} /\ NoTx.open = FALSE
<1>1. NoTx.db \in States
    BY DEF NoTx, States
<1> QED BY <1>1 DEF NoTx, Transactions, Steps

-----------------------------------------------------------------------------
(* A transaction begins *)

LEMMA Begins ==
    ASSUME db \in States, NEW d \in States, NEW R,
           db.ended \subseteq d.ended, d.ended \subseteq db.ended \union R,
           db.log \subseteq d.log, \A x \in d.log \ db.log : x.created \in R /\ (x.outcome \in R \/ x.outcome = 0),
           Begin(d, R), db' = db, file' = file, historyMu' = historyMu
    PROVE  /\ tx' \in Transactions /\ tx'.staged = <<>> /\ tx'.pc = "stage"
           /\ StagingInv'
<1> DEFINE g == {s \in {ShardOf(r) : r \in R \cap Runs} : Projection(d, s).runs # {}}
<1>1. g \subseteq Shards
    BY DEF Shards
<1>2. \A s \in Shards \ g : Projection(d, s).runs # {} => Projection(d, s) = Projection(db, s)
    <2>1. SUFFICES ASSUME NEW s \in Shards \ g, Projection(d, s).runs # {}
                   PROVE  Projection(d, s) = Projection(db, s)
        OBVIOUS
    <2>2. \A r \in R \cap Runs : ShardOf(r) # s
        BY <2>1
    <2> QED BY <2>1, <2>2, SameProjection
<1>3. tx' = [NoTx EXCEPT !.pc = "stage", !.db = d, !.open = TRUE, !.targets = g]
    BY DEF Begin
<1> HIDE DEF g
<1>4. tx' \in Transactions /\ tx'.staged = <<>> /\ tx'.pc = "stage" /\ tx'.db = d /\ tx'.targets = g
    <2>1. [NoTx EXCEPT !.pc = "stage", !.db = d, !.open = TRUE, !.targets = g] \in Transactions
        BY <1>1, NoTxType DEF Transactions, Steps
    <2>2. tx'.staged = <<>> /\ tx'.pc = "stage" /\ tx'.db = d /\ tx'.targets = g
        BY <1>3 DEF NoTx
    <2> QED BY <1>3, <2>1, <2>2
<1>5. StagingInv'
    BY <1>2, <1>4 DEF StagingInv
<1> QED BY <1>4, <1>5

\* Nothing but the transaction has changed, and it has written nothing.
LEMMA NothingStaged ==
    ASSUME FilesInv, tx.pc \in Steps, tx.pc # "finish", tx.staged = <<>>, tx'.pc \in Steps, tx'.pc # "finish", tx'.staged = <<>>,
           db' = db, index' = index, file' = file, damaged' = damaged,
           Scope(boot', repaired') \subseteq Scope(boot, repaired)
    PROVE  FilesInv'
<1>1. \A s \in Scope(boot', repaired') \ damaged : Mirrored(db', index', file', tx'.staged, s)
    BY DEF FilesInv
<1> QED BY <1>1 DEF FilesInv

LEMMA SameReaders ==
    ASSUME ReadersInv, readers' = readers, db.ended \subseteq db'.ended, damaged \subseteq damaged'
    PROVE  ReadersInv'
BY DEF ReadersInv

\* A run begins or ends, an event's outcome is logged, a shard is repaired.
LEMMA WriterBegins ==
    ASSUME HistoryInv,
           \/ \E E \in SUBSET Runs : StartRun(E)
           \/ EndRun
           \/ \E c \in Runs, o \in Runs \union {0} : LogOutcome(c, o)
           \/ RepairShard
    PROVE  HistoryInv'
<1> USE DEF HistoryInv
<1>1. /\ tx.pc = "none"
      /\ db' = db /\ index' = index /\ file' = file /\ historyMu' = historyMu /\ boot' = boot
      /\ repaired' = repaired /\ readers' = readers /\ damaged' = damaged
    BY DEF StartRun, EndRun, LogOutcome, RepairShard, Writer
<1>2. db \in States /\ tx \in Transactions
    BY DEF HistoryTypes
<1>3. PICK d, R :
         /\ d \in States /\ db.ended \subseteq d.ended /\ d.ended \subseteq db.ended \union R
         /\ db.log \subseteq d.log /\ \A x \in d.log \ db.log : x.created \in R /\ (x.outcome \in R \/ x.outcome = 0)
         /\ Begin(d, R)
    <2>1. CASE \E E \in SUBSET Runs : StartRun(E)
        <3>1. PICK E \in SUBSET Runs : StartRun(E)
            BY <2>1
        <3> DEFINE n == db.last + 1
                   new == {[created |-> c, outcome |-> n] : c \in E}
                   R == E \union (IF E = {} THEN {} ELSE {n})
                   d == [[db EXCEPT !.last = n] EXCEPT !.log = db.log \union new]
        <3>2. n \in Runs /\ Begin(d, R)
            BY <1>2, <3>1 DEF StartRun, States
        <3> HIDE DEF n
        <3>3. new \subseteq LogRows
            BY <3>2 DEF LogRows
        <3>4. \A x \in new : x.created \in R /\ x.outcome \in R
            OBVIOUS
        <3> HIDE DEF new, R
        <3>5. d \in States /\ d.ended = db.ended /\ d.log = db.log \union new
            BY <1>2, <3>2, <3>3 DEF States
        <3> HIDE DEF d
        <3> QED BY <3>2, <3>4, <3>5
    <2>2. CASE EndRun
        <3> DEFINE d == [db EXCEPT !.ended = db.ended \union {db.last}]
        <3>1. Begin(d, Related(db.last)) /\ db.last \in Runs
            BY <1>2, <2>2 DEF EndRun, States
        <3>2. d \in States /\ d.ended = db.ended \union {db.last} /\ d.log = db.log
            BY <1>2, <3>1 DEF States
        <3>3. db.last \in Related(db.last)
            BY DEF Related
        <3> HIDE DEF d
        <3> QED BY <3>1, <3>2, <3>3
    <2>3. CASE \E c \in Runs, o \in Runs \union {0} : LogOutcome(c, o)
        <3>1. PICK c \in Runs, o \in Runs \union {0} : LogOutcome(c, o)
            BY <2>3
        <3> DEFINE row == [created |-> c, outcome |-> o]
                   d == [db EXCEPT !.log = db.log \union {row}]
        <3>2. Begin(d, {c, o})
            BY <3>1 DEF LogOutcome
        <3>3. row \in LogRows /\ row.created = c /\ row.outcome = o
            BY DEF LogRows
        <3> HIDE DEF row
        <3>4. d \in States /\ d.ended = db.ended /\ d.log = db.log \union {row}
            BY <1>2, <3>3 DEF States
        <3> HIDE DEF d
        <3> QED BY <3>2, <3>3, <3>4
    <2>4. CASE RepairShard
        BY <1>2, <2>4 DEF RepairShard
    <2> QED BY <2>1, <2>2, <2>3, <2>4
<1>4. tx' \in Transactions /\ tx'.staged = <<>> /\ tx'.pc = "stage" /\ StagingInv'
    BY <1>1, <1>2, <1>3, Begins
<1>5. HistoryTypes'
    BY <1>1, <1>4 DEF HistoryTypes
<1>6. FilesInv'
    <2>1. tx.staged = <<>>
        BY <1>1 DEF StagingInv
    <2> QED BY <1>1, <1>4, <2>1, NothingStaged DEF Steps
<1>7. ReadersInv'
    BY <1>1, SameReaders
<1> QED BY <1>4, <1>5, <1>6, <1>7

\* When every shard is repaired, every shard that holds a run is in order.
LEMMA RecoverBegins ==
    ASSUME HistoryInv, Recover
    PROVE  HistoryInv'
<1> USE DEF HistoryInv
<1>1. /\ tx.pc = "none" /\ boot = "repair" /\ ToRepair = {} /\ boot' = "recover"
      /\ db' = db /\ index' = index /\ file' = file /\ historyMu' = historyMu
      /\ repaired' = repaired /\ readers' = readers /\ damaged' = damaged
    BY DEF Recover
<1>2. db \in States
    BY DEF HistoryTypes
<1> DEFINE d == [db EXCEPT !.ended = db.ended \union ({db.last} \ {0})]
           R == {db.last} \ db.ended
<1>3. Begin(d, R)
    BY DEF Recover
<1>4. d \in States /\ d.ended = db.ended \union ({db.last} \ {0}) /\ d.log = db.log
    BY <1>2 DEF States
<1>5. db.ended \subseteq d.ended /\ d.ended \subseteq db.ended \union R
    BY <1>4
<1> HIDE DEF d, R
<1>6. tx' \in Transactions /\ tx'.staged = <<>> /\ tx'.pc = "stage" /\ StagingInv'
    BY <1>1, <1>2, <1>3, <1>4, <1>5, Begins
<1>7. HistoryTypes'
    BY <1>1, <1>6 DEF HistoryTypes
<1>8. FilesInv'
    <2>1. tx.staged = <<>>
        BY <1>1 DEF StagingInv
    <2>2. ASSUME NEW s \in Shards \ damaged PROVE Mirrored(db, index, file, <<>>, s)
        <3>1. CASE s \in repaired
            BY <1>1, <2>1, <2>2, <3>1 DEF FilesInv, Scope
        <3>2. CASE s \notin repaired
            <4>1. Projection(db, s).runs = {}
                BY <1>1, <1>2, <3>2, ProjectionType DEF ToRepair
            <4> QED BY <4>1 DEF Mirrored
        <3> QED BY <3>1, <3>2
    <2>3. Scope(boot', repaired') = Shards
        BY <1>1 DEF Scope
    <2> QED BY <1>1, <1>6, <2>2, <2>3 DEF FilesInv
<1>9. ReadersInv'
    BY <1>1, SameReaders
<1> QED BY <1>6, <1>7, <1>8, <1>9

-----------------------------------------------------------------------------
(* A transaction goes on *)

LEMMA LockKeeps ==
    ASSUME HistoryInv, LockHistory
    PROVE  HistoryInv'
<1> USE DEF HistoryInv
<1> DEFINE c == IF tx.targets = {} THEN "commit" ELSE "write"
<1>1. /\ tx.pc = "stage" /\ tx' = [tx EXCEPT !.pc = c] /\ historyMu' = (historyMu \/ tx.targets # {})
      /\ db' = db /\ index' = index /\ file' = file /\ boot' = boot
      /\ repaired' = repaired /\ readers' = readers /\ damaged' = damaged
    BY DEF LockHistory
<1>2. c \in {"commit", "write"} /\ (c = "commit" => tx.targets = {}) /\ (c = "write" => tx.targets # {})
    OBVIOUS
<1>3. tx \in Transactions /\ historyMu \in BOOLEAN
    BY DEF HistoryTypes
<1> HIDE DEF c
<1>4. /\ tx' \in Transactions /\ tx'.pc = c /\ tx'.staged = tx.staged /\ tx'.targets = tx.targets /\ tx'.db = tx.db
    BY <1>1, <1>2, <1>3 DEF Transactions, Steps
<1>5. historyMu' \in BOOLEAN /\ (c = "write" => historyMu' = TRUE)
    BY <1>1, <1>2, <1>3
<1>6. HistoryTypes'
    BY <1>1, <1>4, <1>5 DEF HistoryTypes
<1>7. tx.staged = <<>>
    BY <1>1 DEF StagingInv
<1>8. StagingInv'
    BY <1>1, <1>2, <1>4, <1>5, <1>7 DEF StagingInv
<1>9. FilesInv'
    BY <1>1, <1>2, <1>4, <1>7, NothingStaged DEF Steps
<1>10. ReadersInv'
    BY <1>1, SameReaders
<1> QED BY <1>6, <1>8, <1>9, <1>10

LEMMA WriteKeeps ==
    ASSUME HistoryInv, WriteShard
    PROVE  HistoryInv'
<1> USE DEF HistoryInv
<1> DEFINE st == tx.staged
           todo == tx.targets \ {st[i].shard : i \in DOMAIN st}
<1>1. /\ tx.pc = "write"
      /\ db' = db /\ index' = index /\ historyMu' = historyMu /\ boot' = boot
      /\ repaired' = repaired /\ readers' = readers /\ damaged' = damaged
    BY DEF WriteShard
<1>2. PICK s \in todo :
         /\ file' = [file EXCEPT ![s] = Projection(tx.db, s)]
         /\ tx' = [tx EXCEPT !.staged = Append(@, [shard |-> s, previous |-> file[s]]),
                             !.pc = IF todo = {s} THEN "commit" ELSE "write"]
    BY DEF WriteShard
<1> DEFINE row == [shard |-> s, previous |-> file[s]]
           c == IF todo = {s} THEN "commit" ELSE "write"
           ts == Append(st, row)
<1>3. tx \in Transactions /\ file \in [Shards -> Bodies] /\ tx.db \in States /\ st \in Seq(Staged) /\ tx.targets \subseteq Shards
    BY DEF HistoryTypes, Transactions
<1>4. s \in tx.targets /\ s \in Shards /\ ~IsStaged(st, s)
    BY <1>3 DEF IsStaged
<1>5. row \in Staged /\ row.shard = s /\ row.previous = file[s]
    BY <1>3, <1>4 DEF Staged
<1>6. c \in {"commit", "write"} /\ (c = "commit" => todo = {s})
    OBVIOUS
<1>7. tx' = [[tx EXCEPT !.staged = ts] EXCEPT !.pc = c]
    BY <1>2, <1>3 DEF Transactions
<1> HIDE DEF row, c
<1>8. /\ ts \in Seq(Staged) /\ Len(ts) = Len(st) + 1 /\ DOMAIN ts = DOMAIN st \union {Len(ts)} /\ Len(ts) \notin DOMAIN st
      /\ ts[Len(ts)] = row /\ \A i \in DOMAIN st : ts[i] = st[i]
    BY <1>3, <1>5
<1> HIDE DEF ts
<1>9. tx' \in Transactions /\ tx'.pc = c /\ tx'.staged = ts /\ tx'.targets = tx.targets /\ tx'.db = tx.db
    BY <1>3, <1>6, <1>7, <1>8 DEF Transactions, Steps
<1>10. file' \in [Shards -> Bodies] /\ file'[s] = Projection(tx.db, s) /\ \A u \in Shards \ {s} : file'[u] = file[u]
    BY <1>2, <1>3, <1>4, ProjectionType
<1>11. HistoryTypes'
    BY <1>1, <1>9, <1>10 DEF HistoryTypes
<1>12. \A u : IsStaged(ts, u) <=> u = s \/ IsStaged(st, u)
    BY <1>5, <1>8 DEF IsStaged
<1>13. StagingInv'
    <2>1. \A i \in DOMAIN ts : ts[i].shard \in tx.targets
        BY <1>4, <1>5, <1>8 DEF StagingInv
    <2>2. \A i, j \in DOMAIN ts : ts[i].shard = ts[j].shard => i = j
        BY <1>4, <1>5, <1>8 DEF StagingInv, IsStaged
    <2>3. \A i \in DOMAIN ts : file'[ts[i].shard] = Projection(tx.db, ts[i].shard)
        <3>1. \A i \in DOMAIN st : st[i].shard \in Shards /\ st[i].shard # s /\ file[st[i].shard] = Projection(tx.db, st[i].shard)
            BY <1>1, <1>3, <1>4 DEF StagingInv, IsStaged
        <3> QED BY <1>5, <1>8, <1>10, <3>1
    <2>4. c = "commit" => \A u \in tx.targets : IsStaged(ts, u)
        <3>1. \A u \in tx.targets : u \in todo \/ IsStaged(st, u)
            BY DEF IsStaged
        <3> QED BY <1>6, <1>12, <3>1
    <2>5. historyMu' = TRUE
        BY <1>1 DEF StagingInv
    <2>6. /\ db'.ended \subseteq tx'.db.ended
          /\ \A u \in Shards \ tx'.targets : Projection(tx'.db, u).runs # {} => Projection(tx'.db, u) = Projection(db', u)
        BY <1>1, <1>9 DEF StagingInv
    <2> HIDE DEF st, todo
    <2> QED BY <1>6, <1>9, <2>1, <2>2, <2>3, <2>4, <2>5, <2>6 DEF StagingInv
<1>14. FilesInv'
    <2>1. ASSUME NEW u \in Scope(boot, repaired) \ damaged
          PROVE  Mirrored(db, index, file', ts, u)
        <3>1. Mirrored(db, index, file, st, u)
            BY <1>1 DEF FilesInv
        <3>2. u \in Shards
            BY DEF Scope, HistoryTypes
        <3>3. CASE u = s
            BY <1>4, <1>5, <1>8, <1>12, <3>1, <3>3 DEF Mirrored, IsStaged
        <3>4. CASE u # s
            BY <1>5, <1>8, <1>10, <1>12, <3>1, <3>2, <3>4 DEF Mirrored
        <3> QED BY <3>3, <3>4
    <2> QED BY <1>1, <1>6, <1>9, <2>1 DEF FilesInv
<1>15. ReadersInv'
    BY <1>1, SameReaders
<1> QED BY <1>11, <1>13, <1>14, <1>15

\* What was written is about to be put back.
LEMMA FailKeeps ==
    ASSUME HistoryInv, WriteFails \/ CommitFails
    PROVE  HistoryInv'
<1> USE DEF HistoryInv
<1>1. /\ tx.pc \in {"write", "commit"}
      /\ db' = db /\ index' = index /\ file' = file /\ historyMu' = historyMu /\ boot' = boot
      /\ repaired' = repaired /\ readers' = readers /\ damaged' = damaged
    BY DEF WriteFails, CommitFails
<1>2. tx \in Transactions
    BY DEF HistoryTypes
<1>3. /\ tx' \in Transactions /\ tx'.pc = "restore" /\ tx'.staged = tx.staged /\ tx'.targets = tx.targets
    <2>1. CASE WriteFails
        BY <1>2, <2>1 DEF WriteFails, Transactions, Steps
    <2>2. CASE CommitFails
        BY <1>2, <2>2 DEF CommitFails, Transactions, Steps
    <2> QED BY <2>1, <2>2
<1>4. HistoryTypes'
    BY <1>1, <1>3 DEF HistoryTypes
<1>5. StagingInv'
    BY <1>1, <1>3 DEF StagingInv
<1>6. FilesInv'
    BY <1>1, <1>3 DEF FilesInv
<1>7. ReadersInv'
    BY <1>1, SameReaders
<1> QED BY <1>4, <1>5, <1>6, <1>7

LEMMA CommitKeeps ==
    ASSUME HistoryInv, Commit
    PROVE  HistoryInv'
<1> USE DEF HistoryInv
<1>1. /\ tx.pc = "commit" /\ db' = tx.db /\ index' = index \union tx.targets
      /\ file' = file /\ historyMu' = historyMu /\ boot' = boot
      /\ repaired' = repaired /\ readers' = readers /\ damaged' = damaged
    BY DEF Commit
<1>2. tx \in Transactions /\ tx.db \in States /\ tx.targets \subseteq Shards /\ db \in States
    BY DEF HistoryTypes, Transactions
<1>3. /\ tx' \in Transactions /\ tx'.pc = "finish" /\ tx'.staged = tx.staged /\ tx'.targets = tx.targets
    BY <1>2 DEF Commit, Transactions, Steps
<1>4. HistoryTypes'
    BY <1>1, <1>2, <1>3 DEF HistoryTypes
<1>5. StagingInv'
    BY <1>1, <1>3 DEF StagingInv
<1>6. FilesInv'
    <2>1. ASSUME NEW s \in (Scope(boot, repaired) \union tx.targets) \ damaged
          PROVE  Mirrored(tx.db, index', file, <<>>, s)
        <3>1. s \in Shards
            BY <1>2 DEF Scope, HistoryTypes
        <3>2. CASE s \in tx.targets
            <4>1. file[s] = Projection(tx.db, s)
                BY <1>1, <3>2 DEF StagingInv, IsStaged
            <4> QED BY <1>1, <3>2, <4>1 DEF Mirrored
        <3>3. CASE s \notin tx.targets
            <4>1. Mirrored(db, index, file, tx.staged, s)
                BY <1>1, <2>1, <3>3 DEF FilesInv
            <4>2. ~IsStaged(tx.staged, s)
                BY <3>3 DEF StagingInv, IsStaged
            <4>3. Projection(tx.db, s).runs # {} => Projection(tx.db, s) = Projection(db, s)
                BY <1>1, <3>1, <3>3 DEF StagingInv
            <4> QED BY <1>1, <4>1, <4>2, <4>3 DEF Mirrored
        <3> QED BY <3>2, <3>3
    <2> QED BY <1>1, <1>3, <2>1 DEF FilesInv
<1>7. ReadersInv'
    <2>1. db.ended \subseteq db'.ended
        BY <1>1 DEF StagingInv
    <2> QED BY <1>1, <2>1, SameReaders
<1> QED BY <1>4, <1>5, <1>6, <1>7

LEMMA FinishKeeps ==
    ASSUME HistoryInv, FinishCommitted
    PROVE  HistoryInv'
<1> USE DEF HistoryInv
<1>1. /\ tx.pc = "finish" /\ historyMu' = FALSE /\ tx' = NoTx
      /\ repaired' = repaired \union (IF boot = "repair" THEN tx.targets ELSE {})
      /\ boot' = IF boot = "recover" THEN "up" ELSE boot
      /\ db' = db /\ index' = index /\ file' = file /\ readers' = readers /\ damaged' = damaged
    BY DEF FinishCommitted
<1>2. tx.targets \subseteq Shards /\ repaired \subseteq Shards
    BY DEF HistoryTypes, Transactions
<1>3. tx' \in Transactions /\ tx'.pc = "none" /\ tx'.staged = <<>>
    BY <1>1, NoTxType
<1>4. HistoryTypes'
    <2>1. repaired' \subseteq Shards /\ boot' \in {"repair", "recover", "up", "fault", "down"} /\ historyMu' \in BOOLEAN
        BY <1>1, <1>2 DEF HistoryTypes
    <2> QED BY <1>1, <1>3, <2>1 DEF HistoryTypes
<1>5. StagingInv'
    BY <1>3 DEF StagingInv
<1>6. FilesInv'
    <2>1. Scope(boot', repaired') \subseteq Scope(boot, repaired) \union tx.targets
        BY <1>1 DEF Scope
    <2>2. \A s \in Scope(boot', repaired') \ damaged : Mirrored(db, index, file, <<>>, s)
        BY <1>1, <2>1 DEF FilesInv
    <2> QED BY <1>1, <1>3, <2>2 DEF FilesInv
<1>7. ReadersInv'
    BY <1>1, SameReaders
<1> QED BY <1>4, <1>5, <1>6, <1>7

\* The last file that was written is put back, or given up.
LEMMA RestoreKeeps ==
    ASSUME HistoryInv, RestoreShard
    PROVE  HistoryInv'
<1> USE DEF HistoryInv
<1> DEFINE st == tx.staged
           ts == Front(st)
           f == Last(st)
<1>1. /\ tx.pc = "restore" /\ st # <<>> /\ tx' = [tx EXCEPT !.staged = ts]
      /\ db' = db /\ index' = index /\ historyMu' = historyMu /\ boot' = boot
      /\ repaired' = repaired /\ readers' = readers
    BY DEF RestoreShard
<1>2. \/ file' = [file EXCEPT ![f.shard] = f.previous] /\ damaged' = damaged
      \/ damaged' = damaged \union {f.shard} /\ file' = file
    BY DEF RestoreShard
<1>3. tx \in Transactions /\ st \in Seq(Staged) /\ file \in [Shards -> Bodies]
    BY DEF HistoryTypes, Transactions
<1>4. /\ ts \in Seq(Staged) /\ f \in Staged /\ Len(st) \in DOMAIN st /\ f = st[Len(st)]
      /\ DOMAIN st = DOMAIN ts \union {Len(st)} /\ Len(st) \notin DOMAIN ts
      /\ \A i \in DOMAIN ts : ts[i] = st[i]
    <2>1. Len(st) \in Nat \ {0}
        BY <1>1, <1>3
    <2>2. \A i \in 1..Len(st) : st[i] \in Staged
        BY <1>3
    <2>3. ts = [i \in 1..(Len(st) - 1) |-> st[i]] /\ Len(st) - 1 \in Nat
        BY <1>3, <2>1 DEF Front
    <2>4. ts \in Seq(Staged) /\ DOMAIN ts = 1..(Len(st) - 1) /\ DOMAIN st = 1..Len(st)
        BY <1>3, <2>1, <2>2, <2>3
    <2> QED BY <2>1, <2>2, <2>3, <2>4 DEF Last
<1>5. f.shard \in Shards /\ f.previous \in Bodies
    BY <1>4 DEF Staged
<1> HIDE DEF ts, f
<1>6. tx' \in Transactions /\ tx'.pc = "restore" /\ tx'.staged = ts /\ tx'.targets = tx.targets
    BY <1>1, <1>3, <1>4 DEF Transactions
<1>7. /\ file' \in [Shards -> Bodies] /\ \A u \in Shards \ {f.shard} : file'[u] = file[u]
      /\ damaged \subseteq damaged' /\ damaged' \subseteq damaged \union {f.shard}
      /\ f.shard \notin damaged' => file'[f.shard] = f.previous
    BY <1>2, <1>3, <1>5
<1>8. HistoryTypes'
    <2>1. damaged' \subseteq Shards
        BY <1>5, <1>7 DEF HistoryTypes
    <2> QED BY <1>1, <1>6, <1>7, <2>1 DEF HistoryTypes
<1>9. \A u : IsStaged(st, u) <=> u = f.shard \/ IsStaged(ts, u)
    BY <1>4 DEF IsStaged
<1>10. ~IsStaged(ts, f.shard)
    BY <1>4 DEF StagingInv, IsStaged
<1>11. StagingInv'
    <2>1. \A i \in DOMAIN ts : ts[i].shard \in tx.targets
        BY <1>4 DEF StagingInv
    <2>2. \A i, j \in DOMAIN ts : ts[i].shard = ts[j].shard => i = j
        BY <1>4 DEF StagingInv
    <2>3. historyMu' = TRUE
        BY <1>1 DEF StagingInv
    <2> QED BY <1>6, <2>1, <2>2, <2>3 DEF StagingInv
<1>12. FilesInv'
    <2>1. ASSUME NEW u \in Scope(boot, repaired) \ damaged'
          PROVE  Mirrored(db, index, file', ts, u)
        <3>1. Mirrored(db, index, file, st, u)
            BY <1>1, <1>7 DEF FilesInv
        <3>2. u \in Shards
            BY DEF Scope, HistoryTypes
        <3>3. CASE u = f.shard
            BY <1>4, <1>7, <1>10, <2>1, <3>1, <3>3 DEF Mirrored, IsStaged
        <3>4. CASE u # f.shard
            BY <1>4, <1>7, <1>9, <3>1, <3>2, <3>4 DEF Mirrored
        <3> QED BY <3>3, <3>4
    <2> QED BY <1>1, <1>6, <2>1 DEF FilesInv
<1>13. ReadersInv'
    BY <1>1, <1>7, SameReaders
<1> QED BY <1>8, <1>11, <1>12, <1>13

LEMMA RestoredKeeps ==
    ASSUME HistoryInv, FinishRestored
    PROVE  HistoryInv'
<1> USE DEF HistoryInv
<1>1. /\ tx.pc = "restore" /\ tx.staged = <<>> /\ historyMu' = FALSE /\ tx' = NoTx
      /\ repaired' = repaired
      /\ db' = db /\ index' = index /\ file' = file /\ readers' = readers /\ damaged' = damaged
    BY DEF FinishRestored
<1>2. /\ boot' \in {"up", "fault", "down"}
      /\ boot' \in {"up", "fault"} => boot \in {"up", "fault"}
    BY DEF FinishRestored, HistoryTypes
<1>3. tx' \in Transactions /\ tx'.pc = "none" /\ tx'.staged = <<>>
    BY <1>1, NoTxType
<1>4. HistoryTypes'
    BY <1>1, <1>2, <1>3 DEF HistoryTypes
<1>5. StagingInv'
    BY <1>3 DEF StagingInv
<1>6. FilesInv'
    <2>1. Scope(boot', repaired') \subseteq Scope(boot, repaired)
        BY <1>1, <1>2 DEF Scope
    <2> QED BY <1>1, <1>3, <2>1, NothingStaged DEF Steps
<1>7. ReadersInv'
    BY <1>1, SameReaders
<1> QED BY <1>4, <1>5, <1>6, <1>7

-----------------------------------------------------------------------------
(* A stop, and readers *)

LEMMA RestartKeeps ==
    ASSUME HistoryInv, HistoryRestart
    PROVE  HistoryInv'
<1> USE DEF HistoryInv
<1>1. /\ tx' = NoTx /\ historyMu' = FALSE /\ boot' = "repair" /\ repaired' = {} /\ damaged' = {}
      /\ readers' = [r \in Readers |-> Reading] /\ db' = db /\ index' = index /\ file' = file
    BY DEF HistoryRestart
<1>2. tx' \in Transactions /\ tx'.pc = "none" /\ tx'.staged = <<>>
    BY <1>1, NoTxType
<1>3. Reading \in Reads /\ Reading.pc = "idle"
    BY DEF Reading, Reads
<1>4. HistoryTypes'
    BY <1>1, <1>2, <1>3 DEF HistoryTypes
<1>5. StagingInv'
    BY <1>2 DEF StagingInv
<1>6. FilesInv'
    <2>1. Scope(boot', repaired') = {}
        BY <1>1 DEF Scope
    <2> QED BY <1>2, <2>1 DEF FilesInv
<1>7. ReadersInv'
    BY <1>1, <1>3 DEF ReadersInv
<1> QED BY <1>4, <1>5, <1>6, <1>7

\* One reader takes a step.
LEMMA OneReader ==
    ASSUME HistoryInv, NEW r \in Readers, NEW q \in Reads, readers' = [readers EXCEPT ![r] = q],
           boot' = boot \/ (boot' = "fault" /\ boot \in {"up", "fault"}),
           UNCHANGED <<db, index, file, tx, historyMu, repaired, damaged>>,
           q.pc \in {"index", "read"} => q.run \in db.ended,
           q.pc = "alarm" => ShardOf(q.run) \in damaged
    PROVE  HistoryInv'
<1> USE DEF HistoryInv
<1>1. readers' \in [Readers -> Reads] /\ readers'[r] = q /\ \A b \in Readers \ {r} : readers'[b] = readers[b]
    BY DEF HistoryTypes
<1>2. HistoryTypes'
    BY <1>1 DEF HistoryTypes
<1>3. StagingInv'
    BY DEF StagingInv
<1>4. FilesInv'
    <2>1. Scope(boot', repaired') = Scope(boot, repaired)
        BY DEF Scope
    <2> QED BY <2>1 DEF FilesInv
<1>5. ReadersInv'
    BY <1>1 DEF ReadersInv
<1> QED BY <1>2, <1>3, <1>4, <1>5

\* The shard of a run that has ended is there for a reader.
LEMMA ReadersFind ==
    ASSUME HistoryInv, NEW n \in db.ended, boot \in {"up", "fault"}, ShardOf(n) \notin damaged
    PROVE  ShardOf(n) \in index /\ (~historyMu => n \in file[ShardOf(n)].runs)
<1> USE DEF HistoryInv
<1> DEFINE s == ShardOf(n)
<1>1. db \in States
    BY DEF HistoryTypes
<1>2. s \in Shards /\ n \in Projection(db, s).runs
    BY <1>1, EndedIsShown
<1>3. Scope(boot, repaired) = Shards
    BY DEF Scope
<1> HIDE DEF s
<1>4. CASE tx.pc # "finish"
    <2>1. Mirrored(db, index, file, tx.staged, s)
        BY <1>2, <1>3, <1>4 DEF FilesInv, s
    <2>2. ~historyMu => tx.staged = <<>>
        BY DEF StagingInv
    <2>3. ~historyMu => ~IsStaged(tx.staged, s)
        BY <2>2 DEF IsStaged
    <2>4. s \in index /\ (~historyMu => file[s] = Projection(db, s))
        BY <1>2, <2>1, <2>3 DEF Mirrored
    <2> QED BY <1>2, <2>4 DEF s
<1>5. CASE tx.pc = "finish"
    <2>1. Mirrored(db, index, file, <<>>, s)
        BY <1>2, <1>3, <1>5 DEF FilesInv, s
    <2>2. s \in index /\ file[s] = Projection(db, s)
        BY <1>2, <2>1 DEF Mirrored, IsStaged
    <2> QED BY <1>2, <2>2 DEF s
<1> QED BY <1>4, <1>5

LEMMA ReadersKeep ==
    ASSUME HistoryInv, NEW r \in Readers,
           ResolveIndex(r) \/ ReadShard(r) \/ \E n \in Runs : ResolveRun(r, n)
    PROVE  HistoryInv'
<1> USE DEF HistoryInv
<1>1. readers \in [Readers -> Reads] /\ readers[r] \in Reads
    BY DEF HistoryTypes
<1>2. ASSUME NEW c \in {"read", "alarm"}
      PROVE  /\ [readers[r] EXCEPT !.pc = c] \in Reads /\ [readers[r] EXCEPT !.pc = c].pc = c
             /\ [readers[r] EXCEPT !.pc = c].run = readers[r].run
    BY <1>1 DEF Reads
<1>3. ASSUME readers[r].run \in db.ended, Alarm(r), boot \in {"up", "fault"},
             UNCHANGED <<db, index, file, tx, historyMu, repaired, damaged>>, ShardOf(readers[r].run) \in damaged
      PROVE  HistoryInv'
    <2> DEFINE q == [readers[r] EXCEPT !.pc = "alarm"]
    <2>1. readers' = [readers EXCEPT ![r] = q] /\ boot' = "fault"
        BY <1>3 DEF Alarm
    <2>2. q \in Reads /\ q.pc = "alarm" /\ q.run = readers[r].run
        BY <1>2
    <2> HIDE DEF q
    <2> QED BY <1>3, <2>1, <2>2, OneReader
<1>4. CASE ResolveIndex(r)
    <2>1. /\ boot \in {"up", "fault"} /\ readers[r].pc = "index" /\ readers[r].run \in db.ended
          /\ UNCHANGED <<db, index, file, tx, historyMu, repaired, damaged>>
        BY <1>4 DEF ResolveIndex, Serving, ReadersInv
    <2>2. CASE ShardOf(readers[r].run) \in index
        <3> DEFINE q == [readers[r] EXCEPT !.pc = "read"]
        <3>1. readers' = [readers EXCEPT ![r] = q] /\ boot' = boot
            BY <1>4, <2>2 DEF ResolveIndex
        <3>2. q \in Reads /\ q.pc = "read" /\ q.run = readers[r].run
            BY <1>2
        <3> HIDE DEF q
        <3> QED BY <2>1, <3>1, <3>2, OneReader
    <2>3. CASE ShardOf(readers[r].run) \notin index
        <3>1. Alarm(r)
            BY <1>4, <2>3 DEF ResolveIndex
        <3>2. ShardOf(readers[r].run) \in damaged
            BY <2>1, <2>3, ReadersFind
        <3> QED BY <1>3, <2>1, <3>1, <3>2
    <2> QED BY <2>2, <2>3
<1>5. CASE ReadShard(r)
    <2>1. /\ boot \in {"up", "fault"} /\ readers[r].pc = "read" /\ readers[r].run \in db.ended /\ ~historyMu
          /\ UNCHANGED <<db, index, file, tx, historyMu, repaired, damaged>>
        BY <1>5 DEF ReadShard, Serving, ReadersInv
    <2>2. CASE readers[r].run \in file[ShardOf(readers[r].run)].runs
        <3>1. readers' = [readers EXCEPT ![r] = Reading] /\ boot' = boot
            BY <1>5, <2>2 DEF ReadShard
        <3>2. Reading \in Reads /\ Reading.pc = "idle"
            BY DEF Reading, Reads
        <3> QED BY <2>1, <3>1, <3>2, OneReader
    <2>3. CASE readers[r].run \notin file[ShardOf(readers[r].run)].runs
        <3>1. Alarm(r)
            BY <1>5, <2>3 DEF ReadShard
        <3>2. ShardOf(readers[r].run) \in damaged
            BY <2>1, <2>3, ReadersFind
        <3> QED BY <1>3, <2>1, <3>1, <3>2
    <2> QED BY <2>2, <2>3
<1>6. CASE \E n \in Runs : ResolveRun(r, n)
    <2>1. PICK n \in Runs : ResolveRun(r, n)
        BY <1>6
    <2> DEFINE q == [pc |-> "index", run |-> n]
    <2>2. /\ readers' = [readers EXCEPT ![r] = q] /\ boot' = boot /\ n \in db.ended
          /\ UNCHANGED <<db, index, file, tx, historyMu, repaired, damaged>>
        BY <2>1 DEF ResolveRun
    <2>3. q \in Reads /\ q.pc = "index" /\ q.run = n
        BY DEF Reads
    <2> HIDE DEF q
    <2> QED BY <2>2, <2>3, OneReader
<1> QED BY <1>4, <1>5, <1>6

-----------------------------------------------------------------------------
(* The theorem *)

LEMMA HistoryInitInv == HistoryInit => HistoryInv
<1> SUFFICES ASSUME HistoryInit PROVE HistoryInv
    OBVIOUS
<1>1. db \in States /\ db.ended = {}
    BY DEF HistoryInit, States
<1>2. Reading \in Reads /\ Reading.pc = "idle"
    BY DEF Reading, Reads
<1>3. HistoryTypes
    BY <1>1, <1>2, AbsentType, NoTxType DEF HistoryInit, HistoryTypes
<1>4. tx.pc = "none" /\ tx.staged = <<>>
    BY NoTxType DEF HistoryInit
<1>5. \A s \in Shards : Projection(db, s).runs = {}
    BY <1>1, ProjectionType
<1>6. FilesInv
    <2>1. Scope(boot, repaired) = Shards
        BY DEF HistoryInit, Scope
    <2> QED BY <1>4, <1>5, <2>1 DEF FilesInv, Mirrored
<1>7. StagingInv
    BY <1>4 DEF StagingInv
<1>8. ReadersInv
    BY <1>2 DEF HistoryInit, ReadersInv
<1> QED BY <1>3, <1>6, <1>7, <1>8 DEF HistoryInv

LEMMA HistoryInvInductive == HistoryInv /\ [HistoryNext]_historyVars => HistoryInv'
<1> SUFFICES ASSUME HistoryInv, [HistoryNext]_historyVars PROVE HistoryInv'
    OBVIOUS
<1>1. CASE HistoryNext
    BY <1>1, WriterBegins, RecoverBegins, LockKeeps, WriteKeeps, FailKeeps, CommitKeeps, FinishKeeps, RestoreKeeps,
       RestoredKeeps, RestartKeeps, ReadersKeep DEF HistoryNext
<1>2. CASE UNCHANGED historyVars
    BY <1>2 DEF historyVars, HistoryInv, HistoryTypes, FilesInv, StagingInv, ReadersInv
<1> QED BY <1>1, <1>2

\* Whenever a reader may open a shard file of a server that is up, the file
\* shows exactly the runs that have ended, with the outcomes of their events,
\* and no race with a writer makes a reader latch a fault (staging.go, history.go,
\* serveRunHistory): whatever write, commit or restore failed, and wherever the
\* server stopped.
THEOREM HistoryStaysFaithful == HistorySpec => []HistoryIsFaithful
<1>1. HistoryInv => HistoryIsFaithful
    <2> SUFFICES ASSUME HistoryInv PROVE HistoryIsFaithful
        OBVIOUS
    <2>1. ShardsMirrorTheRuns
        <3>1. SUFFICES ASSUME boot = "up", ~historyMu, NEW s \in Shards \ damaged, Projection(db, s).runs # {}
                       PROVE  s \in index /\ file[s] = Projection(db, s)
            BY DEF ShardsMirrorTheRuns
        <3>2. Scope(boot, repaired) = Shards
            BY <3>1 DEF Scope
        <3>3. Mirrored(db, index, file, <<>>, s)
            <4>1. CASE tx.pc # "finish"
                <5>1. tx.staged = <<>>
                    BY <3>1 DEF HistoryInv, StagingInv
                <5> QED BY <3>1, <3>2, <4>1, <5>1 DEF HistoryInv, FilesInv
            <4>2. CASE tx.pc = "finish"
                BY <3>1, <3>2, <4>2 DEF HistoryInv, FilesInv
            <4> QED BY <4>1, <4>2
        <3> QED BY <3>1, <3>3 DEF Mirrored, IsStaged
    <2>2. ReadersRaiseNoFalseAlarm
        BY DEF HistoryInv, ReadersInv, ReadersRaiseNoFalseAlarm
    <2> QED BY <2>1, <2>2 DEF HistoryIsFaithful
<1> QED BY <1>1, HistoryInitInv, HistoryInvInductive, PTL DEF HistorySpec

-----------------------------------------------------------------------------
(* MessageStreams *)

StreamEvents == [name : {"created", "deleted"}, m : Messages] \union [name : {"cleared"}, m : {0}]

Feeds == [state : {"none", "subscribed", "open"}, on : BOOLEAN, buffer : Seq(StreamEvents)]

PagesOfTheUser == [messages : SUBSET Messages, removed : SUBSET Messages, ready : BOOLEAN, count : Nat]

PageReads == [from : Messages \union {0}, answered : BOOLEAN, old : BOOLEAN, gone : BOOLEAN,
              list : SUBSET Messages]

StreamTypes ==
    /\ posted \in 0..MaxMessages
    /\ opened \subseteq 1..posted
    /\ visible \subseteq (1..posted) \ opened
    /\ unsaid \in Seq(StreamEvents)
    /\ feed \in Feeds
    /\ feed.state = "none" => ~feed.on /\ feed.buffer = <<>>
    /\ page \in PagesOfTheUser
    /\ reads \subseteq PageReads
    /\ streamsOff \in BOOLEAN
    /\ excused \subseteq Excuses

\* The bound on the messages is a number.
LEMMA MessagesAreNumbers == MaxMessages \in Nat /\ Messages = 1..MaxMessages
BY BoardAssumption DEF Messages

\* Without one of its events a sequence of events is still one.
LEMMA RemoveAtType ==
    ASSUME NEW s \in Seq(StreamEvents), NEW i \in DOMAIN s
    PROVE  RemoveAt(s, i) \in Seq(StreamEvents)
<1>1. i \in 1..Len(s)
    OBVIOUS
<1>2. SubSeq(s, 1, i - 1) \in Seq(StreamEvents)
    BY <1>1
<1>3. SubSeq(s, i + 1, Len(s)) \in Seq(StreamEvents)
    BY <1>1
<1> QED BY <1>2, <1>3 DEF RemoveAt

\* The first event is taken out: the others move up.
LEMMA RemoveFirstEvent ==
    ASSUME NEW s \in Seq(StreamEvents), s # <<>>
    PROVE  RemoveAt(s, 1) = Tail(s)
<1>1. SubSeq(s, 1, 0) = <<>>
    OBVIOUS
<1>2. SubSeq(s, 2, Len(s)) = Tail(s)
    OBVIOUS
<1>3. Tail(s) \in Seq(StreamEvents)
    OBVIOUS
<1>4. RemoveAt(s, 1) = SubSeq(s, 1, 0) \o SubSeq(s, 2, Len(s))
    BY DEF RemoveAt
<1> QED BY <1>1, <1>2, <1>3, <1>4

\* The requests a page starts and the ones it makes out of date are requests.
LEMMA ReadTypes ==
    ASSUME NEW R \in SUBSET PageReads
    PROVE  /\ \A n \in Messages \union {0} : Ask(n) \in PageReads
           /\ AskLatest(R) \subseteq PageReads
           /\ Outdated(R) \subseteq PageReads
<1>1. \A n \in Messages \union {0} : Ask(n) \in PageReads
    BY DEF Ask, PageReads
<1>2. \A r \in PageReads : [r EXCEPT !.old = TRUE] \in PageReads
    BY DEF PageReads
<1>3. AskLatest(R) \subseteq PageReads
    BY <1>1 DEF AskLatest
<1>4. Outdated(R) \subseteq PageReads
    BY <1>2 DEF Outdated
<1> QED BY <1>1, <1>3, <1>4

LEMMA FeedSwitched ==
    ASSUME NEW f \in Feeds, NEW b \in BOOLEAN
    PROVE  /\ LET g == [f EXCEPT !.on = b]
              IN  g \in Feeds /\ g.state = f.state /\ g.on = b /\ g.buffer = f.buffer
           /\ LET g == [f EXCEPT !.state = "subscribed", !.on = b]
              IN  g \in Feeds /\ g.state = "subscribed" /\ g.on = b /\ g.buffer = f.buffer
BY DEF Feeds

LEMMA FeedSent ==
    ASSUME NEW f \in Feeds, NEW e \in StreamEvents
    PROVE  LET g == [f EXCEPT !.buffer = Append(@, e)]
           IN  g \in Feeds /\ g.state = f.state /\ g.on = f.on /\ g.buffer = Append(f.buffer, e)
BY DEF Feeds

LEMMA FeedTaken ==
    ASSUME NEW f \in Feeds
    PROVE  /\ LET g == [f EXCEPT !.state = "open"]
              IN  g \in Feeds /\ g.state = "open" /\ g.on = f.on /\ g.buffer = f.buffer
           /\ f.buffer # <<>> => LET g == [f EXCEPT !.buffer = Tail(@)]
              IN  g \in Feeds /\ g.state = f.state /\ g.on = f.on /\ g.buffer = Tail(f.buffer)
BY DEF Feeds

LEMMA PageShows ==
    ASSUME NEW p \in PagesOfTheUser, NEW M \in SUBSET Messages
    PROVE  LET q == [p EXCEPT !.messages = M]
           IN  q \in PagesOfTheUser /\ q.messages = M /\ q.removed = p.removed /\ q.ready = p.ready
BY DEF PagesOfTheUser

LEMMA PageLoads ==
    ASSUME NEW p \in PagesOfTheUser, NEW M \in SUBSET Messages
    PROVE  /\ LET q == [p EXCEPT !.messages = M, !.ready = FALSE]
              IN  q \in PagesOfTheUser /\ q.messages = M /\ q.removed = p.removed /\ ~q.ready
           /\ LET q == [p EXCEPT !.ready = TRUE, !.messages = M]
              IN  q \in PagesOfTheUser /\ q.messages = M /\ q.removed = p.removed /\ q.ready
BY DEF PagesOfTheUser

LEMMA PageCounts ==
    ASSUME NEW p \in PagesOfTheUser
    PROVE  LET q == [p EXCEPT !.count = @ + 1]
           IN  q \in PagesOfTheUser /\ q.messages = p.messages /\ q.removed = p.removed /\ q.ready = p.ready
BY DEF PagesOfTheUser

LEMMA StreamInitTypes == BoardInit /\ StreamsInit => StreamTypes
<1> SUFFICES ASSUME BoardInit, StreamsInit PROVE StreamTypes
    OBVIOUS
<1>1. NoFeed \in Feeds /\ ~NoFeed.on /\ NoFeed.buffer = <<>>
    BY DEF NoFeed, Feeds
<1>2. page \in PagesOfTheUser
    BY DEF StreamsInit, PagesOfTheUser
<1>3. posted \in 0..MaxMessages /\ opened \subseteq 1..posted /\ visible \subseteq (1..posted) \ opened
    BY MessagesAreNumbers DEF BoardInit
<1>4. unsaid \in Seq(StreamEvents) /\ feed = NoFeed /\ reads \subseteq PageReads
    BY DEF StreamsInit
<1>5. streamsOff \in BOOLEAN /\ excused \subseteq Excuses
    BY DEF StreamsInit
<1> QED BY <1>1, <1>2, <1>3, <1>4, <1>5 DEF StreamTypes

LEMMA BoardStepTypes ==
    ASSUME StreamTypes,
           InsertForStream \/ (\E m \in Messages : PostCommits(m) \/ DeleteCommits(m)) \/ ClearCommits
    PROVE  StreamTypes'
<1> USE MessagesAreNumbers
<1>1. CASE InsertForStream
    <2>1. UNCHANGED <<unsaid, feed, page, reads, streamsOff, excused, visible>>
        BY <1>1 DEF InsertForStream, InsertMessage, streamVars
    <2>2. posted' = posted + 1 /\ posted' \in Messages /\ opened' = opened \union {posted + 1}
        BY <1>1 DEF InsertForStream, InsertMessage
    <2>3. posted \in Nat /\ posted' \in 0..MaxMessages
        BY <2>2 DEF StreamTypes
    <2>4. opened' \subseteq 1..posted' /\ visible' \subseteq (1..posted') \ opened'
        BY <2>1, <2>2, <2>3 DEF StreamTypes
    <2> QED BY <2>1, <2>3, <2>4 DEF StreamTypes
<1>2. ASSUME NEW m \in Messages, PostCommits(m)
      PROVE  StreamTypes'
    <2>1. UNCHANGED <<posted, feed, page, reads, streamsOff>>
        BY <1>2 DEF PostCommits, CommitMessage
    <2>2. opened' \subseteq 1..posted' /\ visible' \subseteq (1..posted') \ opened'
        BY <1>2 DEF PostCommits, CommitMessage, StreamTypes
    <2>3. [name |-> "created", m |-> m] \in StreamEvents
        BY DEF StreamEvents
    <2>4. unsaid' \in Seq(StreamEvents)
        BY <1>2, <2>3 DEF PostCommits, StreamTypes
    <2>5. excused' \subseteq Excuses
        BY <1>2 DEF PostCommits, Excuse, Excuses, StreamTypes
    <2> QED BY <2>1, <2>2, <2>4, <2>5 DEF StreamTypes
<1>3. ASSUME NEW m \in Messages, DeleteCommits(m)
      PROVE  StreamTypes'
    <2>1. UNCHANGED <<posted, opened, feed, page, reads, streamsOff, excused>>
        BY <1>3 DEF DeleteCommits, DeleteMessage
    <2>2. visible' \subseteq (1..posted') \ opened'
        BY <1>3 DEF DeleteCommits, DeleteMessage, StreamTypes
    <2>3. [name |-> "deleted", m |-> m] \in StreamEvents
        BY DEF StreamEvents
    <2>4. unsaid' \in Seq(StreamEvents)
        BY <1>3, <2>3 DEF DeleteCommits, StreamTypes
    <2> QED BY <2>1, <2>2, <2>4 DEF StreamTypes
<1>4. CASE ClearCommits
    <2>1. UNCHANGED <<posted, opened, feed, page, reads, streamsOff, excused>>
        BY <1>4 DEF ClearCommits, ClearMessages
    <2>2. visible' \subseteq (1..posted') \ opened'
        BY <1>4 DEF ClearCommits, ClearMessages
    <2>3. [name |-> "cleared", m |-> 0] \in StreamEvents
        BY DEF StreamEvents
    <2>4. unsaid' \in Seq(StreamEvents)
        BY <1>4, <2>3 DEF ClearCommits, StreamTypes
    <2> QED BY <2>1, <2>2, <2>4 DEF StreamTypes
<1> QED BY <1>1, <1>2, <1>3, <1>4

\* A subscription that is off or was never made is left alone, one with room gets the
\* event, one without is dropped.
LEMMA PublishEffect ==
    ASSUME StreamTypes, NEW i \in DOMAIN unsaid, PublishEvent(i)
    PROVE  /\ unsaid[i] \in StreamEvents
           /\ unsaid' \in Seq(StreamEvents)
           /\ feed' \in Feeds
           /\ feed'.state = feed.state
           /\ \/ ~feed.on /\ feed' = feed
              \/ feed.on /\ feed'.on /\ feed'.buffer = Append(feed.buffer, unsaid[i])
              \/ feed.on /\ ~feed'.on /\ feed'.buffer = feed.buffer
           /\ feed'.state = "none" => ~feed'.on /\ feed'.buffer = <<>>
           /\ excused' = Excuse("gap", i > 1)
           /\ UNCHANGED <<page, reads, streamsOff>>
<1>1. unsaid[i] \in StreamEvents
    BY DEF StreamTypes
<1>2. unsaid' \in Seq(StreamEvents)
    BY RemoveAtType DEF PublishEvent, StreamTypes
<1>3. feed' = SendOrDrop(unsaid[i]) /\ excused' = Excuse("gap", i > 1)
    BY DEF PublishEvent
<1>4. UNCHANGED <<page, reads, streamsOff>>
    BY DEF PublishEvent
<1>5. feed \in Feeds /\ (feed.state = "none" => ~feed.on /\ feed.buffer = <<>>) /\ feed.on \in BOOLEAN
    BY DEF StreamTypes, Feeds
<1>7. CASE ~feed.on
    <2>1. feed' = feed
        BY <1>3, <1>7 DEF SendOrDrop
    <2> QED BY <1>1, <1>2, <1>3, <1>4, <1>5, <1>7, <2>1
<1>8. CASE feed.on /\ Len(feed.buffer) < StreamBuffer
    <2>1. feed' = [feed EXCEPT !.buffer = Append(@, unsaid[i])]
        BY <1>3, <1>8 DEF SendOrDrop
    <2>2. /\ feed' \in Feeds /\ feed'.state = feed.state /\ feed'.on = feed.on
          /\ feed'.buffer = Append(feed.buffer, unsaid[i])
        BY <2>1, <1>1, <1>5, FeedSent
    <2>3. feed.state # "none"
        BY <1>5, <1>8
    <2> QED BY <1>1, <1>2, <1>3, <1>4, <1>8, <2>2, <2>3
<1>9. CASE feed.on /\ ~(Len(feed.buffer) < StreamBuffer)
    <2>1. feed' = [feed EXCEPT !.on = FALSE]
        BY <1>3, <1>9 DEF SendOrDrop
    <2>2. feed' \in Feeds /\ feed'.state = feed.state /\ feed'.on = FALSE /\ feed'.buffer = feed.buffer
        BY <2>1, <1>1, <1>5, FeedSwitched
    <2>3. feed.state # "none"
        BY <1>5, <1>9
    <2> QED BY <1>1, <1>2, <1>3, <1>4, <1>9, <2>2, <2>3
<1> QED BY <1>7, <1>8, <1>9

LEMMA CloseEffect ==
    ASSUME StreamTypes, CloseStreams
    PROVE  /\ feed' \in Feeds
           /\ feed'.state = feed.state /\ ~feed'.on /\ feed'.buffer = feed.buffer
           /\ feed'.state = "none" => ~feed'.on /\ feed'.buffer = <<>>
           /\ streamsOff' \in BOOLEAN
           /\ UNCHANGED <<unsaid, page, reads, excused>>
<1>1. feed \in Feeds /\ (feed.state = "none" => ~feed.on /\ feed.buffer = <<>>)
    BY DEF StreamTypes
<1>3. feed' = [feed EXCEPT !.on = FALSE] /\ streamsOff' = TRUE /\ UNCHANGED <<unsaid, page, reads, excused>>
    BY DEF CloseStreams
<1>4. feed' \in Feeds /\ feed'.state = feed.state /\ feed'.on = FALSE /\ feed'.buffer = feed.buffer
    BY <1>1, <1>3, FeedSwitched
<1> QED BY <1>1, <1>3, <1>4

LEMMA SubscribeEffect ==
    ASSUME StreamTypes, Subscribe
    PROVE  /\ feed' \in Feeds /\ feed'.state = "subscribed" /\ feed'.buffer = <<>>
           /\ page' \in PagesOfTheUser
           /\ page'.messages = page.messages /\ page'.removed = page.removed /\ page'.ready = page.ready
           /\ UNCHANGED <<unsaid, reads, streamsOff, excused>>
<1>1. feed \in Feeds /\ feed.buffer = <<>> /\ page \in PagesOfTheUser /\ (~streamsOff) \in BOOLEAN
    BY DEF StreamTypes, Subscribe
<1>3. feed' = [feed EXCEPT !.state = "subscribed", !.on = ~streamsOff] /\ UNCHANGED <<unsaid, reads, streamsOff, excused>>
    BY DEF Subscribe
<1>4. page' = [page EXCEPT !.count = @ + 1]
    BY DEF Subscribe
<1>5. feed' \in Feeds /\ feed'.state = "subscribed" /\ feed'.buffer = feed.buffer
    BY <1>1, <1>3, FeedSwitched
<1>6. {} \in SUBSET Messages /\ TRUE \in BOOLEAN
    OBVIOUS
<1>7. /\ page' \in PagesOfTheUser
      /\ page'.messages = page.messages /\ page'.removed = page.removed /\ page'.ready = page.ready
    BY <1>1, <1>4, <1>6, PageCounts
<1> QED BY <1>1, <1>3, <1>5, <1>7

LEMMA RefusedEffect ==
    ASSUME StreamTypes, Refused
    PROVE  /\ page' \in PagesOfTheUser
           /\ page'.messages = page.messages /\ page'.removed = page.removed /\ page'.ready = page.ready
           /\ reads' = IF page.ready THEN reads ELSE AskLatest(reads)
           /\ reads' \subseteq PageReads
           /\ UNCHANGED <<unsaid, feed, streamsOff, excused>>
<1>1. page \in PagesOfTheUser /\ {} \in SUBSET Messages /\ TRUE \in BOOLEAN
    BY DEF StreamTypes
<1>2. page' = [page EXCEPT !.count = @ + 1]
    BY DEF Refused
<1>3. /\ page' \in PagesOfTheUser
      /\ page'.messages = page.messages /\ page'.removed = page.removed /\ page'.ready = page.ready
    BY <1>1, <1>2, PageCounts
<1>4. reads' = (IF page.ready THEN reads ELSE AskLatest(reads)) /\ UNCHANGED <<unsaid, feed, streamsOff, excused>>
    BY DEF Refused
<1>5. reads' \subseteq PageReads
    BY <1>4, ReadTypes DEF StreamTypes
<1> QED BY <1>3, <1>4, <1>5

\* The oldest message of a page is one of them.
LEMMA OldestIsLeast ==
    ASSUME NEW S \in SUBSET Messages, S # {}
    PROVE  Min(S) \in S /\ \A m \in S : Min(S) <= m
<1> USE MessagesAreNumbers
<1> DEFINE R == OpToRel(<, Nat)
<1>1. IsWellFoundedOn(R, Nat)
    BY NatLessThanWellFounded
<1>2. S \subseteq Nat
    OBVIOUS
<1>3. PICK x \in S : \A y \in S : <<y, x>> \notin R
    BY <1>1, <1>2, WFMin, Zenon
<1>4. \A y \in S : ~ (y < x)
    BY <1>2, <1>3 DEF OpToRel
<1>5. \E z \in S : \A y \in S : z =< y
    BY <1>2, <1>4
<1>6. Min(S) \in S /\ \A y \in S : Min(S) =< y
    BY <1>5 DEF Min
<1> QED BY <1>6

LEMMA ReloadEffect ==
    ASSUME StreamTypes, NEW R \in SUBSET PageReads, Reload(R)
    PROVE  /\ page' \in PagesOfTheUser
           /\ page'.messages = {} /\ page'.removed = page.removed /\ ~page'.ready
           /\ reads' = AskLatest(Outdated(R))
           /\ reads' \subseteq PageReads
<1>1. page \in PagesOfTheUser /\ {} \in SUBSET Messages /\ FALSE \in BOOLEAN
    BY DEF StreamTypes
<1>2. page' = [page EXCEPT !.messages = {}, !.ready = FALSE] /\ reads' = AskLatest(Outdated(R))
    BY DEF Reload
<1>3. page' \in PagesOfTheUser /\ page'.messages = {} /\ page'.removed = page.removed /\ ~page'.ready
    BY <1>1, <1>2, PageLoads
<1>4. reads' \subseteq PageReads
    BY <1>2, ReadTypes
<1> QED BY <1>2, <1>3, <1>4

LEMMA OpensEffect ==
    ASSUME StreamTypes, Opens
    PROVE  /\ feed' \in Feeds /\ feed'.state = "open" /\ feed'.on = feed.on /\ feed'.buffer = feed.buffer
           /\ excused' = Excuse("overtaken", Overtakes)
           /\ UNCHANGED <<unsaid, streamsOff>>
           /\ page' \in PagesOfTheUser /\ page'.removed = page.removed
           /\ reads' \subseteq PageReads
           /\ \/ ~page.ready /\ page' = page /\ reads' = AskLatest(reads)
              \/ /\ page.ready /\ page'.messages = {} /\ ~page'.ready
                 /\ reads' = AskLatest(Outdated(reads))
              \/ /\ page.ready /\ page.messages # {} /\ page' = page
                 /\ reads' = reads \union {Ask(Min(page.messages))}
<1>1. feed \in Feeds /\ page \in PagesOfTheUser /\ reads \in SUBSET PageReads /\ page.messages \in SUBSET Messages
      /\ page.ready \in BOOLEAN
    BY DEF StreamTypes, PagesOfTheUser
<1>2. feed' = [feed EXCEPT !.state = "open"] /\ excused' = Excuse("overtaken", Overtakes) /\ UNCHANGED <<unsaid, streamsOff>>
    BY DEF Opens
<1>3. feed' \in Feeds /\ feed'.state = "open" /\ feed'.on = feed.on /\ feed'.buffer = feed.buffer
    BY <1>1, <1>2, FeedTaken
<1>4. CASE ~page.ready
    <2>1. page' = page /\ reads' = AskLatest(reads)
        BY <1>4 DEF Opens
    <2>2. reads' \subseteq PageReads
        BY <1>1, <2>1, ReadTypes
    <2> QED BY <1>1, <1>2, <1>3, <1>4, <2>1, <2>2
<1>5. CASE page.ready /\ page.messages = {}
    <2>1. Reload(reads)
        BY <1>5 DEF Opens
    <2> QED BY <1>1, <1>2, <1>3, <1>5, <2>1, ReloadEffect
<1>6. CASE page.ready /\ page.messages # {}
    <2>1. page' = page /\ reads' = reads \union {Ask(Min(page.messages))}
        BY <1>6 DEF Opens
    <2>2. Min(page.messages) \in Messages
        BY <1>1, <1>6, OldestIsLeast
    <2>3. Ask(Min(page.messages)) \in PageReads
        BY <1>1, <2>2, ReadTypes
    <2>4. reads' \subseteq PageReads
        BY <1>1, <2>1, <2>3
    <2> QED BY <1>1, <1>2, <1>3, <1>6, <2>1, <2>4
<1> QED BY <1>4, <1>5, <1>6

LEMMA PushedEffect ==
    ASSUME StreamTypes, Pushed
    PROVE  /\ feed.state = "open" /\ feed.buffer # <<>>
           /\ feed' \in Feeds /\ feed'.state = "open" /\ feed'.on = feed.on /\ feed'.buffer = Tail(feed.buffer)
           /\ page' \in PagesOfTheUser /\ page'.ready = page.ready
           /\ reads' \subseteq PageReads
           /\ UNCHANGED <<unsaid, streamsOff, excused>>
           /\ feed.buffer[1] \in StreamEvents
           /\ \/ /\ feed.buffer[1].name = "created"
                 /\ page'.messages = page.messages \union ({feed.buffer[1].m} \ page.removed)
                 /\ page'.removed = page.removed /\ reads' = reads
              \/ /\ feed.buffer[1].name = "deleted"
                 /\ page'.messages = page.messages \ {feed.buffer[1].m}
                 /\ page'.removed = page.removed \union {feed.buffer[1].m} /\ reads' = reads
              \/ /\ feed.buffer[1].name = "cleared" /\ page'.messages = {}
                 /\ page'.removed = page.removed /\ reads' = Outdated(reads)
<1> DEFINE e == feed.buffer[1]
<1>1. /\ feed \in Feeds /\ page \in PagesOfTheUser /\ reads \in SUBSET PageReads
      /\ page.messages \in SUBSET Messages /\ page.removed \in SUBSET Messages
      /\ feed.buffer \in Seq(StreamEvents)
    BY DEF StreamTypes, PagesOfTheUser, Feeds
<1>2. /\ feed.state = "open" /\ feed.buffer # <<>> /\ feed' = [feed EXCEPT !.buffer = Tail(@)]
      /\ UNCHANGED <<unsaid, streamsOff, excused>>
    BY DEF Pushed
<1>3. Head(feed.buffer) = e /\ e \in StreamEvents
    BY <1>1, <1>2
<1>4. /\ page' = CASE e.name = "created" -> [page EXCEPT !.messages = @ \union ({e.m} \ page.removed)]
                   [] e.name = "deleted" -> [page EXCEPT !.messages = @ \ {e.m}, !.removed = @ \union {e.m}]
                   [] e.name = "cleared" -> [page EXCEPT !.messages = {}]
      /\ reads' = IF e.name = "cleared" THEN Outdated(reads) ELSE reads
    BY <1>3 DEF Pushed
<1>5. feed' \in Feeds /\ feed'.state = "open" /\ feed'.on = feed.on /\ feed'.buffer = Tail(feed.buffer)
    BY <1>1, <1>2, FeedTaken
<1> HIDE DEF e
<1>6. CASE e.name = "created"
    <2> DEFINE M == page.messages \union ({e.m} \ page.removed)
    <2>1. M \in SUBSET Messages
        BY <1>1, <1>3, <1>6 DEF StreamEvents
    <2>2. page' = [page EXCEPT !.messages = M] /\ reads' = reads
        BY <1>4, <1>6
    <2> HIDE DEF M
    <2>3. page' \in PagesOfTheUser /\ page'.messages = M /\ page'.removed = page.removed /\ page'.ready = page.ready
        BY <1>1, <2>1, <2>2, PageShows
    <2> QED BY <1>1, <1>2, <1>3, <1>5, <1>6, <2>2, <2>3 DEF M, e
<1>7. CASE e.name = "deleted"
    <2> DEFINE M == page.messages \ {e.m}
               D == page.removed \union {e.m}
    <2>1. M \in SUBSET Messages /\ D \in SUBSET Messages
        BY <1>1, <1>3, <1>7 DEF StreamEvents
    <2>2. page' = [page EXCEPT !.messages = M, !.removed = D] /\ reads' = reads
        BY <1>4, <1>7
    <2> HIDE DEF M, D
    <2>3. page' \in PagesOfTheUser /\ page'.messages = M /\ page'.removed = D /\ page'.ready = page.ready
        BY <1>1, <2>1, <2>2 DEF PagesOfTheUser
    <2> QED BY <1>1, <1>2, <1>3, <1>5, <1>7, <2>2, <2>3 DEF M, D, e
<1>8. CASE e.name = "cleared"
    <2>1. page' = [page EXCEPT !.messages = {}] /\ reads' = Outdated(reads)
        BY <1>4, <1>8
    <2>2. {} \in SUBSET Messages
        OBVIOUS
    <2>3. page' \in PagesOfTheUser /\ page'.messages = {} /\ page'.removed = page.removed /\ page'.ready = page.ready
        BY <1>1, <2>1, <2>2, PageShows
    <2>4. reads' \subseteq PageReads
        BY <1>1, <2>1, ReadTypes
    <2> QED BY <1>1, <1>2, <1>3, <1>5, <1>8, <2>1, <2>3, <2>4 DEF e
<1>9. e.name \in {"created", "deleted", "cleared"}
    BY <1>3 DEF StreamEvents
<1> QED BY <1>6, <1>7, <1>8, <1>9

LEMMA VisibleMessages ==
    ASSUME StreamTypes
    PROVE  visible \subseteq Messages /\ opened \subseteq Messages /\ posted \in Nat
<1>1. posted \in Nat /\ posted <= MaxMessages
    BY MessagesAreNumbers DEF StreamTypes
<1>2. 1..posted \subseteq Messages
    BY <1>1, MessagesAreNumbers
<1> QED BY <1>1, <1>2 DEF StreamTypes

LEMMA AnswerEffect ==
    ASSUME StreamTypes, NEW r \in reads, BoardAnswers(r)
    PROVE  \E a \in PageReads :
             /\ a.from = r.from /\ a.answered /\ a.old = r.old
             /\ a.gone = (r.from \notin visible \union {0}) /\ a.list = ListMessages(r.from)
             /\ reads' = (reads \ {r}) \union {a}
             /\ UNCHANGED <<unsaid, feed, page, streamsOff, excused>>
<1> DEFINE a == [r EXCEPT !.answered = TRUE, !.gone = r.from \notin visible \union {0}, !.list = ListMessages(r.from)]
<1>1. r \in PageReads
    BY DEF StreamTypes
<1>2. ListMessages(r.from) \in SUBSET Messages
    BY VisibleMessages DEF ListMessages
<1>3. (r.from \notin visible \union {0}) \in BOOLEAN
    OBVIOUS
<1>4. /\ a \in PageReads /\ a.from = r.from /\ a.answered /\ a.old = r.old
      /\ a.gone = (r.from \notin visible \union {0}) /\ a.list = ListMessages(r.from)
    BY <1>1, <1>2, <1>3 DEF PageReads
<1>5. reads' = (reads \ {r}) \union {a} /\ UNCHANGED <<unsaid, feed, page, streamsOff, excused>>
    BY DEF BoardAnswers
<1> QED BY <1>4, <1>5

LEMMA LoadEffect ==
    ASSUME StreamTypes, NEW r \in reads, LoadApplies(r)
    PROVE  /\ r.answered /\ r.from = 0 /\ reads' = reads \ {r}
           /\ page' \in PagesOfTheUser /\ page'.removed = page.removed /\ page'.ready
           /\ page'.messages = IF r.old THEN page.messages ELSE page.messages \union (r.list \ page.removed)
           /\ UNCHANGED <<unsaid, feed, streamsOff, excused>>
<1> DEFINE M == IF r.old THEN page.messages ELSE page.messages \union (r.list \ page.removed)
<1>1. r \in PageReads /\ page \in PagesOfTheUser
    BY DEF StreamTypes
<1>2. M \in SUBSET Messages
    BY <1>1 DEF PageReads, PagesOfTheUser
<1>3. page' = [page EXCEPT !.ready = TRUE, !.messages = M]
    BY DEF LoadApplies
<1>4. r.answered /\ r.from = 0 /\ reads' = reads \ {r} /\ UNCHANGED <<unsaid, feed, streamsOff, excused>>
    BY DEF LoadApplies
<1> HIDE DEF M
<1>5. page' \in PagesOfTheUser /\ page'.messages = M /\ page'.removed = page.removed /\ page'.ready
    BY <1>1, <1>2, <1>3, PageLoads
<1> QED BY <1>4, <1>5 DEF M

LEMMA ResyncEffect ==
    ASSUME StreamTypes, NEW r \in reads, ResyncApplies(r)
    PROVE  /\ r.answered /\ r.from # 0
           /\ page' \in PagesOfTheUser /\ page'.removed = page.removed
           /\ reads' \subseteq PageReads
           /\ UNCHANGED <<unsaid, feed, streamsOff, excused>>
           /\ \/ /\ r.gone /\ ~r.old /\ page'.messages = {} /\ ~page'.ready
                 /\ reads' = AskLatest(Outdated(reads \ {r}))
              \/ r.old /\ page' = page /\ reads' = reads \ {r}
              \/ /\ ~r.gone /\ ~r.old /\ page'.ready = page.ready /\ reads' = reads \ {r}
                 /\ page'.messages = FreshAndPushed(r) \ page.removed
<1>1. r \in PageReads /\ page \in PagesOfTheUser /\ reads \in SUBSET PageReads
    BY DEF StreamTypes
<1>2. r.answered /\ r.from # 0 /\ UNCHANGED <<unsaid, feed, streamsOff, excused>>
    BY DEF ResyncApplies
<1>3. r.gone \in BOOLEAN /\ r.old \in BOOLEAN /\ r.from \in Messages /\ r.list \subseteq Messages
    BY <1>1, <1>2 DEF PageReads
<1>4. CASE r.gone /\ ~r.old
    <2>1. Reload(reads \ {r})
        BY <1>4 DEF ResyncApplies
    <2>2. reads \ {r} \in SUBSET PageReads
        BY <1>1
    <2> QED BY <1>2, <1>4, <2>1, <2>2, ReloadEffect
<1>5. CASE r.old
    <2>1. page' = page /\ reads' = reads \ {r}
        BY <1>5 DEF ResyncApplies
    <2> QED BY <1>1, <1>2, <1>5, <2>1
<1>6. CASE ~r.gone /\ ~r.old
    <2> DEFINE M == FreshAndPushed(r) \ page.removed
    <2>1. page' = [page EXCEPT !.messages = M] /\ reads' = reads \ {r}
        BY <1>6 DEF ResyncApplies
    <2>2. M \in SUBSET Messages
        BY <1>1, <1>3 DEF FreshAndPushed, PagesOfTheUser
    <2> HIDE DEF M
    <2>3. page' \in PagesOfTheUser /\ page'.messages = M /\ page'.removed = page.removed /\ page'.ready = page.ready
        BY <1>1, <2>1, <2>2, PageShows
    <2> QED BY <1>1, <1>2, <1>6, <2>1, <2>3 DEF M
<1> QED BY <1>3, <1>4, <1>5, <1>6

LEMMA PageStepTypes ==
    ASSUME StreamTypes, PageStep, UNCHANGED boardVars
    PROVE  StreamTypes'
<1>1. UNCHANGED <<posted, byUser, opened, visible>>
    BY DEF boardVars
<1>2. ASSUME NEW i \in DOMAIN unsaid, PublishEvent(i) PROVE StreamTypes'
    <2>1. excused' \subseteq Excuses
        BY <1>2, PublishEffect DEF Excuse, Excuses, StreamTypes
    <2> QED BY <1>1, <1>2, <2>1, PublishEffect DEF StreamTypes
<1>3. CASE CloseStreams
    BY <1>1, <1>3, CloseEffect DEF StreamTypes
<1>4. CASE Subscribe
    BY <1>1, <1>4, SubscribeEffect DEF StreamTypes
<1>5. CASE Refused
    BY <1>1, <1>5, RefusedEffect DEF StreamTypes
<1>6. CASE Opens
    <2>1. excused' \subseteq Excuses
        BY <1>6, OpensEffect DEF Excuse, Excuses, StreamTypes
    <2> QED BY <1>1, <1>6, <2>1, OpensEffect DEF StreamTypes
<1>7. CASE StreamEnds
    <2>1. NoFeed \in Feeds /\ ~NoFeed.on /\ NoFeed.buffer = <<>>
        BY DEF NoFeed, Feeds
    <2>2. feed' = NoFeed /\ UNCHANGED <<unsaid, page, reads, streamsOff, excused>>
        BY <1>7 DEF StreamEnds
    <2> QED BY <1>1, <2>1, <2>2 DEF StreamTypes
<1>8. CASE Pushed
    BY <1>1, <1>8, PushedEffect DEF StreamTypes
<1>9. CASE StartAgain
    <2>1. reads' = {Ask(0)} /\ UNCHANGED <<unsaid, feed, page, streamsOff, excused>>
        BY <1>9 DEF StartAgain
    <2>2. Ask(0) \in PageReads
        BY ReadTypes DEF StreamTypes
    <2> QED BY <1>1, <2>1, <2>2 DEF StreamTypes
<1>10. ASSUME NEW r \in reads, BoardAnswers(r) PROVE StreamTypes'
    BY <1>1, <1>10, AnswerEffect DEF StreamTypes
<1>11. ASSUME NEW r \in reads, LoadApplies(r) PROVE StreamTypes'
    BY <1>1, <1>11, LoadEffect DEF StreamTypes
<1>12. ASSUME NEW r \in reads, ResyncApplies(r) PROVE StreamTypes'
    BY <1>1, <1>12, ResyncEffect DEF StreamTypes
<1>13. ASSUME NEW r \in reads, ReadFails(r) PROVE StreamTypes'
    <2>1. reads' = reads \ {r} /\ excused' = Excuse("gap", r.from # 0) /\ UNCHANGED <<unsaid, feed, page, streamsOff>>
        BY <1>13 DEF ReadFails
    <2>2. excused' \subseteq Excuses
        BY <2>1 DEF Excuse, Excuses, StreamTypes
    <2> QED BY <1>1, <2>1, <2>2 DEF StreamTypes
<1> QED BY <1>2, <1>3, <1>4, <1>5, <1>6, <1>7, <1>8, <1>9, <1>10, <1>11, <1>12, <1>13 DEF PageStep

-----------------------------------------------------------------------------
(* What a sequence of events says, and in which order *)

Creates(e, m) == e.name = "created" /\ e.m = m

Says(s, m) == \E i \in DOMAIN s : Creates(s[i], m)

SaysAfter(s, k, m) == \E i \in DOMAIN s : k < i /\ Creates(s[i], m)

InOrder(s) == \A i, j \in DOMAIN s, m, n \in Messages : i < j /\ Creates(s[i], m) /\ Creates(s[j], n) => m < n

Precedes(s, t) == \A m, n \in Messages : Says(s, m) /\ Says(t, n) => m < n

LEMMA AppendFacts ==
    ASSUME NEW s \in Seq(StreamEvents), NEW e \in StreamEvents
    PROVE  /\ \A i \in DOMAIN s : i \in DOMAIN Append(s, e) /\ Append(s, e)[i] = s[i] /\ i < Len(s) + 1 /\ i \in Nat
           /\ \A i \in DOMAIN Append(s, e) : i \in DOMAIN s \/ i = Len(s) + 1
           /\ Len(s) + 1 \in DOMAIN Append(s, e) /\ Append(s, e)[Len(s) + 1] = e
OBVIOUS

LEMMA TailFacts ==
    ASSUME NEW s \in Seq(StreamEvents), s # <<>>
    PROVE  /\ 1 \in DOMAIN s
           /\ \A i \in DOMAIN Tail(s) : i \in Nat /\ i + 1 \in DOMAIN s /\ Tail(s)[i] = s[i + 1] /\ 1 < i + 1
           /\ \A i \in DOMAIN s : i \in Nat /\ (i # 1 => 1 < i /\ i - 1 \in DOMAIN Tail(s) /\ Tail(s)[i - 1] = s[i])
<1>1. s \in Seq(StreamEvents) /\ Len(s) \in Nat /\ Len(s) # 0
    OBVIOUS
<1>2. Tail(s) \in Seq(StreamEvents) /\ Len(Tail(s)) = Len(s) - 1
    OBVIOUS
<1>3. \A i \in 1..(Len(s) - 1) : Tail(s)[i] = s[i + 1]
    OBVIOUS
<1>4. DOMAIN s = 1..Len(s) /\ DOMAIN Tail(s) = 1..(Len(s) - 1)
    BY <1>1, <1>2
<1>5. \A i \in DOMAIN s : i # 1 => i - 1 \in 1..(Len(s) - 1) /\ Tail(s)[i - 1] = s[i] /\ 1 < i
    <2> SUFFICES ASSUME NEW i \in DOMAIN s, i # 1
                 PROVE  i - 1 \in 1..(Len(s) - 1) /\ Tail(s)[i - 1] = s[i] /\ 1 < i
        OBVIOUS
    <2>1. i - 1 \in 1..(Len(s) - 1) /\ 1 < i /\ (i - 1) + 1 = i
        BY <1>1, <1>4
    <2>2. Tail(s)[i - 1] = s[(i - 1) + 1]
        BY <1>3, <2>1
    <2> QED BY <2>1, <2>2
<1>6. 1 \in DOMAIN s
    BY <1>1, <1>4
<1>7. \A i \in DOMAIN Tail(s) : i \in Nat /\ i + 1 \in DOMAIN s /\ Tail(s)[i] = s[i + 1] /\ 1 < i + 1
    BY <1>1, <1>3, <1>4
<1>8. \A i \in DOMAIN s : i \in Nat
    BY <1>4
<1>9. \A i \in DOMAIN s : i \in Nat /\ (i # 1 => 1 < i /\ i - 1 \in DOMAIN Tail(s) /\ Tail(s)[i - 1] = s[i])
    BY <1>4, <1>5, <1>8
<1> QED BY <1>6, <1>7, <1>9

LEMMA AppendSays ==
    ASSUME NEW s \in Seq(StreamEvents), NEW e \in StreamEvents
    PROVE  /\ \A m : Says(Append(s, e), m) <=> (Says(s, m) \/ Creates(e, m))
           /\ \A k \in DOMAIN s : \A m : SaysAfter(Append(s, e), k, m) <=> (SaysAfter(s, k, m) \/ Creates(e, m))
           /\ \A m : ~SaysAfter(Append(s, e), Len(s) + 1, m)
           /\ InOrder(s) /\ (\A m, n \in Messages : Says(s, m) /\ Creates(e, n) => m < n) => InOrder(Append(s, e))
<1>1. \A m : Says(Append(s, e), m) <=> (Says(s, m) \/ Creates(e, m))
    BY AppendFacts DEF Says
<1>2. \A k \in DOMAIN s : \A m : SaysAfter(Append(s, e), k, m) <=> (SaysAfter(s, k, m) \/ Creates(e, m))
    BY AppendFacts DEF SaysAfter
<1>3. \A m : ~SaysAfter(Append(s, e), Len(s) + 1, m)
    BY AppendFacts DEF SaysAfter
<1>4. InOrder(s) /\ (\A m, n \in Messages : Says(s, m) /\ Creates(e, n) => m < n) => InOrder(Append(s, e))
    BY AppendFacts DEF InOrder, Says
<1> QED BY <1>1, <1>2, <1>3, <1>4

LEMMA TailSays ==
    ASSUME NEW s \in Seq(StreamEvents), s # <<>>
    PROVE  /\ \A m : Says(s, m) <=> (Creates(s[1], m) \/ Says(Tail(s), m))
           /\ \A k \in DOMAIN Tail(s) : \A m : SaysAfter(Tail(s), k, m) <=> SaysAfter(s, k + 1, m)
           /\ \A m : SaysAfter(s, 1, m) <=> Says(Tail(s), m)
           /\ InOrder(s) => InOrder(Tail(s))
           /\ InOrder(s) => \A m, n \in Messages : Creates(s[1], m) /\ Says(Tail(s), n) => m < n
<1>1. \A m : Says(s, m) <=> (Creates(s[1], m) \/ Says(Tail(s), m))
    BY TailFacts DEF Says
<1>2. \A k \in DOMAIN Tail(s) : \A m : SaysAfter(Tail(s), k, m) <=> SaysAfter(s, k + 1, m)
    <2> SUFFICES ASSUME NEW k \in DOMAIN Tail(s), NEW m
                 PROVE  SaysAfter(Tail(s), k, m) <=> SaysAfter(s, k + 1, m)
        OBVIOUS
    <2>1. k \in Nat /\ 1 < k + 1
        BY TailFacts
    <2>2. ASSUME SaysAfter(Tail(s), k, m) PROVE SaysAfter(s, k + 1, m)
        <3>1. PICK i \in DOMAIN Tail(s) : k < i /\ Creates(Tail(s)[i], m)
            BY <2>2 DEF SaysAfter
        <3>2. i \in Nat /\ i + 1 \in DOMAIN s /\ Tail(s)[i] = s[i + 1]
            BY TailFacts
        <3>3. k + 1 < i + 1 /\ Creates(s[i + 1], m)
            BY <2>1, <3>1, <3>2
        <3> QED BY <3>2, <3>3 DEF SaysAfter
    <2>3. ASSUME SaysAfter(s, k + 1, m) PROVE SaysAfter(Tail(s), k, m)
        <3>1. PICK i \in DOMAIN s : k + 1 < i /\ Creates(s[i], m)
            BY <2>3 DEF SaysAfter
        <3>2. i \in Nat /\ i - 1 \in DOMAIN Tail(s) /\ Tail(s)[i - 1] = s[i]
            BY <2>1, <3>1, TailFacts
        <3>3. k < i - 1 /\ Creates(Tail(s)[i - 1], m)
            BY <2>1, <3>1, <3>2
        <3> QED BY <3>2, <3>3 DEF SaysAfter
    <2> QED BY <2>2, <2>3
<1>3. \A m : SaysAfter(s, 1, m) <=> Says(Tail(s), m)
    BY TailFacts DEF SaysAfter, Says
<1>4. InOrder(s) => InOrder(Tail(s))
    BY TailFacts DEF InOrder
<1>5. InOrder(s) => \A m, n \in Messages : Creates(s[1], m) /\ Says(Tail(s), n) => m < n
    BY TailFacts DEF InOrder, Says
<1> QED BY <1>1, <1>2, <1>3, <1>4, <1>5

-----------------------------------------------------------------------------
(* The inductive invariant of the streams *)

Committed == (1..posted) \ opened

\* Pages, requests and events only know messages that were committed, and only
\* those that are gone as deleted.
KnownInv ==
    /\ page.messages \subseteq Committed
    /\ page.removed \subseteq Committed \ visible
    /\ \A r \in reads : r.list \subseteq Committed /\ r.from \in Committed \union {0}
    /\ \A m \in Messages : Says(unsaid, m) \/ Says(feed.buffer, m) => m \in Committed
    /\ \A s \in {unsaid, feed.buffer} : \A i \in DOMAIN s : s[i].name = "deleted" => s[i].m \in Committed \ visible

\* Events wait in the order of created_at.
OrderInv ==
    /\ InOrder(unsaid) /\ InOrder(feed.buffer)
    /\ feed.on => Precedes(feed.buffer, unsaid)

\* A message that is there was created after every clearing that waits; of a
\* subscription that was dropped, the events that are left are without a gap.
ClearsInv ==
    /\ \A k \in DOMAIN unsaid : unsaid[k].name = "cleared" => \A m \in visible : SaysAfter(unsaid, k, m)
    /\ \A k \in DOMAIN feed.buffer : feed.buffer[k].name = "cleared" => \A m \in visible :
          /\ feed.on => SaysAfter(feed.buffer, k, m) \/ Says(unsaid, m)
          /\ \A p \in Messages : SaysAfter(feed.buffer, k, p) /\ m < p => SaysAfter(feed.buffer, k, m)

\* Nothing of V is missed by a page that shows P and was told G by the board: what is
\* not in G is newer, P has no gap above G, neither has what is pushed, and
\* while the subscription lasts the rest will be pushed.
Complete(V, P, f, s, G) ==
    \A m \in V \ G :
        /\ \A g \in G : g < m
        /\ \A p \in P : m < p => m \in P
        /\ f.state = "open" =>
             /\ \A p \in Messages : Says(f.buffer, p) /\ m < p => m \in P \/ Says(f.buffer, m)
             /\ f.on => m \in P \/ Says(f.buffer, m) \/ Says(s, m)

Got(r) == IF r.from = 0 THEN r.list ELSE r.list \union {r.from}

Resyncs == {r \in reads : r.from # 0 /\ ~r.old}

\* There is one load, of a page that is not ready, and one resync, which starts before
\* every message; an answer completes the page, or it is complete already.
ReadsInv ==
    /\ \A r \in reads : r.from = 0 => ~page.ready /\ ~r.gone
    /\ \A r, q \in reads : r.from = 0 /\ q.from = 0 => r = q
    /\ \A r, q \in Resyncs : r = q
    /\ \A r \in Resyncs : page.ready /\ \A m \in visible : r.from <= m
    /\ \A r \in reads : r.answered /\ ~r.gone /\ ~r.old => Complete(visible, page.messages, feed, unsaid, Got(r))
    /\ \A r \in reads : r.from = 0 /\ r.old => Complete(visible, page.messages, feed, unsaid, {})
    /\ page.ready /\ Resyncs = {} => Complete(visible, page.messages, feed, unsaid, {})

FlowInv == KnownInv /\ OrderInv /\ ClearsInv /\ ReadsInv

StreamsInv == StreamTypes /\ (excused = {} => FlowInv)

\* A step that leaves the requests alone and loses nothing of what was complete.
LEMMA ReadsKept ==
    ASSUME StreamTypes, KnownInv, ReadsInv, reads' = reads, page'.ready = page.ready,
           \A m \in visible' \ visible : \A c \in Committed : c <= m,
           \A G \in SUBSET Committed : Complete(visible, page.messages, feed, unsaid, G)
                                        => Complete(visible', page'.messages, feed', unsaid', G)
    PROVE  ReadsInv'
<1>1. \A r \in reads : Got(r) \in SUBSET Committed
    BY DEF KnownInv, Got
<1>2. {} \in SUBSET Committed
    OBVIOUS
<1>3. Resyncs' = Resyncs
    BY DEF Resyncs
<1>4. \A r \in Resyncs : r \in reads /\ r.from # 0
    BY DEF Resyncs
<1>5. \A r \in Resyncs : r.from \in Committed
    BY <1>4 DEF KnownInv
<1>6. \A r \in Resyncs : page.ready /\ \A m \in visible' : r.from <= m
    BY <1>5 DEF ReadsInv
<1>7. \A r \in reads : r.answered /\ ~r.gone /\ ~r.old => Complete(visible', page'.messages, feed', unsaid', Got(r))
    BY <1>1 DEF ReadsInv
<1>8. \A r \in reads : r.from = 0 /\ r.old => Complete(visible', page'.messages, feed', unsaid', {})
    BY <1>2 DEF ReadsInv
<1>9. page.ready /\ Resyncs = {} => Complete(visible', page'.messages, feed', unsaid', {})
    BY <1>2 DEF ReadsInv
<1>10. \A r \in reads : r.from = 0 => ~page.ready /\ ~r.gone
    BY DEF ReadsInv
<1>11. \A r, q \in reads : r.from = 0 /\ q.from = 0 => r = q
    BY DEF ReadsInv
<1>12. \A r, q \in Resyncs : r = q
    BY DEF ReadsInv
<1> QED BY <1>3, <1>6, <1>7, <1>8, <1>9, <1>10, <1>11, <1>12 DEF ReadsInv

LEMMA InsertKeepsFlow ==
    ASSUME StreamTypes, FlowInv, InsertForStream
    PROVE  FlowInv'
<1>1. UNCHANGED <<unsaid, feed, page, reads, visible>>
    BY DEF InsertForStream, InsertMessage, streamVars
<1>2. posted' = posted + 1 /\ opened' = opened \union {posted + 1} /\ posted \in Nat
    BY MessagesAreNumbers DEF InsertForStream, InsertMessage, StreamTypes
<1>3. Committed' = Committed
    BY <1>2 DEF Committed, StreamTypes
<1>4. KnownInv'
    BY <1>1, <1>3 DEF FlowInv, KnownInv
<1>5. OrderInv' /\ ClearsInv'
    BY <1>1 DEF FlowInv, OrderInv, ClearsInv
<1>6. ReadsInv'
    BY <1>1 DEF FlowInv, ReadsInv, Resyncs
<1> QED BY <1>4, <1>5, <1>6 DEF FlowInv

\* A commit that is in order is newer than all others.
LEMMA CommitIsNewest ==
    ASSUME StreamTypes, NEW m \in Messages, PostCommits(m), excused' = {}
    PROVE  /\ excused = {}
           /\ \A c \in Committed : c < m /\ c \in Nat
           /\ Committed' = Committed \union {m}
           /\ visible' = visible \union {m}
           /\ unsaid' = Append(unsaid, [name |-> "created", m |-> m])
           /\ [name |-> "created", m |-> m] \in StreamEvents
           /\ UNCHANGED <<feed, page, reads>>
<1>1. m \in opened /\ opened' = opened \ {m} /\ posted' = posted /\ visible' = visible \union {m}
    BY DEF PostCommits, CommitMessage
<1>2. excused = {} /\ \A n \in Messages : ~ (m < n /\ n <= posted /\ n \notin opened)
    BY DEF PostCommits, Excuse
<1>3. \A c \in Committed : c \in Messages /\ c <= posted /\ c \notin opened /\ c # m /\ c \in Nat
    BY <1>1, VisibleMessages, MessagesAreNumbers DEF Committed, StreamTypes
<1>4. m \in Nat
    BY MessagesAreNumbers
<1>5. \A c \in Committed : c < m /\ c \in Nat
    BY <1>2, <1>3, <1>4
<1>6. Committed' = Committed \union {m}
    BY <1>1 DEF Committed, StreamTypes
<1>7. [name |-> "created", m |-> m] \in StreamEvents
    BY DEF StreamEvents
<1>8. unsaid' = Append(unsaid, [name |-> "created", m |-> m]) /\ UNCHANGED <<feed, page, reads>>
    BY DEF PostCommits
<1> QED BY <1>1, <1>2, <1>5, <1>6, <1>7, <1>8

LEMMA PostKeepsFlow ==
    ASSUME StreamTypes, FlowInv, NEW m \in Messages, PostCommits(m), excused' = {}
    PROVE  FlowInv'
<1> DEFINE e == [name |-> "created", m |-> m]
<1>1. /\ \A c \in Committed : c < m /\ c \in Nat
      /\ Committed' = Committed \union {m} /\ visible' = visible \union {m}
      /\ unsaid' = Append(unsaid, e) /\ e \in StreamEvents /\ UNCHANGED <<feed, page, reads>>
    BY CommitIsNewest
<1>2. unsaid \in Seq(StreamEvents) /\ m \in Nat
    BY MessagesAreNumbers DEF StreamTypes
<1>3. \A n : Creates(e, n) <=> n = m
    BY DEF Creates
<1>4. e.name = "created"
    OBVIOUS
<1> HIDE DEF e
<1>5. \A n : Says(unsaid', n) <=> (Says(unsaid, n) \/ n = m)
    BY <1>1, <1>2, <1>3, AppendSays
<1>6. \A k \in DOMAIN unsaid : \A n : SaysAfter(unsaid', k, n) <=> (SaysAfter(unsaid, k, n) \/ n = m)
    BY <1>1, <1>2, <1>3, AppendSays
<1>7. \A i \in DOMAIN unsaid' : \/ i \in DOMAIN unsaid /\ unsaid'[i] = unsaid[i]
                                \/ unsaid'[i].name = "created"
    BY <1>1, <1>2, <1>4, AppendFacts
<1>8. KnownInv'
    <2>1. page.removed \subseteq Committed' \ visible'
        BY <1>1 DEF FlowInv, KnownInv
    <2>2. \A n \in Messages : Says(unsaid', n) \/ Says(feed.buffer, n) => n \in Committed'
        BY <1>1, <1>5 DEF FlowInv, KnownInv
    <2>3. \A i \in DOMAIN unsaid' : unsaid'[i].name = "deleted" => unsaid'[i].m \in Committed' \ visible'
        BY <1>1, <1>7 DEF FlowInv, KnownInv
    <2>4. \A i \in DOMAIN feed.buffer : feed.buffer[i].name = "deleted" => feed.buffer[i].m \in Committed' \ visible'
        BY <1>1 DEF FlowInv, KnownInv
    <2>5. page.messages \subseteq Committed' /\ \A r \in reads : r.list \subseteq Committed' /\ r.from \in Committed' \union {0}
        BY <1>1 DEF FlowInv, KnownInv
    <2> QED BY <1>1, <2>1, <2>2, <2>3, <2>4, <2>5 DEF KnownInv
<1>9. OrderInv'
    <2>1. \A n \in Messages : Says(unsaid, n) \/ Says(feed.buffer, n) => n < m
        BY <1>1 DEF FlowInv, KnownInv
    <2>2. InOrder(unsaid')
        BY <1>1, <1>2, <1>3, <2>1, AppendSays DEF FlowInv, OrderInv
    <2>3. feed.on => Precedes(feed.buffer, unsaid')
        BY <1>5, <2>1 DEF FlowInv, OrderInv, Precedes
    <2> QED BY <1>1, <2>2, <2>3 DEF FlowInv, OrderInv
<1>10. ClearsInv'
    <2>1. \A k \in DOMAIN unsaid' : unsaid'[k].name = "cleared" => \A n \in visible' : SaysAfter(unsaid', k, n)
        BY <1>1, <1>6, <1>7 DEF FlowInv, ClearsInv
    <2>2. \A k \in DOMAIN feed.buffer : \A p \in Messages : SaysAfter(feed.buffer, k, p) => p < m
        BY <1>1 DEF FlowInv, KnownInv, SaysAfter, Says
    <2>3. ASSUME NEW k \in DOMAIN feed.buffer, feed.buffer[k].name = "cleared", NEW n \in visible'
          PROVE  /\ feed.on => SaysAfter(feed.buffer, k, n) \/ Says(unsaid', n)
                 /\ \A p \in Messages : SaysAfter(feed.buffer, k, p) /\ n < p => SaysAfter(feed.buffer, k, n)
        <3>1. CASE n = m
            BY <1>2, <1>5, <2>2, <3>1, MessagesAreNumbers
        <3>2. CASE n \in visible
            BY <1>5, <2>3, <3>2 DEF FlowInv, ClearsInv
        <3> QED BY <1>1, <3>1, <3>2
    <2> QED BY <1>1, <2>1, <2>3 DEF ClearsInv
<1>11. ReadsInv'
    <2>1. ASSUME NEW G \in SUBSET Committed, Complete(visible, page.messages, feed, unsaid, G)
          PROVE  Complete(visible', page'.messages, feed', unsaid', G)
        <3>1. \A p \in page.messages : ~ (m < p)
            BY <1>1, <1>2 DEF FlowInv, KnownInv
        <3>2. \A p \in Messages : Says(feed.buffer, p) => ~ (m < p)
            BY <1>1, <1>2 DEF FlowInv, KnownInv
        <3>3. Complete(visible', page.messages, feed, unsaid', G)
            BY <1>1, <1>5, <2>1, <3>1, <3>2 DEF Complete
        <3> QED BY <1>1, <3>3
    <2>2. \A n \in visible' \ visible : \A c \in Committed : c <= n
        BY <1>1, <1>2
    <2> QED BY <1>1, <2>1, <2>2, ReadsKept DEF FlowInv
<1> QED BY <1>8, <1>9, <1>10, <1>11 DEF FlowInv

\* Fewer messages, and an event that creates none.
LEMMA RemovalKeepsFlow ==
    ASSUME StreamTypes, FlowInv, NEW e \in StreamEvents, e.name # "created", unsaid' = Append(unsaid, e),
           visible' \subseteq visible, UNCHANGED <<posted, opened, feed, page, reads>>,
           e.name = "deleted" => e.m \in Committed \ visible',
           e.name = "cleared" => visible' = {}
    PROVE  FlowInv'
<1>1. unsaid \in Seq(StreamEvents) /\ Committed' = Committed
    BY DEF StreamTypes, Committed
<1>2. \A n : ~Creates(e, n)
    BY DEF Creates
<1>3. \A n : Says(unsaid', n) <=> Says(unsaid, n)
    BY <1>1, <1>2, AppendSays
<1>4. \A k \in DOMAIN unsaid : \A n : SaysAfter(unsaid', k, n) <=> SaysAfter(unsaid, k, n)
    BY <1>1, <1>2, AppendSays
<1>5. \A i \in DOMAIN unsaid' : \/ i \in DOMAIN unsaid /\ unsaid'[i] = unsaid[i]
                                \/ unsaid'[i] = e
    BY <1>1, AppendFacts
<1>6. KnownInv'
    <2>1. page.removed \subseteq Committed \ visible'
        BY DEF FlowInv, KnownInv
    <2>2. \A n \in Messages : Says(unsaid', n) \/ Says(feed.buffer, n) => n \in Committed
        BY <1>3 DEF FlowInv, KnownInv
    <2>3. \A i \in DOMAIN unsaid' : unsaid'[i].name = "deleted" => unsaid'[i].m \in Committed \ visible'
        BY <1>5 DEF FlowInv, KnownInv
    <2>4. \A i \in DOMAIN feed.buffer : feed.buffer[i].name = "deleted" => feed.buffer[i].m \in Committed \ visible'
        BY DEF FlowInv, KnownInv
    <2>5. page.messages \subseteq Committed /\ \A r \in reads : r.list \subseteq Committed /\ r.from \in Committed \union {0}
        BY DEF FlowInv, KnownInv
    <2> QED BY <1>1, <2>1, <2>2, <2>3, <2>4, <2>5 DEF KnownInv
<1>7. OrderInv'
    <2>1. InOrder(unsaid')
        BY <1>1, <1>2, AppendSays DEF FlowInv, OrderInv
    <2>2. feed.on => Precedes(feed.buffer, unsaid')
        BY <1>3 DEF FlowInv, OrderInv, Precedes
    <2> QED BY <2>1, <2>2 DEF FlowInv, OrderInv
<1>8. ClearsInv'
    <2>1. \A k \in DOMAIN unsaid' : unsaid'[k].name = "cleared" => \A n \in visible' : SaysAfter(unsaid', k, n)
        BY <1>4, <1>5 DEF FlowInv, ClearsInv
    <2>2. ASSUME NEW k \in DOMAIN feed.buffer, feed.buffer[k].name = "cleared", NEW n \in visible'
          PROVE  /\ feed.on => SaysAfter(feed.buffer, k, n) \/ Says(unsaid', n)
                 /\ \A p \in Messages : SaysAfter(feed.buffer, k, p) /\ n < p => SaysAfter(feed.buffer, k, n)
        BY <1>3, <2>2 DEF FlowInv, ClearsInv
    <2> QED BY <2>1, <2>2 DEF ClearsInv
<1>9. ReadsInv'
    <2>1. ASSUME NEW G \in SUBSET Committed, Complete(visible, page.messages, feed, unsaid, G)
          PROVE  Complete(visible', page'.messages, feed', unsaid', G)
        <3>1. Complete(visible', page.messages, feed, unsaid', G)
            BY <1>3, <2>1 DEF Complete
        <3> QED BY <3>1
    <2>2. visible' \ visible = {}
        OBVIOUS
    <2> QED BY <2>1, <2>2, ReadsKept DEF FlowInv
<1> QED BY <1>6, <1>7, <1>8, <1>9 DEF FlowInv

LEMMA DeleteKeepsFlow ==
    ASSUME StreamTypes, FlowInv, NEW m \in Messages, DeleteCommits(m)
    PROVE  FlowInv'
<1> DEFINE e == [name |-> "deleted", m |-> m]
<1>1. e \in StreamEvents /\ e.name = "deleted" /\ e.m = m
    BY DEF StreamEvents
<1>2. unsaid' = Append(unsaid, e) /\ UNCHANGED <<posted, opened, feed, page, reads>>
    BY DEF DeleteCommits, DeleteMessage
<1>3. visible' = visible \ {m} /\ m \in visible
    BY DEF DeleteCommits, DeleteMessage
<1>4. m \in Committed \ visible'
    BY <1>3 DEF Committed, StreamTypes
<1> HIDE DEF e
<1> QED BY <1>1, <1>2, <1>3, <1>4, RemovalKeepsFlow

LEMMA ClearKeepsFlow ==
    ASSUME StreamTypes, FlowInv, ClearCommits
    PROVE  FlowInv'
<1> DEFINE e == [name |-> "cleared", m |-> 0]
<1>1. e \in StreamEvents /\ e.name = "cleared"
    BY DEF StreamEvents
<1>2. unsaid' = Append(unsaid, e) /\ UNCHANGED <<posted, opened, feed, page, reads>>
    BY DEF ClearCommits, ClearMessages
<1>3. visible' = {}
    BY DEF ClearCommits, ClearMessages
<1> HIDE DEF e
<1> QED BY <1>1, <1>2, <1>3, RemovalKeepsFlow

\* The first event is published: sent to the page, or lost with its subscription.
LEMMA PublishKeepsFlow ==
    ASSUME StreamTypes, FlowInv, NEW i \in DOMAIN unsaid, PublishEvent(i), excused' = {}, UNCHANGED boardVars
    PROVE  FlowInv'
<1> DEFINE e == unsaid[1]
<1>1. unsaid \in Seq(StreamEvents) /\ feed.buffer \in Seq(StreamEvents) /\ feed \in Feeds /\ visible \subseteq Messages
    BY VisibleMessages DEF StreamTypes, Feeds
<1>2. i = 1
    <2>1. excused' = Excuse("gap", i > 1)
        BY PublishEffect
    <2>2. ~ (i > 1)
        BY <2>1 DEF Excuse
    <2>3. i \in 1..Len(unsaid)
        BY <1>1
    <2> QED BY <2>2, <2>3
<1>3. unsaid # <<>> /\ unsaid' = Tail(unsaid) /\ e \in StreamEvents
    BY <1>1, <1>2, RemoveFirstEvent DEF PublishEvent
<1>4. /\ feed'.state = feed.state /\ UNCHANGED <<page, reads, posted, opened, visible>>
      /\ \/ ~feed.on /\ feed' = feed
         \/ feed.on /\ feed'.on /\ feed'.buffer = Append(feed.buffer, e)
         \/ feed.on /\ ~feed'.on /\ feed'.buffer = feed.buffer
    BY <1>2, PublishEffect DEF boardVars
<1>5. Committed' = Committed
    BY <1>4 DEF Committed
<1>6. /\ \A m : Says(unsaid, m) <=> (Creates(e, m) \/ Says(unsaid', m))
      /\ \A k \in DOMAIN unsaid' : \A m : SaysAfter(unsaid', k, m) <=> SaysAfter(unsaid, k + 1, m)
      /\ \A m : SaysAfter(unsaid, 1, m) <=> Says(unsaid', m)
      /\ InOrder(unsaid')
      /\ \A m, n \in Messages : Creates(e, m) /\ Says(unsaid', n) => m < n
    BY <1>1, <1>3, TailSays DEF FlowInv, OrderInv
<1>7. \A k \in DOMAIN unsaid' : k + 1 \in DOMAIN unsaid /\ unsaid'[k] = unsaid[k + 1]
    BY <1>1, <1>3, TailFacts
<1>8. 1 \in DOMAIN unsaid
    BY <1>2
<1>9. /\ \A m : Says(Append(feed.buffer, e), m) <=> (Says(feed.buffer, m) \/ Creates(e, m))
      /\ \A k \in DOMAIN feed.buffer : \A m : SaysAfter(Append(feed.buffer, e), k, m) <=> (SaysAfter(feed.buffer, k, m) \/ Creates(e, m))
      /\ \A m : ~SaysAfter(Append(feed.buffer, e), Len(feed.buffer) + 1, m)
      /\ InOrder(feed.buffer) /\ (\A m, n \in Messages : Says(feed.buffer, m) /\ Creates(e, n) => m < n)
           => InOrder(Append(feed.buffer, e))
    BY <1>1, <1>3, AppendSays
<1>10. \A k \in DOMAIN Append(feed.buffer, e) :
          \/ k \in DOMAIN feed.buffer /\ Append(feed.buffer, e)[k] = feed.buffer[k]
          \/ k = Len(feed.buffer) + 1 /\ Append(feed.buffer, e)[k] = e
    BY <1>1, <1>3, AppendFacts
<1> HIDE DEF e
<1>11. e.name = "deleted" => e.m \in Committed \ visible
    BY <1>8 DEF FlowInv, KnownInv, e
<1>12. e.name = "cleared" => \A m \in visible : Says(unsaid', m)
    BY <1>6, <1>8 DEF FlowInv, ClearsInv, e
<1>13. KnownInv'
    <2>1. \A m \in Messages : Says(unsaid', m) \/ Says(feed'.buffer, m) => m \in Committed
        BY <1>4, <1>6, <1>9 DEF FlowInv, KnownInv
    <2>2. \A k \in DOMAIN unsaid' : unsaid'[k].name = "deleted" => unsaid'[k].m \in Committed \ visible
        BY <1>7 DEF FlowInv, KnownInv
    <2>3. \A k \in DOMAIN feed'.buffer : feed'.buffer[k].name = "deleted" => feed'.buffer[k].m \in Committed \ visible
        BY <1>4, <1>10, <1>11 DEF FlowInv, KnownInv
    <2> QED BY <1>4, <1>5, <2>1, <2>2, <2>3 DEF FlowInv, KnownInv
<1>14. OrderInv'
    <2>1. CASE feed'.buffer = feed.buffer /\ ~feed'.on
        BY <1>6, <2>1 DEF FlowInv, OrderInv
    <2>2. CASE feed.on /\ feed'.on /\ feed'.buffer = Append(feed.buffer, e)
        <3>1. \A m, n \in Messages : Says(feed.buffer, m) /\ Says(unsaid, n) => m < n
            BY <2>2 DEF FlowInv, OrderInv, Precedes
        <3>2. InOrder(feed'.buffer)
            BY <1>6, <1>9, <2>2, <3>1 DEF FlowInv, OrderInv
        <3>3. Precedes(feed'.buffer, unsaid')
            BY <1>6, <1>9, <2>2, <3>1 DEF Precedes
        <3> QED BY <1>6, <3>2, <3>3 DEF OrderInv
    <2> QED BY <1>4, <2>1, <2>2
<1>15. ClearsInv'
    <2>1. \A k \in DOMAIN unsaid' : unsaid'[k].name = "cleared" => \A m \in visible : SaysAfter(unsaid', k, m)
        BY <1>6, <1>7 DEF FlowInv, ClearsInv
    <2>2. ASSUME NEW k \in DOMAIN feed'.buffer, feed'.buffer[k].name = "cleared", NEW m \in visible
          PROVE  /\ feed'.on => SaysAfter(feed'.buffer, k, m) \/ Says(unsaid', m)
                 /\ \A p \in Messages : SaysAfter(feed'.buffer, k, p) /\ m < p => SaysAfter(feed'.buffer, k, m)
        <3>1. CASE feed'.buffer = feed.buffer /\ ~feed'.on
            BY <2>2, <3>1 DEF FlowInv, ClearsInv
        <3>2. CASE feed.on /\ feed'.on /\ feed'.buffer = Append(feed.buffer, e)
            <4>1. CASE k \in DOMAIN feed.buffer /\ feed.buffer[k].name = "cleared"
                <5>1. /\ SaysAfter(feed.buffer, k, m) \/ Says(unsaid, m)
                      /\ \A p \in Messages : SaysAfter(feed.buffer, k, p) /\ m < p => SaysAfter(feed.buffer, k, m)
                    BY <3>2, <4>1 DEF FlowInv, ClearsInv
                <5>2. SaysAfter(feed'.buffer, k, m) \/ Says(unsaid', m)
                    BY <1>6, <1>9, <3>2, <4>1, <5>1
                <5>3. ASSUME NEW p \in Messages, SaysAfter(feed'.buffer, k, p), m < p
                      PROVE  SaysAfter(feed'.buffer, k, m)
                    <6>1. CASE SaysAfter(feed.buffer, k, p)
                        BY <1>9, <3>2, <4>1, <5>1, <5>3, <6>1
                    <6>2. CASE Creates(e, p)
                        <7>1. ~Says(unsaid', m)
                            <8>1. Says(unsaid', m) => p < m
                                BY <1>1, <1>6, <6>2
                            <8> QED BY <1>1, <5>3, <8>1, MessagesAreNumbers
                        <7> QED BY <5>2, <7>1
                    <6> QED BY <1>9, <3>2, <4>1, <5>3, <6>1, <6>2
                <5> QED BY <5>2, <5>3
            <4>2. CASE k = Len(feed.buffer) + 1 /\ e.name = "cleared"
                BY <1>9, <1>12, <3>2, <4>2
            <4> QED BY <1>10, <2>2, <3>2, <4>1, <4>2
        <3> QED BY <1>4, <3>1, <3>2
    <2> QED BY <1>4, <2>1, <2>2 DEF ClearsInv
<1>16. ReadsInv'
    <2>1. ASSUME NEW G \in SUBSET Committed, Complete(visible, page.messages, feed, unsaid, G)
          PROVE  Complete(visible, page.messages, feed', unsaid', G)
        <3>1. CASE feed'.buffer = feed.buffer /\ ~feed'.on
            BY <1>4, <2>1, <3>1 DEF Complete
        <3>2. CASE feed.on /\ feed'.on /\ feed'.buffer = Append(feed.buffer, e)
            <4>1. \A m : Says(feed'.buffer, m) <=> (Says(feed.buffer, m) \/ Creates(e, m))
                BY <1>9, <3>2
            <4>2. ASSUME NEW m \in visible \ G, feed.state = "open"
                  PROVE  /\ \A p \in Messages : Says(feed'.buffer, p) /\ m < p => m \in page.messages \/ Says(feed'.buffer, m)
                         /\ m \in page.messages \/ Says(feed'.buffer, m) \/ Says(unsaid', m)
                <5>1. /\ \A p \in Messages : Says(feed.buffer, p) /\ m < p => m \in page.messages \/ Says(feed.buffer, m)
                      /\ m \in page.messages \/ Says(feed.buffer, m) \/ Says(unsaid, m)
                    BY <2>1, <3>2, <4>2 DEF Complete
                <5>2. m \in page.messages \/ Says(feed'.buffer, m) \/ Says(unsaid', m)
                    BY <1>6, <4>1, <5>1
                <5>3. ASSUME NEW p \in Messages, Creates(e, p), m < p
                      PROVE  ~Says(unsaid', m)
                    <6>1. Says(unsaid', m) => p < m
                        BY <1>1, <1>6, <5>3
                    <6> QED BY <1>1, <5>3, <6>1, MessagesAreNumbers
                <5> QED BY <4>1, <5>1, <5>2, <5>3
            <4> QED BY <1>4, <2>1, <3>2, <4>2 DEF Complete
        <3> QED BY <1>4, <3>1, <3>2
    <2>2. visible' \ visible = {}
        BY <1>4
    <2> QED BY <1>4, <2>1, <2>2, ReadsKept DEF FlowInv
<1> QED BY <1>13, <1>14, <1>15, <1>16 DEF FlowInv

\* The subscription is off: nothing is promised of what is still to be published.
LEMMA CloseKeepsFlow ==
    ASSUME StreamTypes, FlowInv, CloseStreams, UNCHANGED boardVars
    PROVE  FlowInv'
<1>1. /\ feed'.state = feed.state /\ ~feed'.on /\ feed'.buffer = feed.buffer
      /\ UNCHANGED <<unsaid, page, reads, posted, opened, visible>>
    BY CloseEffect DEF boardVars
<1>2. Committed' = Committed
    BY <1>1 DEF Committed
<1>3. KnownInv'
    BY <1>1, <1>2 DEF FlowInv, KnownInv
<1>4. OrderInv'
    BY <1>1 DEF FlowInv, OrderInv
<1>5. ClearsInv'
    BY <1>1 DEF FlowInv, ClearsInv
<1>6. \A G \in SUBSET Committed : Complete(visible, page.messages, feed, unsaid, G)
                                    => Complete(visible, page.messages, feed', unsaid, G)
    BY <1>1 DEF Complete
<1>7. ReadsInv'
    BY <1>1, <1>6, ReadsKept DEF FlowInv
<1> QED BY <1>3, <1>4, <1>5, <1>7 DEF FlowInv

\* A connection that begins or ends has nothing in its buffer, and the page is not
\* pushed anything.
LEMMA EmptyFeedKeepsFlow ==
    ASSUME StreamTypes, FlowInv, feed'.buffer = <<>>, feed'.state # "open",
           page'.messages = page.messages, page'.removed = page.removed, page'.ready = page.ready,
           UNCHANGED <<unsaid, reads, posted, opened, visible>>
    PROVE  FlowInv'
<1>1. \A m : ~Says(feed'.buffer, m)
    BY DEF Says
<1>2. DOMAIN feed'.buffer = {}
    OBVIOUS
<1>3. Committed' = Committed
    BY DEF Committed
<1>4. KnownInv'
    <2>1. \A s \in {unsaid', feed'.buffer} : \A i \in DOMAIN s : s[i].name = "deleted" => s[i].m \in Committed \ visible
        BY <1>2 DEF FlowInv, KnownInv
    <2> QED BY <1>1, <1>3, <2>1 DEF FlowInv, KnownInv
<1>5. OrderInv'
    <2>1. InOrder(feed'.buffer)
        BY <1>2 DEF InOrder
    <2>2. Precedes(feed'.buffer, unsaid')
        BY <1>1 DEF Precedes
    <2> QED BY <2>1, <2>2 DEF FlowInv, OrderInv
<1>6. ClearsInv'
    BY <1>2 DEF FlowInv, ClearsInv
<1>7. \A G \in SUBSET Committed : Complete(visible, page.messages, feed, unsaid, G)
                                    => Complete(visible, page.messages, feed', unsaid, G)
    BY DEF Complete
<1>8. ReadsInv'
    BY <1>7, ReadsKept DEF FlowInv
<1> QED BY <1>4, <1>5, <1>6, <1>8 DEF FlowInv

LEMMA SubscribeKeepsFlow ==
    ASSUME StreamTypes, FlowInv, Subscribe, UNCHANGED boardVars
    PROVE  FlowInv'
BY SubscribeEffect, EmptyFeedKeepsFlow DEF boardVars

LEMMA StreamEndsKeepsFlow ==
    ASSUME StreamTypes, FlowInv, StreamEnds, UNCHANGED boardVars
    PROVE  FlowInv'
<1>1. feed'.buffer = <<>> /\ feed'.state # "open"
    BY DEF StreamEnds, NoFeed
<1>2. page' = page /\ UNCHANGED <<unsaid, reads, posted, opened, visible>>
    BY DEF StreamEnds, boardVars
<1> QED BY <1>1, <1>2, EmptyFeedKeepsFlow

\* A load that starts takes the place of the one under way.
LEMMA LoadStarts ==
    ASSUME NEW R \in SUBSET PageReads
    PROVE  /\ \A r \in AskLatest(R) : (r \in R /\ r.from # 0) \/ r = Ask(0)
           /\ \A r \in R : r.from # 0 => r \in AskLatest(R)
           /\ Ask(0).from = 0 /\ ~Ask(0).answered /\ ~Ask(0).old /\ ~Ask(0).gone /\ Ask(0).list = {}
<1>1. \A r \in AskLatest(R) : (r \in R /\ r.from # 0) \/ r = Ask(0)
    BY DEF AskLatest
<1>2. \A r \in R : r.from # 0 => r \in AskLatest(R)
    BY DEF AskLatest
<1>3. Ask(0).from = 0 /\ ~Ask(0).answered /\ ~Ask(0).old /\ ~Ask(0).gone /\ Ask(0).list = {}
    BY DEF Ask
<1> QED BY <1>1, <1>2, <1>3

LEMMA OutdatedFacts ==
    ASSUME NEW R \in SUBSET PageReads, NEW r \in Outdated(R)
    PROVE  r.old /\ \E q \in R : r = [q EXCEPT !.old = TRUE] /\ r.from = q.from /\ r.list = q.list /\ r.gone = q.gone
<1>1. PICK q \in R : r = [q EXCEPT !.old = TRUE]
    BY DEF Outdated
<1>2. q \in PageReads
    OBVIOUS
<1>3. r.old /\ r.from = q.from /\ r.list = q.list /\ r.gone = q.gone
    BY <1>1, <1>2 DEF PageReads
<1> QED BY <1>1, <1>3

\* Only the page and its requests change.
LEMMA EventsKept ==
    ASSUME FlowInv, feed'.buffer = feed.buffer, feed'.on = feed.on, UNCHANGED <<unsaid, posted, opened, visible>>,
           page'.messages \subseteq Committed, page'.removed = page.removed,
           \A r \in reads' : r.list \subseteq Committed /\ r.from \in Committed \union {0}
    PROVE  KnownInv' /\ OrderInv' /\ ClearsInv'
<1>1. Committed' = Committed
    BY DEF Committed
<1>2. KnownInv'
    BY <1>1 DEF FlowInv, KnownInv
<1>3. OrderInv'
    BY DEF FlowInv, OrderInv
<1>4. ClearsInv'
    BY DEF FlowInv, ClearsInv
<1> QED BY <1>2, <1>3, <1>4

\* A page that loads is owed nothing yet.
LEMMA LoadingIsSound ==
    ASSUME ~page'.ready, reads' \subseteq PageReads, \A r \in reads' : (r.from # 0 /\ r.old) \/ r = Ask(0)
    PROVE  ReadsInv'
<1>1. Ask(0).from = 0 /\ ~Ask(0).answered /\ ~Ask(0).old /\ ~Ask(0).gone
    BY DEF Ask
<1>2. \A r \in reads' : r.from = 0 => r = Ask(0) /\ ~r.gone
    BY <1>1
<1>3. Resyncs' = {}
    BY <1>1 DEF Resyncs
<1>4. \A r \in reads' : r.from = 0 => ~r.old
    BY <1>1
<1>5. \A r \in reads' : ~ (r.answered /\ ~r.gone /\ ~r.old)
    BY <1>1
<1> QED BY <1>2, <1>3, <1>4, <1>5 DEF ReadsInv

\* What a page that is not ready has under way besides its load is out of date.
LEMMA LoadingReads ==
    ASSUME StreamTypes, FlowInv, ~page.ready
    PROVE  \A r \in AskLatest(reads) : /\ (r.from # 0 /\ r.old) \/ r = Ask(0)
                                       /\ r.list \subseteq Committed /\ r.from \in Committed \union {0}
<1> SUFFICES ASSUME NEW r \in AskLatest(reads)
             PROVE  /\ (r.from # 0 /\ r.old) \/ r = Ask(0)
                    /\ r.list \subseteq Committed /\ r.from \in Committed \union {0}
    OBVIOUS
<1>1. reads \in SUBSET PageReads
    BY DEF StreamTypes
<1>2. CASE r = Ask(0)
    BY <1>1, <1>2, LoadStarts
<1>3. CASE r \in reads /\ r.from # 0
    <2>1. r.old
        BY <1>3 DEF FlowInv, ReadsInv, Resyncs
    <2> QED BY <1>3, <2>1 DEF FlowInv, KnownInv
<1> QED BY <1>1, <1>2, <1>3, LoadStarts

\* What a page that loads again has under way besides its load is out of date.
LEMMA ReloadingReads ==
    ASSUME StreamTypes, FlowInv, NEW R \in SUBSET reads
    PROVE  \A r \in AskLatest(Outdated(R)) : /\ (r.from # 0 /\ r.old) \/ r = Ask(0)
                                            /\ r.list \subseteq Committed /\ r.from \in Committed \union {0}
<1> SUFFICES ASSUME NEW r \in AskLatest(Outdated(R))
             PROVE  /\ (r.from # 0 /\ r.old) \/ r = Ask(0)
                    /\ r.list \subseteq Committed /\ r.from \in Committed \union {0}
    OBVIOUS
<1>1. R \in SUBSET PageReads /\ Outdated(R) \in SUBSET PageReads
    <2>1. R \in SUBSET PageReads
        BY DEF StreamTypes
    <2> QED BY <2>1, ReadTypes
<1>2. CASE r = Ask(0)
    BY <1>1, <1>2, LoadStarts
<1>3. CASE r \in Outdated(R) /\ r.from # 0
    <2>1. PICK q \in R : r.from = q.from /\ r.list = q.list
        BY <1>1, <1>3, OutdatedFacts
    <2>2. r.old
        BY <1>1, <1>3, OutdatedFacts
    <2> QED BY <1>3, <2>1, <2>2 DEF FlowInv, KnownInv
<1> QED BY <1>1, <1>2, <1>3, LoadStarts

LEMMA RefusedKeepsFlow ==
    ASSUME StreamTypes, FlowInv, Refused, UNCHANGED boardVars
    PROVE  FlowInv'
<1>1. /\ page'.messages = page.messages /\ page'.removed = page.removed /\ page'.ready = page.ready
      /\ reads' = IF page.ready THEN reads ELSE AskLatest(reads)
      /\ reads' \subseteq PageReads
      /\ UNCHANGED <<unsaid, feed, posted, opened, visible>>
    BY RefusedEffect DEF boardVars
<1>2. page.messages \subseteq Committed
    BY DEF FlowInv, KnownInv
<1>3. CASE page.ready
    <2>1. reads' = reads
        BY <1>1, <1>3
    <2>2. \A r \in reads' : r.list \subseteq Committed /\ r.from \in Committed \union {0}
        BY <2>1 DEF FlowInv, KnownInv
    <2>3. KnownInv' /\ OrderInv' /\ ClearsInv'
        BY <1>1, <1>2, <2>2, EventsKept
    <2>4. ReadsInv'
        BY <1>1, <2>1, ReadsKept DEF FlowInv
    <2> QED BY <2>3, <2>4 DEF FlowInv
<1>4. CASE ~page.ready
    <2>1. reads' = AskLatest(reads)
        BY <1>1, <1>4
    <2>2. KnownInv' /\ OrderInv' /\ ClearsInv'
        BY <1>1, <1>2, <1>4, <2>1, EventsKept, LoadingReads
    <2>3. ReadsInv'
        BY <1>1, <1>4, <2>1, LoadingReads, LoadingIsSound
    <2> QED BY <2>2, <2>3 DEF FlowInv
<1> QED BY <1>3, <1>4

LEMMA StartAgainKeepsFlow ==
    ASSUME StreamTypes, FlowInv, StartAgain, UNCHANGED boardVars
    PROVE  FlowInv'
<1>1. ~page.ready /\ reads' = {Ask(0)} /\ UNCHANGED <<unsaid, feed, page, posted, opened, visible>>
    BY DEF StartAgain, boardVars
<1>2. Ask(0) \in PageReads /\ Ask(0).list = {} /\ Ask(0).from = 0
    BY ReadTypes DEF Ask, StreamTypes
<1>3. page.messages \subseteq Committed
    BY DEF FlowInv, KnownInv
<1>4. KnownInv' /\ OrderInv' /\ ClearsInv'
    BY <1>1, <1>2, <1>3, EventsKept
<1>5. ReadsInv'
    BY <1>1, <1>2, LoadingIsSound
<1> QED BY <1>4, <1>5 DEF FlowInv

\* The page is connected: it loads, loads again, or asks for what it missed.
LEMMA OpensKeepsFlow ==
    ASSUME StreamTypes, FlowInv, Opens, excused' = {}, UNCHANGED boardVars
    PROVE  FlowInv'
<1>1. /\ feed'.on = feed.on /\ feed'.buffer = feed.buffer /\ page'.removed = page.removed
      /\ reads' \subseteq PageReads /\ excused' = Excuse("overtaken", Overtakes)
      /\ UNCHANGED <<unsaid, posted, opened, visible>>
    BY OpensEffect DEF boardVars
<1>2. page.messages \subseteq Committed /\ reads \in SUBSET reads /\ {} \subseteq Committed
    BY DEF FlowInv, KnownInv
<1>3. CASE ~page.ready /\ page' = page /\ reads' = AskLatest(reads)
    <2>1. KnownInv' /\ OrderInv' /\ ClearsInv'
        BY <1>1, <1>2, <1>3, EventsKept, LoadingReads
    <2>2. ReadsInv'
        BY <1>1, <1>3, LoadingReads, LoadingIsSound
    <2> QED BY <2>1, <2>2 DEF FlowInv
<1>4. CASE page'.messages = {} /\ ~page'.ready /\ reads' = AskLatest(Outdated(reads))
    <2>1. \A r \in reads' : /\ (r.from # 0 /\ r.old) \/ r = Ask(0)
                            /\ r.list \subseteq Committed /\ r.from \in Committed \union {0}
        BY <1>2, <1>4, ReloadingReads
    <2>2. KnownInv' /\ OrderInv' /\ ClearsInv'
        BY <1>1, <1>2, <1>4, <2>1, EventsKept
    <2>3. ReadsInv'
        BY <1>1, <1>4, <2>1, LoadingIsSound
    <2> QED BY <2>2, <2>3 DEF FlowInv
<1>5. CASE page.ready /\ page.messages # {} /\ page' = page /\ reads' = reads \union {Ask(Min(page.messages))}
    <2> DEFINE n == Min(page.messages)
               a == Ask(n)
    <2>1. page.messages \in SUBSET Messages
        BY DEF StreamTypes, PagesOfTheUser
    <2>2. n \in page.messages /\ \A m \in page.messages : n <= m
        BY <1>5, <2>1, OldestIsLeast
    <2>3. n # 0 /\ n \in Nat /\ n \in Committed
        BY <1>2, <2>1, <2>2, MessagesAreNumbers
    <2>4. a.from = n /\ ~a.answered /\ ~a.old /\ ~a.gone /\ a.list = {}
        BY DEF Ask
    <2>5. reads' = reads \union {a}
        BY <1>5
    <2> HIDE DEF a
    <2>6. ~Overtakes
        BY <1>1 DEF Excuse
    <2>7. \A r \in reads : r.from # 0 => r.old
        BY <1>5, <2>6 DEF Overtakes
    <2>8. \A r \in reads : r.from # 0
        BY <1>5 DEF FlowInv, ReadsInv
    <2>9. Resyncs = {} /\ Resyncs' = {a}
        BY <2>3, <2>4, <2>5, <2>7 DEF Resyncs
    <2>10. Complete(visible, page.messages, feed, unsaid, {})
        BY <1>5, <2>9 DEF FlowInv, ReadsInv
    <2>11. \A m \in visible : n <= m
        <3> SUFFICES ASSUME NEW m \in visible, m < n PROVE FALSE
            BY <2>3, VisibleMessages, MessagesAreNumbers
        <3>1. m \in page.messages
            BY <2>2, <2>10 DEF Complete
        <3> QED BY <2>2, <2>3, <3>1, VisibleMessages, MessagesAreNumbers
    <2>12. KnownInv' /\ OrderInv' /\ ClearsInv'
        <3>1. \A r \in reads' : r.list \subseteq Committed /\ r.from \in Committed \union {0}
            BY <2>3, <2>4, <2>5 DEF FlowInv, KnownInv
        <3> QED BY <1>1, <1>2, <1>5, <3>1, EventsKept
    <2>13. ReadsInv'
        <3>1. \A r \in reads' : r.from # 0
            BY <2>3, <2>4, <2>5, <2>8
        <3>2. \A r \in reads' : ~ (r.answered /\ ~r.gone /\ ~r.old)
            BY <2>4, <2>5, <2>7, <2>8
        <3>3. \A r \in Resyncs' : page'.ready /\ \A m \in visible' : r.from <= m
            BY <1>1, <1>5, <2>4, <2>9, <2>11
        <3>4. \A r, q \in Resyncs' : r = q
            BY <2>9
        <3>5. Resyncs' # {}
            BY <2>9
        <3> QED BY <3>1, <3>2, <3>3, <3>4, <3>5 DEF ReadsInv
    <2> QED BY <2>12, <2>13 DEF FlowInv
<1> QED BY <1>3, <1>4, <1>5, OpensEffect

\* The first event of the buffer is taken: the rest is in order.
LEMMA TakenKeepsEvents ==
    ASSUME StreamTypes, FlowInv, feed.buffer # <<>>, feed'.buffer = Tail(feed.buffer), feed'.on = feed.on,
           UNCHANGED <<unsaid, posted, opened, visible>>
    PROVE  /\ OrderInv' /\ ClearsInv'
           /\ \A m \in Messages : Says(feed'.buffer, m) => m \in Committed
           /\ \A i \in DOMAIN feed'.buffer : feed'.buffer[i].name = "deleted" => feed'.buffer[i].m \in Committed \ visible
<1>1. feed.buffer \in Seq(StreamEvents)
    BY DEF StreamTypes, Feeds
<1>2. /\ \A m : Says(feed.buffer, m) <=> (Creates(feed.buffer[1], m) \/ Says(feed'.buffer, m))
      /\ \A k \in DOMAIN feed'.buffer : \A m : SaysAfter(feed'.buffer, k, m) <=> SaysAfter(feed.buffer, k + 1, m)
      /\ InOrder(feed'.buffer)
    BY <1>1, TailSays DEF FlowInv, OrderInv
<1>3. \A k \in DOMAIN feed'.buffer : k + 1 \in DOMAIN feed.buffer /\ feed'.buffer[k] = feed.buffer[k + 1]
    BY <1>1, TailFacts
<1>4. OrderInv'
    <2>1. feed.on => Precedes(feed'.buffer, unsaid)
        BY <1>2 DEF FlowInv, OrderInv, Precedes
    <2> QED BY <1>2, <2>1 DEF FlowInv, OrderInv
<1>5. ClearsInv'
    <2>1. ASSUME NEW k \in DOMAIN feed'.buffer, feed'.buffer[k].name = "cleared", NEW m \in visible
          PROVE  /\ feed.on => SaysAfter(feed'.buffer, k, m) \/ Says(unsaid, m)
                 /\ \A p \in Messages : SaysAfter(feed'.buffer, k, p) /\ m < p => SaysAfter(feed'.buffer, k, m)
        <3>1. k + 1 \in DOMAIN feed.buffer /\ feed.buffer[k + 1].name = "cleared"
            BY <1>3, <2>1
        <3>2. /\ feed.on => SaysAfter(feed.buffer, k + 1, m) \/ Says(unsaid, m)
              /\ \A p \in Messages : SaysAfter(feed.buffer, k + 1, p) /\ m < p => SaysAfter(feed.buffer, k + 1, m)
            BY <3>1 DEF FlowInv, ClearsInv
        <3> QED BY <1>2, <3>2
    <2>2. \A k \in DOMAIN unsaid : unsaid[k].name = "cleared" => \A m \in visible : SaysAfter(unsaid, k, m)
        BY DEF FlowInv, ClearsInv
    <2> QED BY <2>1, <2>2 DEF ClearsInv
<1>6. \A m \in Messages : Says(feed'.buffer, m) => m \in Committed
    BY <1>2 DEF FlowInv, KnownInv
<1>7. \A i \in DOMAIN feed'.buffer : feed'.buffer[i].name = "deleted" => feed'.buffer[i].m \in Committed \ visible
    BY <1>3 DEF FlowInv, KnownInv
<1> QED BY <1>4, <1>5, <1>6, <1>7

\* A message, its deletion or a clearing reaches the page.
LEMMA PushedKeepsFlow ==
    ASSUME StreamTypes, FlowInv, Pushed, UNCHANGED boardVars
    PROVE  FlowInv'
<1> DEFINE e == feed.buffer[1]
<1>1. feed.buffer \in Seq(StreamEvents) /\ feed.buffer # <<>> /\ visible \subseteq Messages /\ 1 \in DOMAIN feed.buffer
    BY PushedEffect, VisibleMessages, TailFacts DEF StreamTypes, Feeds
<1>2. /\ feed.state = "open" /\ feed'.state = "open" /\ feed'.on = feed.on /\ feed'.buffer = Tail(feed.buffer)
      /\ page'.ready = page.ready /\ e \in StreamEvents
      /\ UNCHANGED <<unsaid, posted, opened, visible>>
    BY PushedEffect DEF boardVars
<1>3. /\ \A m : Says(feed.buffer, m) <=> (Creates(e, m) \/ Says(feed'.buffer, m))
      /\ \A m : SaysAfter(feed.buffer, 1, m) <=> Says(feed'.buffer, m)
      /\ \A m, n \in Messages : Creates(e, m) /\ Says(feed'.buffer, n) => m < n
    BY <1>1, <1>2, TailSays DEF FlowInv, OrderInv
<1>4. /\ OrderInv' /\ ClearsInv'
      /\ \A m \in Messages : Says(feed'.buffer, m) => m \in Committed
      /\ \A i \in DOMAIN feed'.buffer : feed'.buffer[i].name = "deleted" => feed'.buffer[i].m \in Committed \ visible
    BY <1>1, <1>2, TakenKeepsEvents
<1>5. Committed' = Committed
    BY <1>2 DEF Committed
<1>6. ASSUME page'.messages \subseteq Committed, page'.removed \subseteq Committed \ visible,
             \A r \in reads' : r.list \subseteq Committed /\ r.from \in Committed \union {0}
      PROVE  KnownInv'
    <2>1. \A m \in Messages : Says(unsaid, m) => m \in Committed
        BY DEF FlowInv, KnownInv
    <2>2. \A i \in DOMAIN unsaid : unsaid[i].name = "deleted" => unsaid[i].m \in Committed \ visible
        BY DEF FlowInv, KnownInv
    <2> QED BY <1>2, <1>4, <1>5, <1>6, <2>1, <2>2 DEF KnownInv
<1>7. CASE /\ e.name = "created" /\ page'.messages = page.messages \union ({e.m} \ page.removed)
           /\ page'.removed = page.removed /\ reads' = reads
    <2> DEFINE k == e.m
    <2>1. k \in Messages /\ Creates(e, k) /\ \A m : Creates(e, m) => m = k
        BY <1>2, <1>7 DEF StreamEvents, Creates
    <2>2. page'.messages = page.messages \union ({k} \ page.removed)
        BY <1>7
    <2> HIDE DEF k
    <2>3. k \in Committed
        BY <1>3, <2>1 DEF FlowInv, KnownInv
    <2>4. KnownInv'
        <3>1. page'.messages \subseteq Committed /\ page'.removed \subseteq Committed \ visible
            BY <1>7, <2>2, <2>3 DEF FlowInv, KnownInv
        <3>2. \A r \in reads' : r.list \subseteq Committed /\ r.from \in Committed \union {0}
            BY <1>7 DEF FlowInv, KnownInv
        <3> QED BY <1>6, <3>1, <3>2
    <2>5. \A m \in visible : m \notin page.removed
        BY DEF FlowInv, KnownInv
    <2>6. ASSUME NEW G \in SUBSET Committed, Complete(visible, page.messages, feed, unsaid, G)
          PROVE  Complete(visible, page'.messages, feed', unsaid, G)
        <3> SUFFICES ASSUME NEW m \in visible \ G
                     PROVE  /\ \A g \in G : g < m
                            /\ \A p \in page'.messages : m < p => m \in page'.messages
                            /\ \A p \in Messages : Says(feed'.buffer, p) /\ m < p => m \in page'.messages \/ Says(feed'.buffer, m)
                            /\ feed'.on => m \in page'.messages \/ Says(feed'.buffer, m) \/ Says(unsaid, m)
            BY DEF Complete
        <3>1. /\ \A g \in G : g < m
              /\ \A p \in page.messages : m < p => m \in page.messages
              /\ \A p \in Messages : Says(feed.buffer, p) /\ m < p => m \in page.messages \/ Says(feed.buffer, m)
              /\ feed.on => m \in page.messages \/ Says(feed.buffer, m) \/ Says(unsaid, m)
            BY <1>2, <2>6 DEF Complete
        <3>2. Creates(e, m) => m \in page'.messages
            BY <2>1, <2>2, <2>5
        <3>3. m < k => m \in page.messages
            <4> SUFFICES ASSUME m < k, m \notin page.messages PROVE FALSE
                OBVIOUS
            <4>1. Says(feed.buffer, m)
                BY <1>3, <2>1, <3>1
            <4>2. m \in Messages /\ m \in Nat /\ k \in Nat /\ ~ (k < m) /\ m # k
                BY <1>1, <2>1, MessagesAreNumbers
            <4>3. ~Says(feed'.buffer, m)
                BY <1>3, <2>1, <4>2
            <4> QED BY <1>3, <2>1, <4>1, <4>2, <4>3
        <3>4. \A p \in page'.messages : m < p => m \in page'.messages
            BY <2>2, <3>1, <3>3
        <3>5. \A p \in Messages : Says(feed'.buffer, p) /\ m < p => m \in page'.messages \/ Says(feed'.buffer, m)
            BY <1>3, <2>2, <3>1, <3>2
        <3>6. feed'.on => m \in page'.messages \/ Says(feed'.buffer, m) \/ Says(unsaid, m)
            BY <1>2, <1>3, <2>2, <3>1, <3>2
        <3> QED BY <3>1, <3>4, <3>5, <3>6
    <2>7. ReadsInv'
        BY <1>2, <1>7, <2>6, ReadsKept DEF FlowInv
    <2> QED BY <1>4, <2>4, <2>7 DEF FlowInv
<1>8. CASE /\ e.name = "deleted" /\ page'.messages = page.messages \ {e.m}
           /\ page'.removed = page.removed \union {e.m} /\ reads' = reads
    <2>1. e.m \in Committed \ visible /\ \A m : ~Creates(e, m)
        BY <1>1, <1>8 DEF FlowInv, KnownInv, Creates
    <2>2. KnownInv'
        <3>1. page'.messages \subseteq Committed /\ page'.removed \subseteq Committed \ visible
            BY <1>8, <2>1 DEF FlowInv, KnownInv
        <3>2. \A r \in reads' : r.list \subseteq Committed /\ r.from \in Committed \union {0}
            BY <1>8 DEF FlowInv, KnownInv
        <3> QED BY <1>6, <3>1, <3>2
    <2>3. \A m \in visible : m \in page.messages => m \in page'.messages
        BY <1>8, <2>1
    <2>4. page'.messages \subseteq page.messages
        BY <1>8
    <2>5. \A m : Says(feed.buffer, m) <=> Says(feed'.buffer, m)
        BY <1>3, <2>1
    <2>6. ASSUME NEW G \in SUBSET Committed, Complete(visible, page.messages, feed, unsaid, G)
          PROVE  Complete(visible, page'.messages, feed', unsaid, G)
        BY <1>2, <2>3, <2>4, <2>5, <2>6 DEF Complete
    <2>7. ReadsInv'
        BY <1>2, <1>8, <2>6, ReadsKept DEF FlowInv
    <2> QED BY <1>4, <2>2, <2>7 DEF FlowInv
<1>9. CASE /\ e.name = "cleared" /\ page'.messages = {}
           /\ page'.removed = page.removed /\ reads' = Outdated(reads)
    <2>1. reads \in SUBSET PageReads
        BY DEF StreamTypes
    <2>2. \A r \in reads' : r.old
        BY <1>9, <2>1, OutdatedFacts
    <2>3. \A r \in reads' : \E q \in reads : r = [q EXCEPT !.old = TRUE] /\ r.from = q.from /\ r.list = q.list /\ r.gone = q.gone
        BY <1>9, <2>1, OutdatedFacts
    <2>4. KnownInv'
        <3>1. page'.messages \subseteq Committed /\ page'.removed \subseteq Committed \ visible
            BY <1>9 DEF FlowInv, KnownInv
        <3>2. \A r \in reads' : r.list \subseteq Committed /\ r.from \in Committed \union {0}
            BY <2>3 DEF FlowInv, KnownInv
        <3> QED BY <1>6, <3>1, <3>2
    <2>5. Complete(visible, {}, feed', unsaid, {})
        <3>1. ASSUME NEW m \in visible
              PROVE  /\ feed.on => Says(feed'.buffer, m) \/ Says(unsaid, m)
                     /\ \A p \in Messages : Says(feed'.buffer, p) /\ m < p => Says(feed'.buffer, m)
            BY <1>1, <1>3, <1>9 DEF FlowInv, ClearsInv
        <3> QED BY <1>2, <3>1 DEF Complete
    <2>6. Resyncs' = {}
        BY <2>2 DEF Resyncs
    <2>7. \A r \in reads' : r.from = 0 => ~page'.ready /\ ~r.gone
        BY <1>2, <2>3 DEF FlowInv, ReadsInv
    <2>8. \A r, q \in reads' : r.from = 0 /\ q.from = 0 => r = q
        <3> SUFFICES ASSUME NEW r \in reads', NEW q \in reads', r.from = 0, q.from = 0
                     PROVE  r = q
            OBVIOUS
        <3>1. PICK r0 \in reads : r = [r0 EXCEPT !.old = TRUE] /\ r.from = r0.from
            BY <2>3
        <3>2. PICK q0 \in reads : q = [q0 EXCEPT !.old = TRUE] /\ q.from = q0.from
            BY <2>3
        <3>3. r0 = q0
            BY <3>1, <3>2 DEF FlowInv, ReadsInv
        <3> QED BY <3>1, <3>2, <3>3
    <2>9. ReadsInv'
        BY <1>2, <1>9, <2>2, <2>5, <2>6, <2>7, <2>8 DEF ReadsInv
    <2> QED BY <1>4, <2>4, <2>9 DEF FlowInv
<1> QED BY <1>7, <1>8, <1>9, PushedEffect

\* The board answers with all there is from where the read starts.
LEMMA AnswerKeepsFlow ==
    ASSUME StreamTypes, FlowInv, NEW r \in reads, BoardAnswers(r), UNCHANGED boardVars
    PROVE  FlowInv'
<1>1. PICK a \in PageReads :
             /\ a.from = r.from /\ a.answered /\ a.old = r.old
             /\ a.gone = (r.from \notin visible \union {0}) /\ a.list = ListMessages(r.from)
             /\ reads' = (reads \ {r}) \union {a}
             /\ UNCHANGED <<unsaid, feed, page, streamsOff, excused>>
    BY AnswerEffect
<1>2. UNCHANGED <<posted, opened, visible>> /\ visible \subseteq Messages /\ visible \subseteq Committed
    BY VisibleMessages DEF boardVars, Committed, StreamTypes
<1>3. r.from \in Nat /\ r.old \in BOOLEAN
    BY MessagesAreNumbers DEF StreamTypes, PageReads
<1>4. a.list = {m \in visible : m > r.from}
    BY <1>1 DEF ListMessages
<1>5. KnownInv' /\ OrderInv' /\ ClearsInv'
    <2>1. r.list \subseteq Committed /\ r.from \in Committed \union {0} /\ page.messages \subseteq Committed
        BY DEF FlowInv, KnownInv
    <2>2. \A q \in reads' : q.list \subseteq Committed /\ q.from \in Committed \union {0}
        BY <1>1, <1>2, <1>4, <2>1 DEF FlowInv, KnownInv
    <2> QED BY <1>1, <1>2, <2>1, <2>2, EventsKept
<1>6. Resyncs' = IF r \in Resyncs THEN (Resyncs \ {r}) \union {a} ELSE Resyncs
    BY <1>1 DEF Resyncs
<1>7. \A q \in reads' : q.from = 0 => ~page'.ready /\ ~q.gone
    BY <1>1 DEF FlowInv, ReadsInv
<1>8. \A q, t \in reads' : q.from = 0 /\ t.from = 0 => q = t
    BY <1>1 DEF FlowInv, ReadsInv
<1>9. \A q, t \in Resyncs' : q = t
    BY <1>6 DEF FlowInv, ReadsInv
<1>10. \A q \in Resyncs' : page'.ready /\ \A m \in visible' : q.from <= m
    BY <1>1, <1>2, <1>6 DEF FlowInv, ReadsInv
<1>11. ~a.gone /\ ~a.old => Complete(visible, page.messages, feed, unsaid, Got(a))
    <2> SUFFICES ASSUME ~a.gone, ~a.old PROVE visible \subseteq Got(a)
        BY DEF Complete
    <2>1. CASE r.from = 0
        BY <1>1, <1>2, <1>4, <2>1, MessagesAreNumbers DEF Got
    <2>2. CASE r.from # 0
        <3>1. \A m \in visible : r.from <= m
            BY <1>1, <2>2 DEF FlowInv, ReadsInv, Resyncs
        <3>2. \A m \in visible : m \in Nat
            BY <1>2, MessagesAreNumbers
        <3>3. \A m \in visible : m = r.from \/ m > r.from
            BY <1>3, <3>1, <3>2
        <3> QED BY <1>1, <1>4, <2>2, <3>3 DEF Got
    <2> QED BY <2>1, <2>2
<1>12. \A q \in reads' : q.answered /\ ~q.gone /\ ~q.old => Complete(visible, page.messages, feed, unsaid, Got(q))
    BY <1>1, <1>11 DEF FlowInv, ReadsInv
<1>13. \A q \in reads' : q.from = 0 /\ q.old => Complete(visible, page.messages, feed, unsaid, {})
    BY <1>1 DEF FlowInv, ReadsInv
<1>14. page.ready /\ Resyncs' = {} => Complete(visible, page.messages, feed, unsaid, {})
    <2>1. Resyncs' = {} => Resyncs = {}
        BY <1>6
    <2> QED BY <2>1 DEF FlowInv, ReadsInv
<1>15. ReadsInv'
    BY <1>1, <1>2, <1>7, <1>8, <1>9, <1>10, <1>12, <1>13, <1>14 DEF ReadsInv
<1> QED BY <1>5, <1>15 DEF FlowInv

\* The page has loaded and shows all there is.
LEMMA LoadKeepsFlow ==
    ASSUME StreamTypes, FlowInv, NEW r \in reads, LoadApplies(r), UNCHANGED boardVars
    PROVE  FlowInv'
<1> DEFINE P == page'.messages
<1>1. /\ r.answered /\ r.from = 0 /\ reads' = reads \ {r}
      /\ page'.removed = page.removed /\ page'.ready
      /\ P = IF r.old THEN page.messages ELSE page.messages \union (r.list \ page.removed)
      /\ UNCHANGED <<unsaid, feed, posted, opened, visible>>
    BY LoadEffect DEF boardVars
<1>2. /\ page.messages \subseteq Committed /\ r.list \subseteq Committed
      /\ \A m \in visible : m \notin page.removed
    BY DEF FlowInv, KnownInv
<1>3. KnownInv' /\ OrderInv' /\ ClearsInv'
    <2>1. P \subseteq Committed
        BY <1>1, <1>2
    <2>2. \A q \in reads' : q.list \subseteq Committed /\ q.from \in Committed \union {0}
        BY <1>1 DEF FlowInv, KnownInv
    <2> QED BY <1>1, <2>1, <2>2, EventsKept
<1>4. ~page.ready /\ ~r.gone /\ Resyncs = {}
    BY <1>1 DEF FlowInv, ReadsInv
<1>5. \A q \in reads' : q.from # 0 /\ q.old
    BY <1>1, <1>4 DEF FlowInv, ReadsInv, Resyncs
<1>6. Complete(visible, P, feed, unsaid, {})
    <2>1. CASE r.old
        BY <1>1, <2>1 DEF FlowInv, ReadsInv
    <2>2. CASE ~r.old
        <3>1. Complete(visible, page.messages, feed, unsaid, r.list)
            BY <1>1, <1>4, <2>2 DEF FlowInv, ReadsInv, Got
        <3>2. P = page.messages \union (r.list \ page.removed)
            BY <1>1, <2>2
        <3> HIDE DEF P
        <3>3. \A m \in visible : m \in r.list => m \in P
            BY <1>2, <3>2
        <3>4. \A m \in visible : m \in Nat /\ \A p \in r.list : p \in Nat /\ ~ (m < p /\ p < m)
            BY <1>2, VisibleMessages, MessagesAreNumbers DEF Committed
        <3> QED BY <3>1, <3>2, <3>3, <3>4 DEF Complete
    <2>3. r.old \in BOOLEAN
        BY DEF StreamTypes, PageReads
    <2> QED BY <2>1, <2>2, <2>3
<1>7. Resyncs' = {}
    BY <1>5 DEF Resyncs
<1>8. ReadsInv'
    BY <1>1, <1>5, <1>6, <1>7 DEF ReadsInv
<1> QED BY <1>3, <1>8 DEF FlowInv

\* The page has read again: it shows what the board told and what is newer.
LEMMA ResyncKeepsFlow ==
    ASSUME StreamTypes, FlowInv, NEW r \in reads, ResyncApplies(r), UNCHANGED boardVars
    PROVE  FlowInv'
<1>1. /\ r.answered /\ r.from # 0 /\ page'.removed = page.removed /\ reads' \subseteq PageReads
      /\ UNCHANGED <<unsaid, feed, posted, opened, visible>>
    BY ResyncEffect DEF boardVars
<1>2. /\ page.messages \subseteq Committed /\ r.list \subseteq Committed /\ r.from \in Committed
      /\ \A m \in visible : m \notin page.removed
    BY <1>1 DEF FlowInv, KnownInv
<1>3. \A q \in reads : q.list \subseteq Committed /\ q.from \in Committed \union {0}
    BY DEF FlowInv, KnownInv
<1>4. CASE page'.messages = {} /\ ~page'.ready /\ reads' = AskLatest(Outdated(reads \ {r}))
    <2>1. reads \ {r} \in SUBSET reads /\ {} \subseteq Committed
        OBVIOUS
    <2>2. \A q \in reads' : /\ (q.from # 0 /\ q.old) \/ q = Ask(0)
                            /\ q.list \subseteq Committed /\ q.from \in Committed \union {0}
        BY <1>4, <2>1, ReloadingReads
    <2>3. KnownInv' /\ OrderInv' /\ ClearsInv'
        BY <1>1, <1>4, <2>1, <2>2, EventsKept
    <2>4. ReadsInv'
        BY <1>1, <1>4, <2>2, LoadingIsSound
    <2> QED BY <2>3, <2>4 DEF FlowInv
<1>5. CASE r.old /\ page' = page /\ reads' = reads \ {r}
    <2>1. KnownInv' /\ OrderInv' /\ ClearsInv'
        BY <1>1, <1>2, <1>3, <1>5, EventsKept
    <2>2. Resyncs' = Resyncs
        BY <1>5 DEF Resyncs
    <2>3. ReadsInv'
        BY <1>1, <1>5, <2>2 DEF FlowInv, ReadsInv
    <2> QED BY <2>1, <2>3 DEF FlowInv
<1>6. CASE /\ ~r.gone /\ ~r.old /\ page'.ready = page.ready /\ reads' = reads \ {r}
           /\ page'.messages = FreshAndPushed(r) \ page.removed
    <2> DEFINE A == r.list \union {r.from}
               P == page'.messages
    <2>1. A \in SUBSET Messages /\ A # {} /\ A \subseteq Committed /\ MaxMessages \in Nat
        BY <1>1, <1>2, MessagesAreNumbers DEF StreamTypes, PageReads
    <2>2. Max(A) \in A /\ \A m \in A : m <= Max(A)
        BY <2>1, MessagesAreNumbers, Latest
    <2>3. P = (A \union {m \in page.messages : m > Max(A)}) \ page.removed
        BY <1>6 DEF FreshAndPushed
    <2>4. r \in Resyncs
        BY <1>1, <1>6 DEF Resyncs
    <2>5. Resyncs' = {} /\ page.ready
        BY <1>6, <2>4 DEF FlowInv, ReadsInv, Resyncs
    <2>6. Complete(visible, page.messages, feed, unsaid, A)
        BY <1>1, <1>6 DEF FlowInv, ReadsInv, Got
    <2> HIDE DEF A, P
    <2>7. KnownInv' /\ OrderInv' /\ ClearsInv'
        <3>1. page'.messages \subseteq Committed
            BY <1>2, <2>1, <2>3 DEF P
        <3> QED BY <1>1, <1>3, <1>6, <3>1, EventsKept
    <2>8. \A m \in visible : m \in A => m \in P
        BY <1>2, <2>3
    <2>9. \A m \in visible : m \notin A => m > Max(A)
        BY <2>2, <2>6 DEF Complete
    <2>10. \A m \in visible : m \notin A /\ m \in page.messages => m \in P
        BY <1>2, <2>3, <2>9
    <2>11. \A p \in P : p \in page.messages \/ p \in A
        BY <2>3
    <2>12. \A m \in visible, p \in A : m \notin A => ~ (m < p)
        <3>1. \A m \in visible : m \in Nat
            BY VisibleMessages, MessagesAreNumbers
        <3>2. A \subseteq Nat
            BY <2>1, MessagesAreNumbers
        <3> QED BY <2>6, <3>1, <3>2 DEF Complete
    <2>13. Complete(visible, P, feed, unsaid, {})
        BY <2>6, <2>8, <2>10, <2>11, <2>12 DEF Complete
    <2>14. \A q \in reads' : q.from # 0 /\ q.old
        <3>1. \A q \in reads : q.from # 0
            BY <2>5 DEF FlowInv, ReadsInv
        <3> QED BY <1>6, <2>5, <3>1 DEF Resyncs
    <2>15. ReadsInv'
        BY <1>1, <1>6, <2>5, <2>13, <2>14 DEF ReadsInv, P
    <2> QED BY <2>7, <2>15 DEF FlowInv
<1> QED BY <1>4, <1>5, <1>6, ResyncEffect

LEMMA FailureKeepsFlow ==
    ASSUME StreamTypes, FlowInv, NEW r \in reads, ReadFails(r), excused' = {}, UNCHANGED boardVars
    PROVE  FlowInv'
<1>1. /\ r.from = 0 /\ reads' = reads \ {r}
      /\ UNCHANGED <<unsaid, feed, page, posted, opened, visible>>
    BY DEF ReadFails, Excuse, boardVars
<1>2. page.messages \subseteq Committed /\ \A q \in reads : q.list \subseteq Committed /\ q.from \in Committed \union {0}
    BY DEF FlowInv, KnownInv
<1>3. KnownInv' /\ OrderInv' /\ ClearsInv'
    BY <1>1, <1>2, EventsKept
<1>4. Resyncs' = Resyncs
    BY <1>1 DEF Resyncs
<1>5. ReadsInv'
    BY <1>1, <1>4 DEF FlowInv, ReadsInv
<1> QED BY <1>3, <1>5 DEF FlowInv

LEMMA StreamsInitHolds == BoardInit /\ StreamsInit => StreamsInv
<1> SUFFICES ASSUME BoardInit, StreamsInit PROVE StreamsInv
    OBVIOUS
<1>1. StreamTypes
    BY StreamInitTypes
<1>2. unsaid = <<>> /\ feed.buffer = <<>> /\ reads = {} /\ ~page.ready /\ page.messages = {} /\ page.removed = {}
    BY DEF StreamsInit, NoFeed
<1>3. DOMAIN unsaid = {} /\ DOMAIN feed.buffer = {}
    BY <1>2
<1>4. \A m : ~Says(unsaid, m) /\ ~Says(feed.buffer, m)
    BY <1>3 DEF Says
<1>5. KnownInv
    BY <1>2, <1>3, <1>4 DEF KnownInv
<1>6. OrderInv
    BY <1>3, <1>4 DEF OrderInv, InOrder, Precedes
<1>7. ClearsInv
    BY <1>3 DEF ClearsInv
<1>8. ReadsInv
    BY <1>2 DEF ReadsInv, Resyncs
<1> QED BY <1>1, <1>5, <1>6, <1>7, <1>8 DEF StreamsInv, FlowInv

LEMMA PageStepKeepsFlow ==
    ASSUME StreamTypes, FlowInv, PageStep, UNCHANGED boardVars, excused' = {}
    PROVE  FlowInv'
<1>1. ASSUME NEW i \in DOMAIN unsaid, PublishEvent(i) PROVE FlowInv'
    BY <1>1, PublishKeepsFlow
<1>2. CASE CloseStreams
    BY <1>2, CloseKeepsFlow
<1>3. CASE Subscribe
    BY <1>3, SubscribeKeepsFlow
<1>4. CASE Refused
    BY <1>4, RefusedKeepsFlow
<1>5. CASE Opens
    BY <1>5, OpensKeepsFlow
<1>6. CASE StreamEnds
    BY <1>6, StreamEndsKeepsFlow
<1>7. CASE Pushed
    BY <1>7, PushedKeepsFlow
<1>8. CASE StartAgain
    BY <1>8, StartAgainKeepsFlow
<1>9. ASSUME NEW r \in reads, BoardAnswers(r) \/ LoadApplies(r) \/ ResyncApplies(r) \/ ReadFails(r)
      PROVE  FlowInv'
    BY <1>9, AnswerKeepsFlow, LoadKeepsFlow, ResyncKeepsFlow, FailureKeepsFlow
<1> QED BY <1>1, <1>2, <1>3, <1>4, <1>5, <1>6, <1>7, <1>8, <1>9 DEF PageStep

\* Once excused, always excused.
LEMMA ExcusesStay ==
    ASSUME StreamTypes, StreamsNext, excused' = {}
    PROVE  excused = {}
<1>1. CASE InsertForStream \/ ClearCommits
    BY <1>1 DEF InsertForStream, ClearCommits, streamVars
<1>2. ASSUME NEW m \in Messages, PostCommits(m) \/ DeleteCommits(m) PROVE excused = {}
    BY <1>2 DEF PostCommits, DeleteCommits, Excuse
<1>3. CASE PageStep
    <2>1. ASSUME NEW i \in DOMAIN unsaid, PublishEvent(i) PROVE excused = {}
        BY <2>1 DEF PublishEvent, Excuse
    <2>2. CASE CloseStreams \/ Subscribe \/ Refused \/ StreamEnds \/ StartAgain
        BY <2>2 DEF CloseStreams, Subscribe, Refused, StreamEnds, StartAgain
    <2>3. CASE Opens
        BY <2>3 DEF Opens, Excuse
    <2>4. CASE Pushed
        BY <2>4, PushedEffect
    <2>5. ASSUME NEW r \in reads, BoardAnswers(r) \/ LoadApplies(r) \/ ResyncApplies(r) \/ ReadFails(r)
          PROVE  excused = {}
        BY <2>5 DEF BoardAnswers, LoadApplies, ResyncApplies, ReadFails, Excuse
    <2> QED BY <1>3, <2>1, <2>2, <2>3, <2>4, <2>5 DEF PageStep
<1> QED BY <1>1, <1>2, <1>3 DEF StreamsNext

LEMMA StreamsNextKeeps ==
    ASSUME StreamsInv, [StreamsNext]_<<boardVars, streamVars>>
    PROVE  StreamsInv'
<1> USE DEF StreamsInv
<1>1. CASE StreamsNext
    <2>1. StreamTypes'
        BY <1>1, BoardStepTypes, PageStepTypes DEF StreamsNext
    <2>2. ASSUME excused' = {} PROVE FlowInv'
        <3>1. FlowInv
            BY <1>1, <2>2, ExcusesStay
        <3>2. CASE InsertForStream
            BY <3>1, <3>2, InsertKeepsFlow
        <3>3. ASSUME NEW m \in Messages, PostCommits(m) \/ DeleteCommits(m) PROVE FlowInv'
            BY <2>2, <3>1, <3>3, PostKeepsFlow, DeleteKeepsFlow
        <3>4. CASE ClearCommits
            BY <3>1, <3>4, ClearKeepsFlow
        <3>5. CASE PageStep /\ UNCHANGED boardVars
            BY <2>2, <3>1, <3>5, PageStepKeepsFlow
        <3> QED BY <1>1, <3>2, <3>3, <3>4, <3>5 DEF StreamsNext
    <2> QED BY <2>1, <2>2
<1>2. CASE UNCHANGED <<boardVars, streamVars>>
    <2>1. UNCHANGED <<posted, byUser, opened, visible, unsaid, feed, page, reads, streamsOff, excused>>
        BY <1>2 DEF boardVars, streamVars
    <2>2. StreamTypes'
        BY <2>1 DEF StreamTypes
    <2>3. FlowInv => FlowInv'
        BY <2>1 DEF FlowInv, KnownInv, OrderInv, ClearsInv, ReadsInv, Resyncs, Committed
    <2> QED BY <2>1, <2>2, <2>3
<1> QED BY <1>1, <1>2

LEMMA SettledShowsAll == StreamsInv => PagesMissNothing
<1> SUFFICES ASSUME StreamsInv, Settled, excused = {} PROVE visible \subseteq page.messages
    BY DEF PagesMissNothing
<1>1. feed.state = "open" /\ feed.on /\ feed.buffer = <<>> /\ unsaid = <<>> /\ reads = {} /\ page.ready
    BY DEF Settled
<1>2. \A m : ~Says(feed.buffer, m) /\ ~Says(unsaid, m)
    BY <1>1 DEF Says
<1>3. Resyncs = {}
    BY <1>1 DEF Resyncs
<1>4. Complete(visible, page.messages, feed, unsaid, {})
    BY <1>1, <1>3 DEF StreamsInv, FlowInv, ReadsInv
<1> QED BY <1>1, <1>2, <1>4 DEF Complete

\* store.js, connect and resync, with publish of stream.go: a page that is connected, has
\* loaded and waits for nothing shows every message of the board, whatever was posted,
\* deleted, cleared, dropped, refused and read again before, for any number of messages,
\* buffer and connections: PagesMissNothing, with the excuses it names.
THEOREM PagesAreComplete == StreamsSpec => []PagesMissNothing
<1>1. BoardInit /\ StreamsInit => StreamsInv
    BY StreamsInitHolds
<1>2. StreamsInv /\ [StreamsNext]_<<boardVars, streamVars>> => StreamsInv'
    BY StreamsNextKeeps
<1>3. StreamsInv => PagesMissNothing
    BY SettledShowsAll
<1> QED BY <1>1, <1>2, <1>3, PTL DEF StreamsSpec

=============================================================================
