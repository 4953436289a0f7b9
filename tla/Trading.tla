------------------------------ MODULE Trading ------------------------------
(***************************************************************************)
(* One trading account of the Backend: backend/internal/trading (orders,   *)
(* matching engine, stops, max_dd risk control) and the account operations *)
(* of backend/internal/account that bear on it.                            *)
(*                                                                         *)
(* Every mutation is one transaction that first locks the account row, so  *)
(* it is one action.  Prices, risk marks and the engine's snapshot of a    *)
(* Tick are read before, outside any transaction: a call and a Tick are    *)
(* several actions, and everything may change in between.  Transactions of *)
(* different accounts do not touch each other.  A transaction that fails   *)
(* is rolled back and changes nothing.                                     *)
(*                                                                         *)
(* Quantities are lots and prices integers; the constants are to be chosen *)
(* so that averages, margins and fees are whole numbers.  The tolerances   *)
(* 1e-9 and 1e-8 of the code, below any amount, are left out.              *)
(***************************************************************************)
EXTENDS Integers, FiniteSetsExt

CONSTANTS Instruments,    \* (market, symbol, product) with symbols of their own
          Spot,           \* those whose product is spot
          Prices,         \* prices of the market
          Requests,       \* orders that callers place (at NoPrice: market orders)
          StopChanges,    \* changes of stops that callers ask for
          CloseSizes,     \* quantities that callers close (0: all)
          FeeUnit,        \* fee = quantity * price * rate, rates in 1/FeeUnit
          MakerRate, TakerRate,
          InitialBalance,
          LossLimit,      \* initial_balance * max_dd / 100
          HasMaxDD,       \* the account has a max_dd
          Clients,        \* concurrent API calls
          MaxOrders,      \* bound on the orders placed by callers
          MaxLots,        \* bound on the size of a position
          MaxRestarts     \* bound on the restarts of the process

NoPrice == 0
NoLevel == 0
Keep == -1   \* a level that SetStops leaves alone

ASSUME TradingAssumption ==
    /\ Spot \subseteq Instruments /\ IsFiniteSet(Instruments)
    /\ Prices \subseteq Nat \ {NoPrice} /\ CloseSizes \subseteq Nat
    /\ Requests \subseteq [inst : Instruments, delta : Int, leverage : Nat,
                            stopLoss : Nat, takeProfit : Nat, at : Nat]
    /\ StopChanges \subseteq [inst : Instruments, stopLoss : Nat \cup {Keep},
                               takeProfit : Nat \cup {Keep}]
    /\ FeeUnit \in Nat \ {0} /\ MakerRate \in Nat /\ TakerRate \in Nat
    /\ InitialBalance \in Nat /\ LossLimit \in Nat
    /\ HasMaxDD \in BOOLEAN /\ MaxOrders \in Nat
    /\ MaxLots \in Nat /\ MaxRestarts \in Nat

VARIABLES
    status,    \* accounts.status ("deleted": no row)
    balance, baseline,  \* accounts.balance, accounts.max_dd_baseline_equity
    stopped,   \* accounts.max_dd_stopped_at is set
    pos,       \* the position of each instrument (NoPosition: no row)
    orders,    \* limit orders
    placed,    \* orders placed by callers; ids of orders and positions
    price,     \* what the market's price is
    call,      \* the API call of each client, from its reads to its transaction
    tick,      \* the engine's Tick
    restarts,  \* restarts so far
    cash       \* history: money paid and received, had positions been bought

accountVars == <<status, balance, baseline, stopped>>
bookVars    == <<pos, orders, placed>>
vars == <<accountVars, bookVars, price, call, tick, restarts, cash>>

OrderIds == 1..MaxOrders

\* quantity is signed: a short position is negative.
NoPosition == [id |-> 0, quantity |-> 0, entry |-> 0, leverage |-> 1,
               stopLoss |-> NoLevel, takeProfit |-> NoLevel]
NoOrder == [status |-> "none"]
NoCall  == [op |-> "none"]
NoMarks == [i \in Instruments |-> NoPrice]
NoTick  == [pc |-> "idle", orders |-> {}, stops |-> {}, wanted |-> {}, list |-> {},
            marks |-> NoMarks, seen |-> FALSE, last |-> FALSE]

Init ==
    /\ status = "active" /\ balance = InitialBalance /\ stopped = FALSE
    /\ baseline = InitialBalance
    /\ pos = [i \in Instruments |-> NoPosition]
    /\ orders = [o \in OrderIds |-> NoOrder]
    /\ placed = 0
    /\ price \in [Instruments -> Prices]
    /\ call = [c \in Clients |-> NoCall]
    /\ tick = NoTick
    /\ restarts = 0
    /\ cash = InitialBalance

Open      == {i \in Instruments : pos[i].quantity # 0}
OpenOrders == {o \in OrderIds : orders[o].status = "open"}
Exists    == status # "deleted"

-----------------------------------------------------------------------------
(* Arithmetic of a fill. *)

Abs(n) == IF n < 0 THEN -n ELSE n
SameDirection(a, b) == (a > 0 /\ b > 0) \/ (a < 0 /\ b < 0)

Margin(p) == (Abs(p.quantity) * p.entry) \div p.leverage
Unrealized(p, mark) == (mark - p.entry) * p.quantity
Fee(quantity, at, rate) == (quantity * at * rate) \div FeeUnit
Locked(ps) == MapThenSumSet(LAMBDA i : Margin(ps[i]), Instruments)

\* Mutant: the part that is closed is valued at the whole quantity.
RealizedOfAll(p, delta, at) ==
    IF p.quantity = 0 \/ SameDirection(p.quantity, delta) THEN 0
    ELSE (at - p.entry) * p.quantity

\* Realized profit of a fill of delta lots.
Realized(p, delta, at) ==
    IF p.quantity = 0 \/ SameDirection(p.quantity, delta) THEN 0
    ELSE LET closing == Min({Abs(p.quantity), Abs(delta)})
         IN (at - p.entry) * (IF p.quantity > 0 THEN closing ELSE -closing)

\* applyFill: the position after a fill (id 0: to be created).
ApplyFill(p, delta, at, leverage) ==
    LET next  == p.quantity + delta
        keeps == SameDirection(next, p.quantity)
        entry == IF SameDirection(p.quantity, delta)
                 THEN (Abs(p.quantity) * p.entry + Abs(delta) * at) \div Abs(next)
                 ELSE IF keeps THEN p.entry ELSE at
    IN IF next = 0 THEN NoPosition
       ELSE [id |-> p.id, quantity |-> next, entry |-> entry,
             leverage   |-> IF keeps THEN p.leverage ELSE leverage,
             stopLoss   |-> IF keeps THEN p.stopLoss ELSE NoLevel,
             takeProfit |-> IF keeps THEN p.takeProfit ELSE NoLevel]

\* An order as settle sees it.  system: the reduce-only order of max_dd.
Ticket(inst, delta, leverage, stopLoss, takeProfit, reduceOnly, system) ==
    [inst |-> inst, delta |-> delta, leverage |-> leverage, stopLoss |-> stopLoss,
     takeProfit |-> takeProfit, reduceOnly |-> reduceOnly, system |-> system]

Filled(t, at) == ApplyFill(pos[t.inst], t.delta, at, t.leverage)

\* The business rules of settle that refuse a fill.
Refused(t, at, rate) ==
    LET p    == pos[t.inst]
        size == Abs(t.delta)
    IN \/ ~t.system /\ status # "active"
       \/ t.reduceOnly /\ size > Abs(p.quantity)
       \/ t.inst \in Spot /\ t.delta < 0 /\ size > p.quantity
       \/ p.leverage # t.leverage /\ SameDirection(p.quantity, t.delta)
       \/ ~t.system /\ Margin(Filled(t, at)) - Margin(p) + Fee(size, at, rate)
                         > balance - Locked(pos)

\* persistPosition: a level the order carries replaces the old one when the
\* position is on the order's side; a new position gets a new id.
Persisted(t, at, newId) ==
    LET p == Filled(t, at) IN
    IF p.quantity = 0 THEN p
    ELSE [p EXCEPT
            !.id = IF p.id = 0 THEN newId ELSE p.id,
            !.stopLoss = IF t.stopLoss # NoLevel /\ SameDirection(p.quantity, t.delta)
                         THEN t.stopLoss ELSE p.stopLoss,
            !.takeProfit = IF t.takeProfit # NoLevel /\ SameDirection(p.quantity, t.delta)
                           THEN t.takeProfit ELSE p.takeProfit]

\* settle, after its checks.
Settle(t, at, rate, newId) ==
    LET fee == Fee(Abs(t.delta), at, rate) IN
    /\ pos' = [pos EXCEPT ![t.inst] = Persisted(t, at, newId)]
    /\ balance' = balance + Realized(pos[t.inst], t.delta, at) - fee
    /\ cash' = cash - t.delta * at - fee

-----------------------------------------------------------------------------
(* Drawdown. *)

Equity(b, ps, marks) == b + MapThenSumSet(LAMBDA i : Unrealized(ps[i], marks[i]), Instruments)
Unmarked(ps, marks)  == \E i \in Instruments : ps[i].quantity # 0 /\ marks[i] = NoPrice
Breached(b, ps, marks) == HasMaxDD /\ Equity(b, ps, marks) <= baseline - LossLimit

\* An order that is no longer open; nothing reads the rest of it any more.
Ended(as) == [status |-> as]

\* checkMaxDD when the floor is reached: the mark and the cancellation of all
\* open orders (book: the orders after what else the transaction did).
Halt(book) ==
    /\ stopped' = TRUE
    /\ orders' = [o \in OrderIds |-> IF book[o].status = "open" THEN Ended("canceled")
                                                                ELSE book[o]]

\* The risk check after a fill.
PostCheck(book, marks) ==
    IF Breached(balance', pos', marks) THEN Halt(book)
                                      ELSE stopped' = stopped /\ orders' = book

\* The risk check before: it ends the transaction when the floor is reached.
Precheck(marks) ==
    /\ ~Unmarked(pos, marks)
    /\ Breached(balance, pos, marks)
    /\ Halt(orders)
    /\ UNCHANGED <<status, balance, baseline, pos, placed, cash>>

\* It lets the transaction go on.
Clear(marks) == HasMaxDD => ~Unmarked(pos, marks) /\ ~Breached(balance, pos, marks)

-----------------------------------------------------------------------------
(* Stops. *)

\* stopTriggered: the stop of p that fires at a price ("": none).
StopTriggered(p, at) ==
    LET long == p.quantity > 0 IN
    IF p.stopLoss # NoLevel /\ (IF long THEN at <= p.stopLoss ELSE at >= p.stopLoss)
    THEN "stop_loss"
    ELSE IF p.takeProfit # NoLevel /\ (IF long THEN at >= p.takeProfit ELSE at <= p.takeProfit)
    THEN "take_profit"
    ELSE ""

\* checkStopLevels.
LevelsFit(long, at, stopLoss, takeProfit) ==
    /\ stopLoss = NoLevel \/ (IF long THEN stopLoss < at ELSE stopLoss > at)
    /\ takeProfit = NoLevel \/ (IF long THEN takeProfit > at ELSE takeProfit < at)

LevelOr(level, fallback) == IF level = Keep THEN fallback ELSE level

\* normalize: an order that is taken up at all.
Normal(r) ==
    /\ r.delta # 0
    /\ r.leverage >= 1 /\ (r.inst \in Spot => r.leverage = 1)

-----------------------------------------------------------------------------
(* API calls: first the reads, then one transaction. *)

\* riskMarks: a price of every open position, read outside the transaction.
RiskMarks == [i \in Instruments |-> IF HasMaxDD /\ i \in Open THEN price[i] ELSE NoPrice]

Begin(c, request) ==
    /\ Exists /\ call[c] = NoCall
    /\ call' = [call EXCEPT ![c] = request]
    /\ UNCHANGED <<accountVars, pos, orders, price, tick, restarts, cash>>

OfCaller(r) == Ticket(r.inst, r.delta, r.leverage, r.stopLoss, r.takeProfit, FALSE, FALSE)

\* PlaceOrder of a limit order, up to its transaction; the id is drawn first.
BeginLimit(c, r) ==
    /\ placed < MaxOrders /\ placed' = placed + 1
    /\ r.at # NoPrice
    /\ Normal(r) /\ LevelsFit(r.delta > 0, r.at, r.stopLoss, r.takeProfit)
    /\ Begin(c, [op |-> "limit", id |-> placed', at |-> r.at, marks |-> RiskMarks,
                 ticket |-> OfCaller(r)])

\* PlaceOrder of a market order: the price it will be executed at ...
BeginMarket(c, r) ==
    /\ placed < MaxOrders /\ placed' = placed + 1
    /\ r.at = NoPrice
    /\ Normal(r) /\ LevelsFit(r.delta > 0, price[r.inst], r.stopLoss, r.takeProfit)
    /\ Begin(c, [op |-> "quoted", id |-> placed', at |-> price[r.inst], marks |-> NoMarks,
                 ticket |-> OfCaller(r)])

\* ... and then the marks of the risk checks.
ReadMarks(c) ==
    /\ call[c].op = "quoted" /\ Exists
    /\ call' = [call EXCEPT ![c] = [op |-> "market", id |-> call[c].id, at |-> call[c].at,
                                    marks |-> RiskMarks, ticket |-> call[c].ticket]]
    /\ UNCHANGED <<accountVars, bookVars, price, tick, restarts, cash>>

\* ClosePosition (quantity 0: all of it).
BeginClose(c, i, quantity) ==
    /\ ~stopped /\ i \in Open /\ quantity <= Abs(pos[i].quantity)
    /\ Begin(c, [op |-> "close", inst |-> i, id |-> pos[i].id, quantity |-> quantity,
                 at |-> price[i]])
    /\ UNCHANGED placed

\* SetStops.
BeginStops(c, i, stopLoss, takeProfit) ==
    LET sl == LevelOr(stopLoss, pos[i].stopLoss)
        tp == LevelOr(takeProfit, pos[i].takeProfit)
        at == IF sl # NoLevel \/ tp # NoLevel THEN price[i] ELSE NoPrice
    IN /\ ~stopped /\ i \in Open
       /\ stopLoss # Keep \/ takeProfit # Keep
       /\ LevelsFit(pos[i].quantity > 0, at, sl, tp)
       /\ Begin(c, [op |-> "stops", inst |-> i, id |-> pos[i].id, stopLoss |-> stopLoss,
                    takeProfit |-> takeProfit, at |-> at])
       /\ UNCHANGED placed

\* The call ends without an effect: an error of its reads or a refusal, or its
\* transaction failed.
Abort(c) ==
    /\ call[c] # NoCall
    /\ call' = [call EXCEPT ![c] = NoCall]
    /\ UNCHANGED <<accountVars, bookVars, price, tick, restarts, cash>>

\* The transaction of a call commits.
Ends(c) == call' = [call EXCEPT ![c] = NoCall] /\ UNCHANGED <<price, tick, restarts>>

\* Mutant: whether the account is stopped was looked at before the reads.
CommitLimitUnchecked(c) ==
    LET r == call[c] IN
    /\ r.op = "limit" /\ status = "active"
    /\ \/ Precheck(r.marks)
       \/ /\ Clear(r.marks)
          /\ orders' = [orders EXCEPT ![r.id] = [status |-> "open", at |-> r.at,
                                                 ticket |-> r.ticket]]
          /\ UNCHANGED <<accountVars, pos, placed, cash>>
    /\ Ends(c)

CommitLimit(c) ==
    LET r == call[c] IN
    /\ r.op = "limit" /\ status = "active" /\ ~stopped
    /\ \/ Precheck(r.marks)
       \/ /\ Clear(r.marks)
          /\ orders' = [orders EXCEPT ![r.id] = [status |-> "open", at |-> r.at,
                                                 ticket |-> r.ticket]]
          /\ UNCHANGED <<accountVars, pos, placed, cash>>
    /\ Ends(c)

\* Bound: the position stays within MaxLots.
Fits(t) == Abs(pos[t.inst].quantity + t.delta) <= MaxLots

\* What the risk check after a market fill looks at: its own price, and the marks.
MarksAt(r) == [r.marks EXCEPT ![r.ticket.inst] = r.at]

\* Mutant: the risk is not checked again after the fill.
CommitMarketWithoutPostCheck(c) ==
    LET r == call[c] IN
    /\ r.op = "market" /\ Exists /\ ~stopped
    /\ \/ Precheck(r.marks)
       \/ /\ Clear(r.marks)
          /\ Fits(r.ticket) /\ ~Refused(r.ticket, r.at, TakerRate)
          /\ Settle(r.ticket, r.at, TakerRate, r.id)
          /\ UNCHANGED <<status, baseline, placed, stopped, orders>>
    /\ Ends(c)

\* execute: the market order is filled, and the risk checked again.
CommitMarket(c) ==
    LET r == call[c] IN
    /\ r.op = "market" /\ Exists /\ ~stopped
    /\ \/ Precheck(r.marks)
       \/ /\ Clear(r.marks)
          /\ Fits(r.ticket) /\ ~Refused(r.ticket, r.at, TakerRate)
          /\ Settle(r.ticket, r.at, TakerRate, r.id)
          /\ PostCheck(orders, MarksAt(r))
          /\ UNCHANGED <<status, baseline, placed>>
    /\ Ends(c)

\* The order of closeAt for `quantity` lots of instrument i.
ClosingTicket(i, quantity, system) ==
    LET p    == pos[i]
        lots == IF quantity = 0 THEN Abs(p.quantity) ELSE quantity
    IN Ticket(i, IF p.quantity > 0 THEN -lots ELSE lots, p.leverage, NoLevel, NoLevel,
              TRUE, system)

\* Mutant: what the snapshot said is not looked at again.
CloseAtUnchecked(i, id, quantity, at, trigger) ==
    LET t == ClosingTicket(i, quantity, trigger = "max_dd") IN
    /\ Exists
    /\ i \in Open
    /\ ~Refused(t, at, TakerRate)
    /\ Settle(t, at, TakerRate, 0)
    /\ UNCHANGED <<status, baseline, stopped, orders, placed>>

\* closeAt: the position is read again under the lock.
CloseAt(i, id, quantity, at, trigger) ==
    LET t == ClosingTicket(i, quantity, trigger = "max_dd") IN
    /\ Exists
    /\ stopped = (trigger = "max_dd")
    /\ i \in Open /\ pos[i].id = id
    /\ trigger \in {"stop_loss", "take_profit"} => StopTriggered(pos[i], at) = trigger
    /\ ~Refused(t, at, TakerRate)
    /\ Settle(t, at, TakerRate, 0)
    /\ UNCHANGED <<status, baseline, stopped, orders, placed>>

CommitClose(c) ==
    LET r == call[c] IN
    /\ r.op = "close"
    /\ CloseAt(r.inst, r.id, r.quantity, r.at, "")
    /\ Ends(c)

CommitStops(c) ==
    LET r == call[c] IN
    /\ r.op = "stops" /\ Exists /\ ~stopped
    /\ r.inst \in Open /\ pos[r.inst].id = r.id
    /\ r.at # NoPrice => LevelsFit(pos[r.inst].quantity > 0, r.at,
                                   LevelOr(r.stopLoss, NoLevel), LevelOr(r.takeProfit, NoLevel))
    /\ pos' = [pos EXCEPT ![r.inst].stopLoss = LevelOr(r.stopLoss, @),
                          ![r.inst].takeProfit = LevelOr(r.takeProfit, @)]
    /\ Ends(c)
    /\ UNCHANGED <<accountVars, orders, placed, cash>>

\* Mutant: whether the order is still open is not looked at.
CancelAnyOrder(o) ==
    /\ orders[o].status # "none"
    /\ orders' = [orders EXCEPT ![o] = Ended("canceled")]
    /\ UNCHANGED <<accountVars, pos, placed, price, call, tick, restarts, cash>>

\* CancelOrder is one transaction.
CancelOrder(o) ==
    /\ orders[o].status = "open"
    /\ orders' = [orders EXCEPT ![o] = Ended("canceled")]
    /\ UNCHANGED <<accountVars, pos, placed, price, call, tick, restarts, cash>>

-----------------------------------------------------------------------------
(* The account service. *)

\* Update of the administrative status.
UpdateStatus(new) ==
    /\ Exists /\ status # new
    /\ status' = new
    /\ UNCHANGED <<balance, baseline, stopped, bookVars, price, call, tick, restarts, cash>>

\* Mutant: the liquidation is not waited for.
ResumeAnyway ==
    /\ Exists /\ HasMaxDD /\ stopped
    /\ baseline' = balance /\ stopped' = FALSE /\ status' = "active"
    /\ UNCHANGED <<balance, bookVars, price, call, tick, restarts, cash>>

ResumeTrading ==
    /\ Exists /\ HasMaxDD /\ stopped
    /\ Open = {} /\ OpenOrders = {}
    /\ baseline' = balance /\ stopped' = FALSE /\ status' = "active"
    /\ UNCHANGED <<balance, bookVars, price, call, tick, restarts, cash>>

\* The account's row is gone.
NoRow == status' = "deleted" /\ balance' = 0 /\ baseline' = 0 /\ stopped' = FALSE /\ cash' = 0

\* Mutant: the open orders are left behind.
DeletePositionsOnly ==
    /\ Exists
    /\ NoRow
    /\ pos' = [i \in Instruments |-> NoPosition]
    /\ UNCHANGED <<orders, placed, price, call, tick, restarts>>

\* Delete takes the positions and the open orders along.
Delete ==
    /\ Exists
    /\ NoRow
    /\ pos' = [i \in Instruments |-> NoPosition]
    /\ orders' = [o \in OrderIds |-> IF o \in OpenOrders THEN NoOrder ELSE orders[o]]
    /\ UNCHANGED <<placed, price, call, tick, restarts>>

-----------------------------------------------------------------------------
(* The matching engine: one Tick. *)

LimitTriggered(o, marks) ==
    LET mark == marks[orders[o].ticket.inst] IN
    /\ mark # NoPrice
    /\ IF orders[o].ticket.delta > 0 THEN mark <= orders[o].at ELSE mark >= orders[o].at

TickVars(pc) == tick' = [tick EXCEPT !.pc = pc]
Elsewhere    == UNCHANGED <<price, call, restarts>>
NoWrite      == UNCHANGED <<accountVars, bookVars, cash>>

\* The open orders, the positions with stops and, of an account with max_dd,
\* all positions.
TickLoad ==
    LET stops  == {i \in Open : pos[i].stopLoss # NoLevel \/ pos[i].takeProfit # NoLevel}
        wanted == {orders[o].ticket.inst : o \in OpenOrders} \cup stops
                  \cup (IF HasMaxDD THEN Open ELSE {})
    IN /\ tick.pc = "idle" /\ Exists
       /\ wanted # {} \/ HasMaxDD  \* else the Tick has nothing to look at
       /\ tick' = [NoTick EXCEPT !.pc = "prices", !.wanted = wanted, !.orders = OpenOrders,
                                 !.stops = {[inst |-> i, pos |-> pos[i]] : i \in stops}]
       /\ NoWrite /\ Elsewhere

\* collectPrices; no price could be had of the instruments in `missing`.
TickPrices(missing) ==
    LET marks == [i \in Instruments |-> IF i \in tick.wanted \ missing THEN price[i] ELSE NoPrice]
    IN /\ tick.pc = "prices"
       /\ missing \subseteq tick.wanted
       /\ tick' = [tick EXCEPT
            !.pc = IF HasMaxDD THEN "sweep" ELSE "orders",
            !.marks = marks, !.wanted = {},
            !.stops = {[inst |-> s.inst, id |-> s.pos.id,
                        trigger |-> StopTriggered(s.pos, marks[s.inst])] :
                         s \in {s \in tick.stops : /\ marks[s.inst] # NoPrice
                                                  /\ StopTriggered(s.pos, marks[s.inst]) # ""}}]
       /\ NoWrite /\ Elsewhere

\* Mutant: a stopped account is taken to be done.
SweepOnce ==
    /\ tick.pc = "sweep"
    /\ \/ /\ Exists /\ ~stopped
          /\ Precheck(tick.marks)
          /\ TickVars("list")
       \/ /\ ~Exists \/ stopped \/ Clear(tick.marks) \/ Unmarked(pos, tick.marks)
          /\ TickVars("swept")
          /\ NoWrite
    /\ Elsewhere

\* enforceMaxDD: the risk check; a stopped account is to be liquidated.
Sweep ==
    /\ tick.pc = "sweep"
    /\ \/ /\ Exists /\ ~stopped
          /\ Precheck(tick.marks)
          /\ TickVars("list")
       \/ /\ Exists /\ stopped
          /\ TickVars("list")
          /\ NoWrite
       \/ /\ ~Exists \/ (~stopped /\ (Clear(tick.marks) \/ Unmarked(pos, tick.marks)))
          /\ TickVars("swept")
          /\ NoWrite
    /\ Elsewhere

\* liquidateMaxDD lists the positions that have a price.
ListPositions ==
    /\ tick.pc = "list"
    /\ tick' = [tick EXCEPT !.pc = "liquidate",
                  !.list = {[inst |-> i, id |-> pos[i].id] :
                              i \in {i \in Open : tick.marks[i] # NoPrice}}]
    /\ NoWrite /\ Elsewhere

\* One position of the list, in a transaction of its own.  (The code takes them,
\* and the orders below, by created_at; here in any order.)
Liquidate(e) ==
    /\ tick.pc = "liquidate" /\ e \in tick.list
    /\ CloseAt(e.inst, e.id, 0, tick.marks[e.inst], "max_dd")
    /\ tick' = [tick EXCEPT !.list = @ \ {e}]
    /\ Elsewhere

\* It is gone, or its transaction fails: left to the next Tick.
LiquidateFails(e) ==
    /\ tick.pc = "liquidate" /\ e \in tick.list
    /\ tick' = [tick EXCEPT !.list = @ \ {e}]
    /\ NoWrite /\ Elsewhere

\* The liquidation at the end of the Tick is done.
LastDone ==
    /\ tick.pc = "liquidate" /\ tick.list = {} /\ tick.last
    /\ tick' = NoTick
    /\ NoWrite /\ Elsewhere

\* Which accounts are stopped after the sweep.
AfterSweep ==
    /\ tick.pc = "swept" \/ (tick.pc = "liquidate" /\ tick.list = {} /\ ~tick.last)
    /\ tick' = [tick EXCEPT !.pc = "orders", !.seen = Exists /\ stopped]
    /\ NoWrite /\ Elsewhere

NextOrder(o) == tick.pc = "orders" /\ o \in tick.orders

\* fillOpenOrder is called for it and finds it open.
Fillable(o) ==
    /\ NextOrder(o) /\ Exists
    /\ orders[o].status = "open" /\ LimitTriggered(o, tick.marks)

\* Mutant: the risk is not checked again after the fill.
FillWithoutPostCheck(o) ==
    LET r == orders[o] IN
    /\ Fillable(o)
    /\ Clear(tick.marks) /\ ~stopped
    /\ Fits(r.ticket) /\ ~Refused(r.ticket, r.at, MakerRate)
    /\ Settle(r.ticket, r.at, MakerRate, o)
    /\ orders' = [orders EXCEPT ![o] = Ended("filled")]
    /\ tick' = [tick EXCEPT !.orders = @ \ {o}]
    /\ UNCHANGED <<status, baseline, stopped, placed>> /\ Elsewhere

\* fillOpenOrder, at the order's price: it is filled ...
FillOpenOrder(o) ==
    LET r == orders[o] IN
    /\ Fillable(o)
    /\ Clear(tick.marks) /\ ~stopped
    /\ Fits(r.ticket) /\ ~Refused(r.ticket, r.at, MakerRate)
    /\ Settle(r.ticket, r.at, MakerRate, o)
    /\ PostCheck([orders EXCEPT ![o] = Ended("filled")], tick.marks)
    /\ tick' = [tick EXCEPT !.orders = @ \ {o}]
    /\ UNCHANGED <<status, baseline, placed>> /\ Elsewhere

\* ... or rejected by the business rules (canceled, were the account stopped) ...
RejectOpenOrder(o) ==
    LET r == orders[o] IN
    /\ Fillable(o)
    /\ stopped \/ (Clear(tick.marks) /\ Refused(r.ticket, r.at, MakerRate))
    /\ orders' = [orders EXCEPT ![o] = Ended(IF stopped THEN "canceled" ELSE "rejected")]
    /\ tick' = [tick EXCEPT !.orders = @ \ {o}]
    /\ UNCHANGED <<accountVars, pos, placed, cash>> /\ Elsewhere

\* ... or the risk check before it stops the account ...
FillHalts(o) ==
    /\ Fillable(o)
    /\ ~stopped /\ Precheck(tick.marks)
    /\ tick' = [tick EXCEPT !.orders = @ \ {o}]
    /\ Elsewhere

\* ... or nothing happens: not triggered, not open, no price, or a failure.
FillSkips(o) ==
    /\ NextOrder(o)
    /\ tick' = [tick EXCEPT !.orders = @ \ {o}]
    /\ NoWrite /\ Elsewhere

Stopping == tick.pc = "orders" /\ tick.orders = {}

\* After the orders: a stop that fired in the snapshot.
CloseStop(s) ==
    /\ Stopping /\ s \in tick.stops
    /\ CloseAt(s.inst, s.id, 0, tick.marks[s.inst], s.trigger)
    /\ tick' = [tick EXCEPT !.stops = @ \ {s}]
    /\ Elsewhere

CloseStopFails(s) ==
    /\ Stopping /\ s \in tick.stops
    /\ tick' = [tick EXCEPT !.stops = @ \ {s}]
    /\ NoWrite /\ Elsewhere

\* Accounts stopped since the sweep are liquidated in the same Tick.
CleanUp ==
    /\ Stopping /\ tick.stops = {}
    /\ tick' = IF HasMaxDD /\ ~tick.seen /\ Exists /\ stopped
               THEN [tick EXCEPT !.pc = "list", !.last = TRUE] ELSE NoTick
    /\ NoWrite /\ Elsewhere

-----------------------------------------------------------------------------
(* The market moves; the process is restarted. *)

PriceMoves(i, new) ==
    /\ Exists /\ price[i] # new
    /\ price' = [price EXCEPT ![i] = new]
    /\ UNCHANGED <<accountVars, bookVars, call, tick, restarts, cash>>

Restart ==
    /\ restarts < MaxRestarts /\ restarts' = restarts + 1
    /\ call' = [c \in Clients |-> NoCall]
    /\ tick' = NoTick
    /\ UNCHANGED <<accountVars, bookVars, price, cash>>

-----------------------------------------------------------------------------
Request(c) ==
    \/ \E r \in Requests : BeginMarket(c, r) \/ BeginLimit(c, r)
    \/ \E i \in Instruments, quantity \in CloseSizes : BeginClose(c, i, quantity)
    \/ \E s \in StopChanges : BeginStops(c, s.inst, s.stopLoss, s.takeProfit)

Commit(c) ==
    \/ CommitLimit(c)
    \/ CommitMarket(c)
    \/ CommitClose(c)
    \/ CommitStops(c)

Administer ==
    \/ \E new \in {"active", "disabled"} : UpdateStatus(new)
    \/ ResumeTrading
    \/ Delete

Tick ==
    \/ TickLoad
    \/ ListPositions
    \/ AfterSweep
    \/ LastDone
    \/ \E e \in tick.list : LiquidateFails(e) \/ Liquidate(e)
    \/ \E o \in tick.orders : \/ FillSkips(o) \/ FillOpenOrder(o)
                              \/ RejectOpenOrder(o) \/ FillHalts(o)
    \/ \E s \in tick.stops : CloseStopFails(s) \/ CloseStop(s)
    \/ CleanUp
    \/ \E missing \in SUBSET Instruments : TickPrices(missing)
    \/ Sweep

Next ==
    \/ \E c \in Clients : Request(c) \/ ReadMarks(c) \/ Commit(c) \/ Abort(c)
    \/ \E o \in OrderIds : CancelOrder(o)
    \/ Administer
    \/ Tick
    \/ \E i \in Instruments, new \in Prices : PriceMoves(i, new)
    \/ Restart

Spec == Init /\ [][Next]_vars

\* The engine keeps ticking, prices can be had again and again, and a
\* liquidation that is tried again and again goes through once.
FairSpec ==
    /\ Spec
    /\ WF_vars(Tick)
    /\ SF_vars(TickPrices({}))
    /\ SF_vars(\E e \in tick.list : Liquidate(e))

-----------------------------------------------------------------------------
(* Properties. *)

PositionType ==
    [id : 0..MaxOrders, quantity : -MaxLots..MaxLots, entry : Nat, leverage : Nat \ {0},
     stopLoss : Nat, takeProfit : Nat]

\* Types, and rows are consistent: a position has an id exactly when it has
\* lots, no two have the same one.
TypeOK ==
    /\ status \in {"active", "disabled", "deleted"}
    /\ balance \in Int /\ baseline \in Int /\ cash \in Int /\ stopped \in BOOLEAN
    /\ pos \in [Instruments -> PositionType]
    /\ \A i \in Instruments : (pos[i] = NoPosition) <=> (pos[i].quantity = 0)
    /\ \A i, j \in Open : pos[i].id = pos[j].id => i = j
    /\ \A o \in OrderIds : orders[o].status \in {"none", "open", "filled", "rejected", "canceled"}
    /\ placed \in 0..MaxOrders
    /\ price \in [Instruments -> Prices]
    /\ tick.pc \in {"idle", "prices", "sweep", "list", "liquidate", "swept", "orders"}

\* Money is neither made nor lost: the balance is what was paid and received
\* plus the cost of what is held, so equity is cash plus the market value, however
\* positions were averaged, reduced and reversed.
MoneyIsConserved ==
    Exists => balance = cash + MapThenSumSet(LAMBDA i : pos[i].quantity * pos[i].entry, Instruments)

\* The account's rows agree with each other and with the money that moved.
AccountIsSound == TypeOK /\ MoneyIsConserved

\* plan-account-max-dd.md F.1: a stop and the cancellation of all open orders
\* are one; no call or Tick that read the account before adds one after it.
StoppedHasNoOpenOrder == stopped => OpenOrders = {}

\* A deleted account leaves no position and no open order behind, also when calls
\* and a Tick were under way.
DeletedLeavesNothing == ~Exists => Open = {} /\ OpenOrders = {}

\* plan-account-max-dd.md C2, D4: while the account is stopped positions only
\* disappear, one whole position at a time, and nothing else of them changes; it
\* is resumed only when all have.
StoppedOnlyShrinks ==
    [][stopped =>
         /\ \A i \in Instruments : pos'[i] \in {pos[i], NoPosition}
         /\ Cardinality({i \in Instruments : pos'[i] # pos[i]}) <= 1 \/ ~Exists'
         /\ ~stopped' => Open = {} \/ ~Exists']_vars

\* An order ends once: filled, rejected and canceled orders stay as they are,
\* whatever an old snapshot says of them.
OrdersEndOnce ==
    [][\A o \in OrderIds :
         orders[o].status \in {"filled", "rejected", "canceled"} => orders'[o] = orders[o]]_vars

\* SPEC.md 21.2: a close, manual or of the engine, reduces the position it was
\* aimed at and never opens the other side; a stop closes only what its present
\* level closes, a liquidation only what belongs to a stopped account.
ClosesAreAimed ==
    [][\A i \in Instruments :
         /\ (\E c \in Clients : call[c].op = "close" /\ call'[c] # call[c]) /\ pos'[i] # pos[i] =>
                \E c \in Clients : /\ call[c].op = "close" /\ call[c].id = pos[i].id
                                   /\ Abs(pos'[i].quantity) < Abs(pos[i].quantity)
                                   /\ ~SameDirection(pos'[i].quantity, -pos[i].quantity)
         /\ tick.pc = "liquidate" /\ tick'.pc = "liquidate" /\ tick' # tick /\ pos'[i] # pos[i] =>
                stopped /\ \E e \in tick.list : e.id = pos[i].id
         /\ Stopping /\ tick' # tick /\ pos'[i] # pos[i] =>
                \E s \in tick.stops : /\ s.id = pos[i].id
                                      /\ StopTriggered(pos[i], tick.marks[i]) = s.trigger]_vars

\* plan-account-max-dd.md C4: an order that is filled, a limit order by the Tick or
\* a market order by its caller's transaction, and takes the equity to the floor, by
\* its fee or its loss, stops the account in the same transaction.  (A close is no
\* order that is checked again: closeAt looks at nothing afterwards, and what its fee
\* did is seen by the sweep of the next Tick.)
FillsRespectTheFloor ==
    [][/\ \A o \in OrderIds :
            orders[o].status = "open" /\ orders'[o].status = "filled" =>
                stopped' \/ ~Breached(balance', pos', tick.marks)
       /\ \A c \in Clients :
            call[c].op = "market" /\ call'[c] = NoCall /\ pos' # pos =>
                stopped' \/ ~Breached(balance', pos', MarksAt(call[c]))]_vars

\* The loss limit is kept from both sides: reaching the floor stops the account,
\* and a stopped account does nothing but close.
FloorIsEnforced == FillsRespectTheFloor /\ StoppedOnlyShrinks

\* A stopped account is liquidated in the end, whatever the market does and
\* however often a transaction fails or the process is restarted.
StoppedIsLiquidated == stopped ~> Open = {}
=============================================================================
