--------------------------- MODULE TradingProofs ---------------------------
(***************************************************************************)
(* Theorems about Trading, for any instruments, prices, callers, requests  *)
(* and limits.                                                             *)
(***************************************************************************)
EXTENDS Trading, FiniteSetTheorems, TLAPS

\* The row of a stopped or deleted account.
QuietInv ==
    /\ DOMAIN pos = Instruments /\ DOMAIN orders = OrderIds
    /\ stopped => \A o \in OrderIds : orders[o].status # "open"
    /\ ~Exists => /\ \A i \in Instruments : pos[i].quantity = 0
                  /\ \A o \in OrderIds : orders[o].status # "open"

\* The call has drawn an order id that is not in the table yet.
Drawn(c) == call[c].op \in {"limit", "quoted", "market"}

\* Ids that were drawn and are not in the table yet belong to one call each.
FreshInv ==
    /\ placed \in Nat /\ DOMAIN call = Clients
    /\ \A c \in Clients : Drawn(c) =>
            call[c].id \in OrderIds /\ call[c].id <= placed /\ orders[call[c].id].status = "none"
    /\ \A c, d \in Clients : Drawn(c) /\ Drawn(d) /\ c # d => call[c].id # call[d].id
    /\ \A o \in OrderIds : o > placed => orders[o].status = "none"

AccountInv == QuietInv /\ FreshInv

\* What a step does to the orders: only open orders change, and nobody writes
\* an id that is not in the table yet but the call that drew it.
OrderStep ==
    \A o \in OrderIds :
        \/ orders'[o] = orders[o]
        \/ orders[o].status = "open"
        \/ \E c \in Clients : Drawn(c) /\ call[c].id = o /\ call'[c] = NoCall

\* What a step does to the calls: none has an order id that did not before,
\* or one has drawn the next id.
CallStep ==
    /\ DOMAIN call' = Clients
    /\ \/ placed' = placed /\ \A c \in Clients : Drawn(c)' => Drawn(c) /\ call'[c].id = call[c].id
       \/ /\ placed' = placed + 1 /\ orders' = orders /\ placed' \in OrderIds
          /\ \E c \in Clients : /\ Drawn(c)' => call'[c].id = placed'
                                /\ \A d \in Clients : d # c => call'[d] = call[d]

\* The stop mark and its cancellations, whatever else the transaction did.
LEMMA HaltOrders ==
    ASSUME NEW book, DOMAIN book = OrderIds, Halt(book)
    PROVE  /\ DOMAIN orders' = OrderIds
           /\ \A o \in OrderIds : /\ orders'[o].status # "open"
                                  /\ orders'[o] = book[o]
                                     \/ (book[o].status = "open" /\ orders'[o].status = "canceled")
BY DEF Halt, Ended

\* A risk check after a fill leaves the orders as the fill did or cancels.
LEMMA PostCheckOrders ==
    ASSUME NEW book, NEW marks, DOMAIN book = OrderIds, PostCheck(book, marks)
    PROVE  /\ DOMAIN orders' = OrderIds
           /\ (\A o \in OrderIds : orders'[o].status # "open") \/ (stopped' = stopped)
           /\ \A o \in OrderIds : \/ orders'[o] = book[o]
                                  \/ book[o].status = "open" /\ orders'[o].status = "canceled"
<1>1. CASE Halt(book)
    BY <1>1, HaltOrders
<1>2. CASE stopped' = stopped /\ orders' = book
    BY <1>2
<1> QED BY <1>1, <1>2 DEF PostCheck

\* A risk check that stops the account before the order.
LEMMA PrecheckStep ==
    ASSUME QuietInv, NEW marks, Precheck(marks)
    PROVE  /\ QuietInv' /\ placed' = placed
           /\ \A o \in OrderIds : \/ orders'[o] = orders[o]
                                  \/ orders[o].status = "open" /\ orders'[o].status = "canceled"
<1>1. Halt(orders) /\ UNCHANGED <<status, pos, placed>>
    BY DEF Precheck
<1>2. DOMAIN orders = OrderIds
    BY DEF QuietInv
<1> QED BY <1>1, <1>2, HaltOrders DEF QuietInv, Exists

USE DEF accountVars, bookVars

\* Every step keeps QuietInv: stop and cancellation are one, and what is added
\* to an account is added under a fresh look at its row.
LEMMA QuietStep ==
    ASSUME QuietInv, Next
    PROVE  QuietInv'
<1>1. ASSUME NEW c \in Clients, Request(c) PROVE QuietInv'
    BY <1>1 DEF Request, BeginMarket, BeginLimit, BeginClose, BeginStops, Begin, QuietInv, Exists
<1>2. ASSUME NEW c \in Clients, ReadMarks(c) PROVE QuietInv'
    BY <1>2 DEF ReadMarks, QuietInv, Exists
<1>3. ASSUME NEW c \in Clients, Commit(c) PROVE QuietInv'
    <2>1. CASE CommitLimit(c)
        <3>1. CASE Precheck(call[c].marks)
            BY <3>1, PrecheckStep
        <3>2. CASE ~Precheck(call[c].marks)
            BY <2>1, <3>2 DEF CommitLimit, QuietInv, Exists
        <3> QED BY <3>1, <3>2
    <2>2. CASE CommitMarket(c)
        <3>1. CASE Precheck(call[c].marks)
            BY <3>1, PrecheckStep
        <3>2. CASE ~Precheck(call[c].marks)
            <4>1. PICK marks : PostCheck(orders, marks)
                BY <2>2, <3>2 DEF CommitMarket
            <4>2. Exists /\ ~stopped /\ status' = status
                BY <2>2, <3>2 DEF CommitMarket
            <4>3. DOMAIN pos' = Instruments
                BY <2>2, <3>2 DEF CommitMarket, Settle, QuietInv
            <4> QED BY <4>1, <4>2, <4>3, PostCheckOrders DEF QuietInv, Exists
        <3> QED BY <3>1, <3>2
    <2>3. CASE CommitClose(c)
        BY <2>3 DEF CommitClose, CloseAt, Settle, QuietInv, Exists
    <2>4. CASE CommitStops(c)
        BY <2>4 DEF CommitStops, QuietInv, Exists
    <2> QED BY <1>3, <2>1, <2>2, <2>3, <2>4 DEF Commit
<1>4. ASSUME NEW c \in Clients, Abort(c) PROVE QuietInv'
    BY <1>4 DEF Abort, QuietInv, Exists
<1>5. ASSUME NEW o \in OrderIds, CancelOrder(o) PROVE QuietInv'
    BY <1>5 DEF CancelOrder, Ended, QuietInv, Exists
<1>6. CASE Administer
    <2>1. ASSUME NEW new \in {"active", "disabled"}, UpdateStatus(new) PROVE QuietInv'
        BY <2>1 DEF UpdateStatus, QuietInv, Exists
    <2>2. CASE ResumeTrading
        BY <2>2 DEF ResumeTrading, QuietInv, Exists
    <2>3. CASE Delete
        BY <2>3 DEF Delete, NoRow, NoPosition, NoOrder, OpenOrders, QuietInv, Exists
    <2> QED BY <1>6, <2>1, <2>2, <2>3 DEF Administer
<1>7. CASE Tick
    <2>1. CASE NoWrite
        BY <2>1 DEF NoWrite, QuietInv, Exists
    <2>2. CASE Sweep
        <3>1. CASE Precheck(tick.marks)
            BY <3>1, PrecheckStep
        <3> QED BY <2>1, <2>2, <3>1 DEF Sweep
    <2>3. ASSUME NEW e \in tick.list, Liquidate(e) \/ LiquidateFails(e) PROVE QuietInv'
        BY <2>3 DEF Liquidate, LiquidateFails, NoWrite, CloseAt, Settle, QuietInv, Exists
    <2>4. ASSUME NEW o \in tick.orders, FillOpenOrder(o) PROVE QuietInv'
        <3> DEFINE book == [orders EXCEPT ![o] = Ended("filled")]
        <3>1. PostCheck(book, tick.marks) /\ ~stopped /\ status' = status
            BY <2>4 DEF FillOpenOrder
        <3>2. DOMAIN book = OrderIds /\ \A p \in OrderIds : book[p].status = "open" =>
                                                            orders[p].status = "open"
            BY DEF QuietInv, Ended
        <3>3. DOMAIN pos' = Instruments
            BY <2>4 DEF FillOpenOrder, Settle, QuietInv
        <3>4. Exists
            BY <2>4 DEF FillOpenOrder, Fillable
        <3> QED BY <3>1, <3>2, <3>3, <3>4, PostCheckOrders DEF QuietInv, Exists
    <2>5. ASSUME NEW o \in tick.orders, RejectOpenOrder(o) PROVE QuietInv'
        BY <2>5 DEF RejectOpenOrder, Ended, QuietInv, Exists
    <2>6. ASSUME NEW o \in tick.orders, FillHalts(o) PROVE QuietInv'
        BY <2>6, PrecheckStep DEF FillHalts
    <2>7. ASSUME NEW o \in tick.orders, FillSkips(o) PROVE QuietInv'
        BY <2>1, <2>7 DEF FillSkips
    <2>8. ASSUME NEW s \in tick.stops, CloseStop(s) \/ CloseStopFails(s) PROVE QuietInv'
        BY <2>8 DEF CloseStop, CloseStopFails, NoWrite, CloseAt, Settle, QuietInv, Exists
    <2>9. TickLoad \/ (\E missing \in SUBSET Instruments : TickPrices(missing))
          \/ ListPositions \/ AfterSweep \/ LastDone \/ CleanUp => NoWrite
        BY DEF TickLoad, TickPrices, ListPositions, AfterSweep, LastDone, CleanUp
    <2> QED BY <1>7, <2>1, <2>2, <2>3, <2>4, <2>5, <2>6, <2>7, <2>8, <2>9 DEF Tick
<1>8. ASSUME NEW i \in Instruments, NEW new \in Prices, PriceMoves(i, new) PROVE QuietInv'
    BY <1>8 DEF PriceMoves, QuietInv, Exists
<1>9. CASE Restart
    BY <1>9 DEF Restart, QuietInv, Exists
<1> QED BY <1>1, <1>2, <1>3, <1>4, <1>5, <1>6, <1>7, <1>8, <1>9 DEF Next

\* Every step is an OrderStep and a CallStep.
LEMMA StepShape ==
    ASSUME AccountInv, Next
    PROVE  OrderStep /\ CallStep
<1> USE DEF AccountInv
<1>a. DOMAIN orders = OrderIds /\ DOMAIN call = Clients
    BY DEF QuietInv, FreshInv
<1>b. ASSUME UNCHANGED <<orders, call, placed>> PROVE OrderStep /\ CallStep
    BY <1>a, <1>b DEF OrderStep, CallStep, Drawn
<1>c. ASSUME NEW marks, Precheck(marks) PROVE OrderStep /\ placed' = placed
    BY <1>c, PrecheckStep DEF OrderStep
<1>d. ASSUME NEW c \in Clients, Ends(c), placed' = placed PROVE CallStep
    BY <1>a, <1>d DEF Ends, CallStep, Drawn, NoCall
<1>1. ASSUME NEW c \in Clients, Request(c) PROVE OrderStep /\ CallStep
    <2>1. orders' = orders
        BY <1>1 DEF Request, BeginMarket, BeginLimit, BeginClose, BeginStops, Begin
    <2>2. ASSUME NEW r \in Requests, BeginMarket(c, r) \/ BeginLimit(c, r) PROVE CallStep
        BY <1>a, <2>1, <2>2, TradingAssumption
           DEF BeginMarket, BeginLimit, Begin, CallStep, Drawn, OrderIds, FreshInv
    <2>3. ASSUME NEW i \in Instruments, NEW quantity \in CloseSizes, BeginClose(c, i, quantity)
          PROVE  CallStep
        BY <1>a, <2>3 DEF BeginClose, Begin, CallStep, Drawn
    <2>4. ASSUME NEW s \in StopChanges, BeginStops(c, s.inst, s.stopLoss, s.takeProfit)
          PROVE  CallStep
        BY <1>a, <2>4 DEF BeginStops, Begin, CallStep, Drawn
    <2> QED BY <1>1, <2>1, <2>2, <2>3, <2>4 DEF Request, OrderStep
<1>2. ASSUME NEW c \in Clients, ReadMarks(c) PROVE OrderStep /\ CallStep
    BY <1>a, <1>2 DEF ReadMarks, OrderStep, CallStep, Drawn
<1>3. ASSUME NEW c \in Clients, Commit(c) PROVE OrderStep /\ CallStep
    <2>1. CASE CommitLimit(c)
        <3>1. CASE Precheck(call[c].marks)
            BY <1>c, <1>d, <2>1, <3>1 DEF CommitLimit
        <3>2. CASE ~Precheck(call[c].marks)
            <4>1. placed' = placed /\ Ends(c) /\ Drawn(c)
                BY <2>1, <3>2 DEF CommitLimit, Drawn
            <4>2. \A o \in OrderIds : orders'[o] = orders[o] \/ o = call[c].id
                BY <1>a, <2>1, <3>2 DEF CommitLimit
            <4>3. call'[c] = NoCall
                BY <1>a, <4>1 DEF Ends
            <4> QED BY <1>d, <4>1, <4>2, <4>3 DEF OrderStep
        <3> QED BY <3>1, <3>2
    <2>2. CASE CommitMarket(c)
        <3>1. CASE Precheck(call[c].marks)
            BY <1>c, <1>d, <2>2, <3>1 DEF CommitMarket
        <3>2. CASE ~Precheck(call[c].marks)
            <4>1. PICK marks : PostCheck(orders, marks)
                BY <2>2, <3>2 DEF CommitMarket
            <4>2. placed' = placed /\ Ends(c)
                BY <2>2, <3>2 DEF CommitMarket
            <4> QED BY <1>a, <1>d, <4>1, <4>2, PostCheckOrders DEF OrderStep
        <3> QED BY <3>1, <3>2
    <2>3. CASE CommitClose(c)
        <3>1. Ends(c) /\ UNCHANGED <<orders, placed>>
            BY <2>3 DEF CommitClose, CloseAt
        <3> QED BY <1>d, <3>1 DEF OrderStep
    <2>4. CASE CommitStops(c)
        <3>1. Ends(c) /\ UNCHANGED <<orders, placed>>
            BY <2>4 DEF CommitStops
        <3> QED BY <1>d, <3>1 DEF OrderStep
    <2> QED BY <1>3, <2>1, <2>2, <2>3, <2>4 DEF Commit
<1>4. ASSUME NEW c \in Clients, Abort(c) PROVE OrderStep /\ CallStep
    BY <1>a, <1>4 DEF Abort, OrderStep, CallStep, Drawn, NoCall
<1>5. ASSUME NEW o \in OrderIds, CancelOrder(o) PROVE OrderStep /\ CallStep
    BY <1>a, <1>5 DEF CancelOrder, OrderStep, CallStep, Drawn
<1>6. CASE Administer
    <2>1. ASSUME NEW new \in {"active", "disabled"}, UpdateStatus(new)
          PROVE  UNCHANGED <<orders, call, placed>>
        BY <2>1 DEF UpdateStatus
    <2>2. CASE ResumeTrading
        BY <1>b, <2>2 DEF ResumeTrading
    <2>3. CASE Delete
        BY <1>a, <2>3 DEF Delete, OpenOrders, OrderStep, CallStep, Drawn
    <2> QED BY <1>6, <1>b, <2>1, <2>2, <2>3 DEF Administer
<1>7. CASE Tick
    <2>1. CASE NoWrite /\ Elsewhere
        BY <1>b, <2>1 DEF NoWrite, Elsewhere
    <2>2. CASE Sweep
        <3>1. CASE Precheck(tick.marks)
            BY <1>a, <1>c, <2>2, <3>1 DEF Sweep, Elsewhere, CallStep, Drawn
        <3> QED BY <2>1, <2>2, <3>1 DEF Sweep
    <2>3. ASSUME NEW e \in tick.list, Liquidate(e) \/ LiquidateFails(e)
          PROVE  UNCHANGED <<orders, call, placed>>
        BY <2>3 DEF Liquidate, LiquidateFails, NoWrite, Elsewhere, CloseAt
    <2>4. ASSUME NEW o \in tick.orders, FillOpenOrder(o) PROVE OrderStep /\ CallStep
        <3> DEFINE book == [orders EXCEPT ![o] = Ended("filled")]
        <3>1. PostCheck(book, tick.marks) /\ orders[o].status = "open"
            BY <2>4 DEF FillOpenOrder, Fillable
        <3>2. DOMAIN book = OrderIds /\ \A p \in OrderIds : book[p] = orders[p] \/ p = o
            BY <1>a
        <3>3. UNCHANGED <<call, placed>>
            BY <2>4 DEF FillOpenOrder, Elsewhere
        <3>4. OrderStep
            <4>1. \A p \in OrderIds : orders'[p] = book[p] \/ book[p].status = "open"
                BY <3>1, <3>2, PostCheckOrders
            <4>2. \A p \in OrderIds : orders'[p] = orders[p] \/ orders[p].status = "open"
                BY <3>1, <3>2, <4>1
            <4> QED BY <4>2 DEF OrderStep
        <3> QED BY <1>a, <3>3, <3>4 DEF CallStep, Drawn
    <2>5. ASSUME NEW o \in tick.orders, RejectOpenOrder(o) PROVE OrderStep /\ CallStep
        BY <1>a, <2>5 DEF RejectOpenOrder, Fillable, Elsewhere, OrderStep, CallStep, Drawn
    <2>6. ASSUME NEW o \in tick.orders, FillHalts(o) PROVE OrderStep /\ CallStep
        BY <1>a, <1>c, <2>6 DEF FillHalts, Elsewhere, CallStep, Drawn
    <2>7. ASSUME NEW o \in tick.orders, FillSkips(o) PROVE OrderStep /\ CallStep
        BY <2>1, <2>7 DEF FillSkips
    <2>8. ASSUME NEW s \in tick.stops, CloseStop(s) \/ CloseStopFails(s)
          PROVE  UNCHANGED <<orders, call, placed>>
        BY <2>8 DEF CloseStop, CloseStopFails, NoWrite, Elsewhere, CloseAt
    <2>9. TickLoad \/ (\E missing \in SUBSET Instruments : TickPrices(missing))
          \/ ListPositions \/ AfterSweep \/ LastDone \/ CleanUp => NoWrite /\ Elsewhere
        BY DEF TickLoad, TickPrices, ListPositions, AfterSweep, LastDone, CleanUp
    <2> QED BY <1>7, <1>b, <2>1, <2>2, <2>3, <2>4, <2>5, <2>6, <2>7, <2>8, <2>9 DEF Tick
<1>8. ASSUME NEW i \in Instruments, NEW new \in Prices, PriceMoves(i, new)
      PROVE  UNCHANGED <<orders, call, placed>>
    BY <1>8 DEF PriceMoves
<1>9. CASE Restart
    BY <1>9 DEF Restart, OrderStep, CallStep, Drawn, NoCall
<1> QED BY <1>b, <1>1, <1>2, <1>3, <1>4, <1>5, <1>6, <1>7, <1>8, <1>9 DEF Next

\* Ids that were drawn stay fresh until the call that drew them has written.
LEMMA FreshStep ==
    ASSUME AccountInv, OrderStep, CallStep
    PROVE  FreshInv'
<1>1. CASE placed' = placed /\ \A c \in Clients : Drawn(c)' => Drawn(c) /\ call'[c].id = call[c].id
    <2>1. \A o \in OrderIds : o > placed => orders'[o].status = "none"
        <3> SUFFICES ASSUME NEW o \in OrderIds, o > placed PROVE orders'[o] = orders[o]
            BY DEF AccountInv, FreshInv
        <3>1. orders[o].status = "none" /\ o \in Int /\ placed \in Nat
            BY TradingAssumption DEF AccountInv, FreshInv, OrderIds
        <3>2. \A c \in Clients : Drawn(c) => call[c].id # o
            BY <3>1 DEF AccountInv, FreshInv
        <3> QED BY <3>1, <3>2 DEF OrderStep
    <2>2. ASSUME NEW c \in Clients, Drawn(c)'
          PROVE  /\ Drawn(c) /\ call'[c].id = call[c].id
                 /\ call[c].id \in OrderIds /\ call[c].id <= placed
                 /\ orders'[call[c].id].status = "none"
        <3>1. Drawn(c) /\ call'[c].id = call[c].id /\ call'[c] # NoCall
            BY <1>1, <2>2 DEF Drawn, NoCall
        <3>2. /\ call[c].id \in OrderIds /\ call[c].id <= placed
              /\ orders[call[c].id].status = "none"
            BY <3>1 DEF AccountInv, FreshInv
        <3>3. orders'[call[c].id] = orders[call[c].id]
            BY <3>1, <3>2 DEF AccountInv, FreshInv, OrderStep
        <3> QED BY <3>1, <3>2, <3>3
    <2> QED BY <1>1, <2>1, <2>2 DEF AccountInv, FreshInv, CallStep, Drawn
<1>2. CASE /\ placed' = placed + 1 /\ orders' = orders /\ placed' \in OrderIds
           /\ \E c \in Clients : /\ Drawn(c)' => call'[c].id = placed'
                                 /\ \A d \in Clients : d # c => call'[d] = call[d]
    <2>1. PICK c \in Clients : /\ Drawn(c)' => call'[c].id = placed'
                               /\ \A d \in Clients : d # c => call'[d] = call[d]
        BY <1>2
    <2>2. \A d \in Clients : Drawn(d)' /\ d # c => /\ Drawn(d) /\ call'[d].id = call[d].id
                                                    /\ call[d].id \in OrderIds
                                                    /\ call[d].id <= placed
        BY <2>1 DEF AccountInv, FreshInv, Drawn
    <2>3. placed \in Nat /\ \A o \in OrderIds : o > placed => orders[o].status = "none"
        BY DEF AccountInv, FreshInv
    <2>4. \A d \in Clients : Drawn(d)' => /\ call'[d].id \in OrderIds /\ call'[d].id <= placed'
                                           /\ orders'[call'[d].id].status = "none"
        BY <1>2, <2>1, <2>2, <2>3 DEF AccountInv, FreshInv, OrderIds
    <2>5. \A d, e \in Clients : Drawn(d)' /\ Drawn(e)' /\ d # e => call'[d].id # call'[e].id
        BY <1>2, <2>1, <2>2, <2>3 DEF AccountInv, FreshInv, OrderIds
    <2> QED BY <1>2, <2>3, <2>4, <2>5 DEF FreshInv, CallStep, OrderIds, Drawn
<1> QED BY <1>1, <1>2 DEF CallStep

\* A new account has no position, no order and no call.
LEMMA InvInit == Init => AccountInv
BY TradingAssumption DEF Init, AccountInv, QuietInv, FreshInv, Drawn, NoCall, NoOrder, NoPosition,
                         Exists, OrderIds

\* Every transaction, read and price movement keeps the invariant.
LEMMA InvStep == AccountInv /\ [Next]_vars => AccountInv'
<1> SUFFICES ASSUME AccountInv, [Next]_vars PROVE AccountInv'
    OBVIOUS
<1>1. CASE Next
    BY <1>1, QuietStep, StepShape, FreshStep DEF AccountInv
<1>2. CASE UNCHANGED vars
    BY <1>2 DEF vars, AccountInv, QuietInv, FreshInv, Drawn, Exists
<1> QED BY <1>1, <1>2

\* The inductive invariant of an account: what a stop or a deletion leaves, and
\* whose an order id is between PlaceOrder's draw of it and its transaction.
THEOREM AccountInvariant == Spec => []AccountInv
BY InvInit, InvStep, PTL DEF Spec

\* A stopped account has no open order, whichever calls and Ticks had read it
\* before checkMaxDD wrote the mark.
THEOREM StopsAreComplete == Spec => []StoppedHasNoOpenOrder
<1>1. AccountInv => StoppedHasNoOpenOrder
    BY DEF AccountInv, QuietInv, StoppedHasNoOpenOrder, OpenOrders
<1> QED BY <1>1, AccountInvariant, PTL

\* account.Delete leaves no position and no open order, and no late transaction
\* of a call or a Tick adds one.
THEOREM DeletionsAreComplete == Spec => []DeletedLeavesNothing
<1>1. AccountInv => DeletedLeavesNothing
    BY DEF AccountInv, QuietInv, DeletedLeavesNothing, OpenOrders, Open
<1> QED BY <1>1, AccountInvariant, PTL

\* An order that was filled, rejected or canceled is never written again, by
\* fillOpenOrder, CancelOrder, checkMaxDD or account.Delete.
THEOREM EndedOrdersStay == Spec => OrdersEndOnce
<1> DEFINE Stays == \A o \in OrderIds :
        orders[o].status \in {"filled", "rejected", "canceled"} => orders'[o] = orders[o]
<1>1. AccountInv /\ [Next]_vars => [Stays]_vars
    <2> SUFFICES ASSUME AccountInv, Next PROVE Stays
        OBVIOUS
    <2>1. OrderStep
        BY StepShape
    <2> QED BY <2>1 DEF OrderStep, AccountInv, FreshInv
<1>2. Spec => [][Stays]_vars
    BY <1>1, AccountInvariant, PTL DEF Spec
<1> QED BY <1>2 DEF OrdersEndOnce

-----------------------------------------------------------------------------
(* Types of the rows and of what is under way. *)

Ids == 0..MaxOrders
TicketType ==
    [inst : Instruments, delta : Int, leverage : Nat \ {0}, stopLoss : Nat, takeProfit : Nat,
     reduceOnly : BOOLEAN, system : BOOLEAN]
OpenOrder == [status : {"open"}, at : Nat, ticket : TicketType]
OrderType == [status : {"none", "filled", "rejected", "canceled"}] \cup OpenOrder
Marks     == [Instruments -> Nat]
OrderCall == [op : {"limit", "quoted", "market"}, id : OrderIds, at : Nat, marks : Marks,
              ticket : TicketType]
CloseCall == [op : {"close"}, inst : Instruments, id : Ids, quantity : Nat, at : Nat]
StopsCall == [op : {"stops"}, inst : Instruments, id : Ids, stopLoss : Nat \cup {Keep},
              takeProfit : Nat \cup {Keep}, at : Nat]
CallType  == {NoCall} \cup OrderCall \cup CloseCall \cup StopsCall

\* What the Tick remembers of a position with stops: the row until the prices
\* are there, then the stop that fired.
SeenStop  == [inst : Instruments, pos : PositionType]
FiredStop == [inst : Instruments, id : Ids, trigger : {"stop_loss", "take_profit"}]
TickType ==
    [pc : {"idle", "prices", "sweep", "list", "liquidate", "swept", "orders"},
     orders : SUBSET OrderIds, stops : SUBSET (SeenStop \cup FiredStop),
     wanted : SUBSET Instruments, list : SUBSET [inst : Instruments, id : Ids],
     marks : Marks, seen : BOOLEAN, last : BOOLEAN]

AccountTypes ==
    /\ status \in {"active", "disabled", "deleted"}
    /\ balance \in Int /\ baseline \in Int /\ cash \in Int /\ stopped \in BOOLEAN
    /\ placed \in Ids
RowTypes ==
    /\ pos \in [Instruments -> PositionType]
    /\ \A i \in Instruments : /\ pos[i].quantity = 0 => pos[i] = NoPosition
                              /\ pos[i].quantity # 0 => pos[i].id # 0
    /\ orders \in [OrderIds -> OrderType]
CallTypes == call \in [Clients -> CallType]
TickTypes ==
    /\ tick \in TickType
    /\ tick.stops \subseteq IF tick.pc = "prices" THEN SeenStop ELSE FiredStop

\* Every row, call and snapshot is what its readers take it for.
Types ==
    /\ AccountTypes /\ RowTypes /\ CallTypes /\ TickTypes
    /\ price \in [Instruments -> Prices]

LEMMA AbsType == \A n \in Int : Abs(n) \in Nat /\ (Abs(n) = 0 <=> n = 0)
BY DEF Abs

\* A whole average of two prices is a price.
LEMMA AverageType ==
    ASSUME NEW a \in Nat, NEW b \in Nat, NEW x \in Nat, NEW y \in Nat, NEW n \in Nat, n # 0
    PROVE  (a * x + b * y) \div n \in Nat
<1>1. a * x \in Nat /\ b * y \in Nat
    OBVIOUS
<1>2. PICK s \in Nat : s = a * x + b * y
    BY <1>1
<1>3. s \div n \in Nat
    OBVIOUS
<1> QED BY <1>2, <1>3

\* applyFill returns a position, of the lots there were and the lots filled.
LEMMA FillType ==
    ASSUME NEW p \in PositionType, NEW delta \in Int, NEW at \in Nat, NEW leverage \in Nat \ {0},
           Abs(p.quantity + delta) <= MaxLots
    PROVE  LET q == ApplyFill(p, delta, at, leverage) IN
           /\ q \in PositionType
           /\ q.quantity = p.quantity + delta
           /\ q.quantity = 0 => q = NoPosition
           /\ q.quantity # 0 => q.id = p.id
<1> DEFINE next  == p.quantity + delta
           keeps == SameDirection(next, p.quantity)
           avg   == (Abs(p.quantity) * p.entry + Abs(delta) * at) \div Abs(next)
           entry == IF SameDirection(p.quantity, delta) THEN avg ELSE IF keeps THEN p.entry ELSE at
           lev   == IF keeps THEN p.leverage ELSE leverage
           sl    == IF keeps THEN p.stopLoss ELSE NoLevel
           tp    == IF keeps THEN p.takeProfit ELSE NoLevel
           new   == [id |-> p.id, quantity |-> next, entry |-> entry, leverage |-> lev,
                     stopLoss |-> sl, takeProfit |-> tp]
<1>1. ApplyFill(p, delta, at, leverage) = IF next = 0 THEN NoPosition ELSE new
    BY DEF ApplyFill
<1>2. /\ p.id \in 0..MaxOrders /\ p.quantity \in Int /\ p.entry \in Nat /\ p.leverage \in Nat \ {0}
      /\ p.stopLoss \in Nat /\ p.takeProfit \in Nat /\ MaxLots \in Nat /\ MaxOrders \in Nat
    BY TradingAssumption DEF PositionType
<1>3. next \in Int /\ next = p.quantity + delta
    BY <1>2
<1>4. next \in -MaxLots..MaxLots
    BY <1>2, <1>3 DEF Abs
<1>5. ASSUME next # 0 PROVE avg \in Nat
    <2>1. Abs(p.quantity) \in Nat /\ Abs(delta) \in Nat /\ Abs(next) \in Nat /\ Abs(next) # 0
        BY <1>2, <1>3, <1>5, AbsType
    <2> HIDE DEF next
    <2> QED BY <1>2, <2>1, AverageType
<1> HIDE DEF next, avg
<1>6. ASSUME next # 0
      PROVE  entry \in Nat /\ lev \in Nat \ {0} /\ sl \in Nat /\ tp \in Nat
    BY <1>2, <1>5, <1>6 DEF NoLevel
<1> HIDE DEF entry, lev, sl, tp, keeps
<1>7. ASSUME next # 0 PROVE new \in PositionType /\ new.quantity = next /\ new.id = p.id
    BY <1>2, <1>4, <1>6, <1>7 DEF PositionType
<1> HIDE DEF new
<1>8. NoPosition \in PositionType /\ NoPosition.quantity = 0
    BY <1>2 DEF PositionType, NoPosition, NoLevel
<1>9. CASE next = 0
    BY <1>1, <1>3, <1>8, <1>9
<1>10. CASE next # 0
    BY <1>1, <1>3, <1>7, <1>10
<1> QED BY <1>9, <1>10

\* persistPosition writes such a row, under its old id or the new one.
LEMMA PersistedType ==
    ASSUME RowTypes, NEW t \in TicketType, NEW at \in Nat, NEW newId \in Ids, Fits(t)
    PROVE  LET q == Persisted(t, at, newId)
               p == pos[t.inst] IN
           /\ q \in PositionType
           /\ q.quantity = p.quantity + t.delta
           /\ q.quantity = 0 => q = NoPosition
           /\ q.quantity # 0 => q.id = IF p.id = 0 THEN newId ELSE p.id
<1> DEFINE p == pos[t.inst]
           f == ApplyFill(p, t.delta, at, t.leverage)
<1>1. /\ t.inst \in Instruments /\ t.delta \in Int /\ t.leverage \in Nat \ {0}
      /\ t.stopLoss \in Nat /\ t.takeProfit \in Nat
    BY DEF TicketType
<1>2. p \in PositionType
    BY <1>1 DEF RowTypes
<1>3. Abs(p.quantity + t.delta) <= MaxLots
    BY DEF Fits
<1> HIDE DEF p
<1>4. /\ f \in PositionType /\ f.quantity = p.quantity + t.delta
      /\ f.quantity = 0 => f = NoPosition
      /\ f.quantity # 0 => f.id = p.id
    BY <1>1, <1>2, <1>3, FillType
<1> HIDE DEF f
<1>5. Persisted(t, at, newId) =
        IF f.quantity = 0 THEN f
        ELSE [f EXCEPT
                !.id = IF f.id = 0 THEN newId ELSE f.id,
                !.stopLoss = IF t.stopLoss # NoLevel /\ SameDirection(f.quantity, t.delta)
                             THEN t.stopLoss ELSE f.stopLoss,
                !.takeProfit = IF t.takeProfit # NoLevel /\ SameDirection(f.quantity, t.delta)
                               THEN t.takeProfit ELSE f.takeProfit]
    BY DEF Persisted, Filled, f, p
<1>6. CASE f.quantity = 0
    BY <1>4, <1>5, <1>6 DEF p
<1>7. CASE f.quantity # 0
    <2> DEFINE id == IF f.id = 0 THEN newId ELSE f.id
               sl == IF t.stopLoss # NoLevel /\ SameDirection(f.quantity, t.delta)
                     THEN t.stopLoss ELSE f.stopLoss
               tp == IF t.takeProfit # NoLevel /\ SameDirection(f.quantity, t.delta)
                     THEN t.takeProfit ELSE f.takeProfit
               q  == [f EXCEPT !.id = id, !.stopLoss = sl, !.takeProfit = tp]
    <2>1. id \in 0..MaxOrders /\ sl \in Nat /\ tp \in Nat
        BY <1>1, <1>4 DEF PositionType, Ids
    <2>2. Persisted(t, at, newId) = q
        BY <1>5, <1>7
    <2>3. id = IF p.id = 0 THEN newId ELSE p.id
        BY <1>4, <1>7
    <2> HIDE DEF id, sl, tp
    <2>4. q \in PositionType /\ q.quantity = f.quantity /\ q.id = id
        BY <1>4, <2>1 DEF PositionType
    <2> HIDE DEF q
    <2> QED BY <1>4, <1>7, <2>2, <2>3, <2>4 DEF p
<1> QED BY <1>6, <1>7

\* Money stays a whole number.
LEMMA MoneyType ==
    ASSUME NEW p \in PositionType, NEW delta \in Int, NEW at \in Nat, NEW rate \in Nat
    PROVE  Realized(p, delta, at) \in Int /\ Fee(Abs(delta), at, rate) \in Int /\ delta * at \in Int
<1>1. p.quantity \in Int /\ p.entry \in Nat
    BY TradingAssumption DEF PositionType
<1>2. Abs(delta) \in Nat /\ Abs(p.quantity) \in Nat
    BY <1>1, AbsType
<1>3. \A a, b \in Nat : Min({a, b}) \in Nat
    <2> SUFFICES ASSUME NEW a \in Nat, NEW b \in Nat PROVE Min({a, b}) \in Nat
        OBVIOUS
    <2>1. \E x \in {a, b} : \A y \in {a, b} : x =< y
        <3>1. CASE a <= b
            BY <3>1
        <3>2. CASE ~(a <= b)
            BY <3>2
        <3> QED BY <3>1, <3>2
    <2> QED BY <2>1 DEF Min
<1>4. Realized(p, delta, at) \in Int
    <2> DEFINE closing == Min({Abs(p.quantity), Abs(delta)})
    <2>1. closing \in Nat
        BY <1>2, <1>3
    <2> HIDE DEF closing
    <2>2. PICK gain \in Int : gain = at - p.entry
        BY <1>1
    <2>3. PICK lots \in Int : lots = IF p.quantity > 0 THEN closing ELSE -closing
        BY <2>1
    <2>4. gain * lots \in Int
        OBVIOUS
    <2>5. Realized(p, delta, at) = IF p.quantity = 0 \/ SameDirection(p.quantity, delta) THEN 0
                                   ELSE gain * lots
        BY <2>2, <2>3 DEF Realized, closing
    <2> QED BY <2>4, <2>5
<1>5. Fee(Abs(delta), at, rate) \in Int
    <2>1. PICK n \in Nat : n = Abs(delta)
        BY <1>2
    <2>2. PICK m \in Nat : m = n * at * rate
        OBVIOUS
    <2>3. m \div FeeUnit \in Int
        BY TradingAssumption
    <2> QED BY <2>1, <2>2, <2>3 DEF Fee
<1> QED BY <1>4, <1>5

\* One row is written, and the money moves by whole amounts.
LEMMA SettleType ==
    ASSUME AccountTypes, RowTypes, NEW t \in TicketType, NEW at \in Nat, NEW rate \in Nat,
           NEW newId \in Ids, Fits(t), Settle(t, at, rate, newId),
           newId # 0 \/ pos[t.inst].quantity # 0
    PROVE  /\ pos' \in [Instruments -> PositionType]
           /\ \A i \in Instruments : /\ pos'[i].quantity = 0 => pos'[i] = NoPosition
                                     /\ pos'[i].quantity # 0 => pos'[i].id # 0
                                     /\ i # t.inst => pos'[i] = pos[i]
           /\ pos'[t.inst].quantity = pos[t.inst].quantity + t.delta
           /\ pos'[t.inst].quantity # 0 =>
                pos'[t.inst].id = IF pos[t.inst].id = 0 THEN newId ELSE pos[t.inst].id
           /\ balance' \in Int /\ cash' \in Int
<1>1. t.inst \in Instruments /\ t.delta \in Int
    BY DEF TicketType
<1>2. pos' = [pos EXCEPT ![t.inst] = Persisted(t, at, newId)]
    BY DEF Settle
<1> DEFINE q == Persisted(t, at, newId)
<1>3. /\ q \in PositionType
      /\ q.quantity = pos[t.inst].quantity + t.delta
      /\ q.quantity = 0 => q = NoPosition
      /\ q.quantity # 0 => q.id = IF pos[t.inst].id = 0 THEN newId ELSE pos[t.inst].id
    BY PersistedType
<1> HIDE DEF q
<1>4. pos' \in [Instruments -> PositionType] /\ pos'[t.inst] = q
      /\ \A i \in Instruments : i # t.inst => pos'[i] = pos[i]
    BY <1>1, <1>2, <1>3 DEF q, RowTypes
<1>5. pos[t.inst].quantity # 0 => pos[t.inst].id # 0
    BY <1>1 DEF RowTypes
<1>6. pos[t.inst] \in PositionType
    BY <1>1 DEF RowTypes
<1>7. /\ Realized(pos[t.inst], t.delta, at) \in Int /\ Fee(Abs(t.delta), at, rate) \in Int
      /\ t.delta * at \in Int
    BY <1>1, <1>6, MoneyType
<1>8. balance' \in Int /\ cash' \in Int
    BY <1>7 DEF Settle, AccountTypes
<1> QED BY <1>1, <1>3, <1>4, <1>5, <1>8 DEF RowTypes

\* closeAt reduces the position it was aimed at and never opens the other side;
\* without a quantity the whole position goes.
LEMMA CloseAtStep ==
    ASSUME AccountTypes, RowTypes, NEW i \in Instruments, NEW id, NEW quantity \in Nat, NEW at \in Nat,
           NEW trigger, CloseAt(i, id, quantity, at, trigger)
    PROVE  /\ i \in Open /\ pos[i].id = id
           /\ AccountTypes' /\ RowTypes'
           /\ \A j \in Instruments : j # i => pos'[j] = pos[j]
           /\ Abs(pos'[i].quantity) < Abs(pos[i].quantity)
           /\ ~SameDirection(pos'[i].quantity, -pos[i].quantity)
           /\ quantity = 0 => pos'[i] = NoPosition
           /\ pos'[i].quantity # 0 => pos'[i].id = pos[i].id
<1> DEFINE t    == ClosingTicket(i, quantity, trigger = "max_dd")
           lots == IF quantity = 0 THEN Abs(pos[i].quantity) ELSE quantity
           d    == IF pos[i].quantity > 0 THEN -lots ELSE lots
<1>1. /\ i \in Open /\ pos[i].id = id /\ ~Refused(t, at, TakerRate) /\ Settle(t, at, TakerRate, 0)
      /\ UNCHANGED <<status, baseline, stopped, orders, placed>>
    BY DEF CloseAt
<1>2. /\ pos[i] \in PositionType /\ pos[i].quantity \in -MaxLots..MaxLots /\ pos[i].quantity # 0
      /\ pos[i].leverage \in Nat \ {0} /\ MaxLots \in Nat
    BY <1>1, TradingAssumption DEF RowTypes, Open, PositionType
<1>3. lots \in Nat /\ lots # 0
    BY <1>2 DEF Abs
<1>4. d \in Int /\ Abs(d) = lots
    BY <1>2, <1>3 DEF Abs
<1>5. t = [inst |-> i, delta |-> d, leverage |-> pos[i].leverage, stopLoss |-> NoLevel,
           takeProfit |-> NoLevel, reduceOnly |-> TRUE, system |-> (trigger = "max_dd")]
    BY DEF ClosingTicket, Ticket
<1> HIDE DEF t
<1>6. t \in TicketType /\ t.inst = i /\ t.delta = d /\ t.reduceOnly = TRUE
    <2> HIDE DEF d
    <2> QED BY <1>2, <1>4, <1>5 DEF TicketType, NoLevel
<1>7. lots <= Abs(pos[i].quantity)
    <2>1. ~(Abs(t.delta) > Abs(pos[t.inst].quantity))
        BY <1>1, <1>6 DEF Refused
    <2>2. Abs(pos[i].quantity) \in Nat
        BY <1>2, AbsType
    <2> HIDE DEF lots, d
    <2> QED BY <1>3, <1>4, <1>6, <2>1, <2>2
<1> HIDE DEF lots
<1>8. /\ pos[i].quantity + d \in Int
      /\ Abs(pos[i].quantity + d) < Abs(pos[i].quantity)
      /\ Abs(pos[i].quantity + d) <= MaxLots
      /\ ~SameDirection(pos[i].quantity + d, -pos[i].quantity)
    <2>1. PICK q \in Int : q = pos[i].quantity /\ q # 0 /\ q \in -MaxLots..MaxLots
        BY <1>2
    <2>2. CASE q > 0
        BY <1>2, <1>3, <1>7, <2>1, <2>2 DEF Abs, SameDirection
    <2>3. CASE q < 0
        BY <1>2, <1>3, <1>7, <2>1, <2>3 DEF Abs, SameDirection
    <2> QED BY <2>1, <2>2, <2>3
<1>9. quantity = 0 => pos[i].quantity + d = 0
    BY <1>2 DEF lots, Abs
<1> HIDE DEF d
<1>10. Fits(t) /\ 0 \in Ids /\ TakerRate \in Nat
    BY <1>6, <1>8, TradingAssumption DEF Fits, Ids
<1>11. /\ pos' \in [Instruments -> PositionType]
       /\ \A j \in Instruments : /\ pos'[j].quantity = 0 => pos'[j] = NoPosition
                                 /\ pos'[j].quantity # 0 => pos'[j].id # 0
                                 /\ j # t.inst => pos'[j] = pos[j]
       /\ pos'[t.inst].quantity = pos[t.inst].quantity + t.delta
       /\ pos'[t.inst].quantity # 0 =>
            pos'[t.inst].id = IF pos[t.inst].id = 0 THEN 0 ELSE pos[t.inst].id
       /\ balance' \in Int /\ cash' \in Int
    <2>1. Settle(t, at, TakerRate, 0) /\ pos[t.inst].quantity # 0
        BY <1>1, <1>2, <1>6
    <2> QED BY <1>6, <1>10, <2>1, SettleType
<1>12. AccountTypes'
    BY <1>1, <1>11 DEF AccountTypes
<1>13. RowTypes'
    BY <1>1, <1>11 DEF RowTypes
<1> QED BY <1>1, <1>6, <1>8, <1>9, <1>11, <1>12, <1>13

\* The cancellations of checkMaxDD.
LEMMA HaltTypes ==
    ASSUME NEW book \in [OrderIds -> OrderType], Halt(book)
    PROVE  orders' \in [OrderIds -> OrderType] /\ stopped' \in BOOLEAN
<1>1. Ended("canceled") \in OrderType
    BY DEF Ended, OrderType
<1> QED BY <1>1 DEF Halt

LEMMA PostCheckTypes ==
    ASSUME NEW book \in [OrderIds -> OrderType], stopped \in BOOLEAN, NEW marks, PostCheck(book, marks)
    PROVE  orders' \in [OrderIds -> OrderType] /\ stopped' \in BOOLEAN
<1>1. CASE Halt(book)
    BY <1>1, HaltTypes
<1>2. CASE stopped' = stopped /\ orders' = book
    BY <1>2
<1> QED BY <1>1, <1>2 DEF PostCheck

LEMMA PrecheckTypes ==
    ASSUME AccountTypes, RowTypes, NEW marks, Precheck(marks)
    PROVE  AccountTypes' /\ RowTypes' /\ pos' = pos
<1>1. Halt(orders) /\ UNCHANGED <<status, balance, baseline, pos, placed, cash>>
    BY DEF Precheck
<1>2. orders' \in [OrderIds -> OrderType] /\ stopped' \in BOOLEAN
    BY <1>1, HaltTypes DEF RowTypes
<1> QED BY <1>1, <1>2 DEF AccountTypes, RowTypes

LEMMA MarksType == price \in [Instruments -> Prices] => RiskMarks \in Marks /\ NoMarks \in Marks
BY TradingAssumption DEF RiskMarks, NoMarks, Marks, NoPrice

LEMMA TypesInit == Init => Types
<1> SUFFICES ASSUME Init PROVE Types
    OBVIOUS
<1>0. status \in {"active", "disabled", "deleted"} /\ stopped \in BOOLEAN
    BY DEF Init
<1>a. balance \in Int /\ baseline \in Int /\ cash \in Int /\ placed \in Ids
    BY TradingAssumption DEF Init, Ids
<1>1. AccountTypes
    BY <1>0, <1>a DEF AccountTypes
<1>2. NoPosition \in PositionType /\ NoPosition.quantity = 0 /\ NoOrder \in OrderType
    BY TradingAssumption DEF NoPosition, PositionType, NoLevel, NoOrder, OrderType
<1>3. RowTypes
    BY <1>2 DEF Init, RowTypes
<1>4. CallTypes
    BY DEF Init, CallTypes, CallType
<1>5. NoMarks \in Marks
    BY DEF NoMarks, Marks, NoPrice
<1>6. TickTypes
    BY <1>5 DEF Init, TickTypes, TickType, NoTick
<1> QED BY <1>1, <1>3, <1>4, <1>6 DEF Types, Init

\* What a call has read is of the types that its transaction expects.
LEMMA RequestTypes ==
    ASSUME Types, NEW c \in Clients, Request(c)
    PROVE  Types'
<1>0. MaxOrders \in Nat /\ placed \in 0..MaxOrders
    BY TradingAssumption DEF Types, AccountTypes, Ids
<1>1. ASSUME NEW r \in CallType, Begin(c, r), placed' \in Ids PROVE Types'
    <2>1. call' \in [Clients -> CallType]
        BY <1>1 DEF Begin, Types, CallTypes
    <2>2. UNCHANGED <<status, balance, baseline, stopped, pos, orders, price, tick, cash>>
        BY <1>1 DEF Begin
    <2> QED BY <1>1, <2>1, <2>2 DEF Types, AccountTypes, RowTypes, CallTypes, TickTypes
<1>2. ASSUME NEW r \in Requests, Normal(r)
      PROVE  /\ OfCaller(r) \in TicketType /\ r.at \in Nat /\ price[r.inst] \in Nat
    <2>1. /\ r.inst \in Instruments /\ r.delta \in Int /\ r.leverage \in Nat /\ r.stopLoss \in Nat
          /\ r.takeProfit \in Nat /\ r.at \in Nat
        BY TradingAssumption
    <2>2. r.leverage \in Nat \ {0}
        BY <1>2, <2>1 DEF Normal
    <2>3. price[r.inst] \in Nat
        BY <2>1, TradingAssumption DEF Types
    <2> QED BY <2>1, <2>2, <2>3 DEF OfCaller, Ticket, TicketType
<1>3. RiskMarks \in Marks /\ NoMarks \in Marks
    BY MarksType DEF Types
<1>4. ASSUME NEW op \in {"limit", "quoted"}, NEW at \in Nat, NEW marks \in Marks, NEW ticket \in TicketType,
             NEW id \in OrderIds
      PROVE  [op |-> op, id |-> id, at |-> at, marks |-> marks, ticket |-> ticket] \in CallType
    BY DEF CallType, OrderCall
<1>5. ASSUME placed < MaxOrders, placed' = placed + 1 PROVE placed' \in Ids /\ placed' \in OrderIds
    BY <1>0, <1>5 DEF Ids, OrderIds
<1>6. ASSUME NEW r \in Requests, BeginLimit(c, r) PROVE Types'
    <2>1. placed' \in Ids /\ placed' \in OrderIds /\ Normal(r)
          /\ Begin(c, [op |-> "limit", id |-> placed', at |-> r.at, marks |-> RiskMarks,
                       ticket |-> OfCaller(r)])
        BY <1>5, <1>6 DEF BeginLimit
    <2>2. [op |-> "limit", id |-> placed', at |-> r.at, marks |-> RiskMarks,
           ticket |-> OfCaller(r)] \in CallType
        BY <1>2, <1>3, <1>4, <2>1
    <2> QED BY <1>1, <2>1, <2>2
<1>7. ASSUME NEW r \in Requests, BeginMarket(c, r) PROVE Types'
    <2>1. placed' \in Ids /\ placed' \in OrderIds /\ Normal(r)
          /\ Begin(c, [op |-> "quoted", id |-> placed', at |-> price[r.inst], marks |-> NoMarks,
                       ticket |-> OfCaller(r)])
        BY <1>5, <1>7 DEF BeginMarket
    <2>2. [op |-> "quoted", id |-> placed', at |-> price[r.inst], marks |-> NoMarks,
           ticket |-> OfCaller(r)] \in CallType
        BY <1>2, <1>3, <1>4, <2>1
    <2> QED BY <1>1, <2>1, <2>2
<1>8. ASSUME NEW i \in Instruments PROVE pos[i].id \in Ids /\ price[i] \in Nat
    <2>1. pos[i] \in PositionType
        BY DEF Types, RowTypes
    <2> QED BY <2>1, TradingAssumption DEF Types, PositionType, Ids
<1>9. ASSUME NEW i \in Instruments, NEW quantity \in CloseSizes, BeginClose(c, i, quantity) PROVE Types'
    <2>1. Begin(c, [op |-> "close", inst |-> i, id |-> pos[i].id, quantity |-> quantity, at |-> price[i]])
          /\ placed' = placed
        BY <1>9 DEF BeginClose
    <2>2. quantity \in Nat /\ placed' \in Ids
        BY <1>0, <2>1, TradingAssumption DEF Ids
    <2>3. [op |-> "close", inst |-> i, id |-> pos[i].id, quantity |-> quantity, at |-> price[i]] \in CallType
        BY <1>8, <2>2 DEF CallType, CloseCall
    <2> QED BY <1>1, <2>1, <2>2, <2>3
<1>10. ASSUME NEW s \in StopChanges, BeginStops(c, s.inst, s.stopLoss, s.takeProfit) PROVE Types'
    <2>0. s.inst \in Instruments /\ s.stopLoss \in Nat \cup {Keep} /\ s.takeProfit \in Nat \cup {Keep}
        BY TradingAssumption
    <2>1. \E at \in Nat :
            Begin(c, [op |-> "stops", inst |-> s.inst, id |-> pos[s.inst].id, stopLoss |-> s.stopLoss,
                      takeProfit |-> s.takeProfit, at |-> at])
        <3> DEFINE at == IF LevelOr(s.stopLoss, pos[s.inst].stopLoss) # NoLevel
                            \/ LevelOr(s.takeProfit, pos[s.inst].takeProfit) # NoLevel
                         THEN price[s.inst] ELSE NoPrice
        <3>1. at \in Nat
            BY <1>8, <2>0 DEF NoPrice
        <3>2. Begin(c, [op |-> "stops", inst |-> s.inst, id |-> pos[s.inst].id, stopLoss |-> s.stopLoss,
                        takeProfit |-> s.takeProfit, at |-> at])
            BY <1>10, Zenon DEF BeginStops
        <3> HIDE DEF at
        <3> QED BY <3>1, <3>2
    <2>2. PICK at \in Nat :
            Begin(c, [op |-> "stops", inst |-> s.inst, id |-> pos[s.inst].id, stopLoss |-> s.stopLoss,
                      takeProfit |-> s.takeProfit, at |-> at])
        BY <2>1
    <2>3. placed' \in Ids
        BY <1>0, <1>10 DEF BeginStops, Ids
    <2>4. [op |-> "stops", inst |-> s.inst, id |-> pos[s.inst].id, stopLoss |-> s.stopLoss,
           takeProfit |-> s.takeProfit, at |-> at] \in CallType
        BY <1>8, <2>0 DEF CallType, StopsCall
    <2> QED BY <1>1, <2>2, <2>3, <2>4
<1> QED BY <1>6, <1>7, <1>9, <1>10 DEF Request

\* The call of a client, by what it does.
LEMMA CallShape ==
    ASSUME CallTypes, NEW c \in Clients
    PROVE  /\ call[c].op \in {"limit", "quoted", "market"} => call[c] \in OrderCall
           /\ call[c].op = "close" => call[c] \in CloseCall
           /\ call[c].op = "stops" => call[c] \in StopsCall
<1>1. call[c] \in CallType
    BY DEF CallTypes
<1>2. /\ NoCall.op = "none" /\ \A r \in OrderCall : r.op \in {"limit", "quoted", "market"}
      /\ (\A r \in CloseCall : r.op = "close") /\ (\A r \in StopsCall : r.op = "stops")
    BY DEF NoCall, OrderCall, CloseCall, StopsCall
<1> QED BY <1>1, <1>2 DEF CallType

\* An order that is open has its price and its ticket.
LEMMA OrderShape ==
    ASSUME RowTypes, NEW o \in OrderIds, orders[o].status = "open"
    PROVE  orders[o] \in OpenOrder
<1>1. orders[o] \in OrderType
    BY DEF RowTypes
<1> QED BY <1>1 DEF OrderType

\* The transaction of a call commits, and the account's rows are what they are.
LEMMA EndsTypes ==
    ASSUME Types, NEW c \in Clients, Ends(c), AccountTypes', RowTypes'
    PROVE  Types'
<1>1. call' = [call EXCEPT ![c] = NoCall] /\ UNCHANGED <<price, tick>>
    BY DEF Ends
<1>2. CallTypes'
    BY <1>1 DEF Types, CallTypes, CallType
<1> QED BY <1>1, <1>2 DEF Types, TickTypes

\* A fill and the risk check after it.
LEMMA FillTypes ==
    ASSUME AccountTypes, RowTypes, NEW t \in TicketType, NEW at \in Nat, NEW rate \in Nat, NEW id \in OrderIds,
           Fits(t), Settle(t, at, rate, id), UNCHANGED <<status, baseline, placed>>,
           NEW book \in [OrderIds -> OrderType], NEW marks, PostCheck(book, marks)
    PROVE  AccountTypes' /\ RowTypes'
<1>1. id \in Ids /\ id # 0
    BY TradingAssumption DEF OrderIds, Ids
<1>2. /\ pos' \in [Instruments -> PositionType]
      /\ \A i \in Instruments : /\ pos'[i].quantity = 0 => pos'[i] = NoPosition
                                /\ pos'[i].quantity # 0 => pos'[i].id # 0
      /\ balance' \in Int /\ cash' \in Int
    BY <1>1, SettleType
<1>3. orders' \in [OrderIds -> OrderType] /\ stopped' \in BOOLEAN
    BY PostCheckTypes DEF AccountTypes
<1> QED BY <1>2, <1>3 DEF AccountTypes, RowTypes

LEMMA CommitTypes ==
    ASSUME Types, NEW c \in Clients, Commit(c)
    PROVE  Types'
<1>0. AccountTypes /\ RowTypes /\ CallTypes
    BY DEF Types
<1>1. CASE CommitLimit(c)
    <2>0. Ends(c)
        BY <1>1 DEF CommitLimit
    <2>1. CASE Precheck(call[c].marks)
        BY <1>0, <2>0, <2>1, PrecheckTypes, EndsTypes
    <2>2. CASE ~Precheck(call[c].marks)
        <3> DEFINE new == [status |-> "open", at |-> call[c].at, ticket |-> call[c].ticket]
        <3>1. orders' = [orders EXCEPT ![call[c].id] = new] /\ UNCHANGED <<accountVars, pos, placed, cash>>
            BY <1>1, <2>2 DEF CommitLimit
        <3>2. call[c] \in OrderCall
            BY <1>0, <1>1, CallShape DEF CommitLimit
        <3>3. call[c].at \in Nat /\ call[c].ticket \in TicketType
            BY <3>2 DEF OrderCall
        <3>4. new \in OrderType
            BY <3>3 DEF OrderType, OpenOrder
        <3> HIDE DEF new
        <3>5. orders' \in [OrderIds -> OrderType]
            BY <1>0, <3>1, <3>4 DEF RowTypes
        <3>6. AccountTypes' /\ RowTypes'
            BY <1>0, <3>1, <3>5 DEF AccountTypes, RowTypes
        <3> QED BY <2>0, <3>6, EndsTypes
    <2> QED BY <2>1, <2>2
<1>2. CASE CommitMarket(c)
    <2>0. Ends(c)
        BY <1>2 DEF CommitMarket
    <2>1. CASE Precheck(call[c].marks)
        BY <1>0, <2>0, <2>1, PrecheckTypes, EndsTypes
    <2>2. CASE ~Precheck(call[c].marks)
        <3>1. /\ Fits(call[c].ticket) /\ Settle(call[c].ticket, call[c].at, TakerRate, call[c].id)
              /\ UNCHANGED <<status, baseline, placed>>
            BY <1>2, <2>2 DEF CommitMarket
        <3>2. PICK marks : PostCheck(orders, marks)
            BY <1>2, <2>2 DEF CommitMarket
        <3>3. call[c] \in OrderCall
            BY <1>0, <1>2, CallShape DEF CommitMarket
        <3>4. call[c].at \in Nat /\ call[c].ticket \in TicketType /\ call[c].id \in OrderIds /\ TakerRate \in Nat
            BY <3>3, TradingAssumption DEF OrderCall
        <3>5. orders \in [OrderIds -> OrderType]
            BY <1>0 DEF RowTypes
        <3>6. AccountTypes' /\ RowTypes'
            BY <1>0, <3>1, <3>2, <3>4, <3>5, FillTypes
        <3> QED BY <2>0, <3>6, EndsTypes
    <2> QED BY <2>1, <2>2
<1>3. CASE CommitClose(c)
    <2>1. Ends(c) /\ CloseAt(call[c].inst, call[c].id, call[c].quantity, call[c].at, "")
        BY <1>3 DEF CommitClose
    <2>2. call[c] \in CloseCall
        BY <1>0, <1>3, CallShape DEF CommitClose
    <2>3. call[c].inst \in Instruments /\ call[c].quantity \in Nat /\ call[c].at \in Nat
        BY <2>2 DEF CloseCall
    <2>4. AccountTypes' /\ RowTypes'
        BY <1>0, <2>1, <2>3, CloseAtStep
    <2> QED BY <2>1, <2>4, EndsTypes
<1>4. CASE CommitStops(c)
    <2>0. Ends(c) /\ call[c].inst \in Open /\ UNCHANGED <<accountVars, orders, placed, cash>>
        BY <1>4 DEF CommitStops
    <2> DEFINE i == call[c].inst
               sl == LevelOr(call[c].stopLoss, pos[i].stopLoss)
               tp == LevelOr(call[c].takeProfit, pos[i].takeProfit)
    <2>1. pos' = [pos EXCEPT ![i] = [@ EXCEPT !.stopLoss = sl, !.takeProfit = tp]]
        BY <1>4 DEF CommitStops
    <2>2. call[c] \in StopsCall
        BY <1>0, <1>4, CallShape DEF CommitStops
    <2>3. i \in Instruments /\ pos[i] \in PositionType /\ pos[i].quantity # 0 /\ pos[i].id # 0
        BY <1>0, <2>0 DEF Open, RowTypes
    <2>4. sl \in Nat /\ tp \in Nat
        BY <2>2, <2>3 DEF StopsCall, PositionType, LevelOr
    <2> HIDE DEF i, sl, tp
    <2>5. PICK q : q = [pos[i] EXCEPT !.stopLoss = sl, !.takeProfit = tp]
        OBVIOUS
    <2>6. q \in PositionType /\ q.quantity = pos[i].quantity /\ q.id = pos[i].id
        BY <2>3, <2>4, <2>5 DEF PositionType
    <2>7. pos' = [pos EXCEPT ![i] = q]
        BY <2>1, <2>5
    <2>8. AccountTypes' /\ RowTypes'
        BY <1>0, <2>0, <2>3, <2>6, <2>7 DEF AccountTypes, RowTypes
    <2> QED BY <2>0, <2>8, EndsTypes
<1> QED BY <1>1, <1>2, <1>3, <1>4 DEF Commit

\* A step of the Tick that keeps the snapshot's types and writes typed rows.
LEMMA ElsewhereTypes ==
    ASSUME Types, Elsewhere, AccountTypes', RowTypes', TickTypes'
    PROVE  Types'
BY DEF Types, Elsewhere, CallTypes

LEMMA NoWriteTypes ==
    ASSUME Types, NoWrite
    PROVE  AccountTypes' /\ RowTypes'
BY DEF Types, NoWrite, AccountTypes, RowTypes

\* The fields of a Tick, one by one.
LEMMA TickFields ==
    ASSUME TickTypes
    PROVE  /\ tick.marks \in Marks /\ tick.wanted \subseteq Instruments /\ tick.orders \subseteq OrderIds
           /\ tick.list \subseteq [inst : Instruments, id : Ids]
           /\ tick.seen \in BOOLEAN /\ tick.last \in BOOLEAN
           /\ tick.stops \subseteq SeenStop \cup FiredStop
           /\ tick.pc = "prices" => tick.stops \subseteq SeenStop
           /\ tick.pc # "prices" => tick.stops \subseteq FiredStop
BY DEF TickTypes, TickType

\* The stop that fires is a stop loss or a take profit.
LEMMA StopKinds == \A p, at : StopTriggered(p, at) \in {"stop_loss", "take_profit", ""}
BY DEF StopTriggered

LEMMA TickSteps ==
    ASSUME Types, Tick
    PROVE  Types'
<1>0. AccountTypes /\ RowTypes /\ TickTypes /\ tick \in TickType
    BY DEF Types, TickTypes
<1>f. /\ tick.marks \in Marks /\ tick.wanted \subseteq Instruments /\ tick.orders \subseteq OrderIds
      /\ tick.list \subseteq [inst : Instruments, id : Ids]
      /\ tick.seen \in BOOLEAN /\ tick.last \in BOOLEAN
      /\ tick.stops \subseteq SeenStop \cup FiredStop
      /\ tick.pc = "prices" => tick.stops \subseteq SeenStop
      /\ tick.pc # "prices" => tick.stops \subseteq FiredStop
    BY <1>0, TickFields
<1>g. /\ \A i \in Instruments : tick.marks[i] \in Nat
      /\ \A i \in Instruments : pos[i] \in PositionType /\ pos[i].id \in Ids
    BY <1>0, <1>f DEF Marks, RowTypes, PositionType, Ids
<1>n. NoTick \in TickType /\ NoTick.stops = {}
    BY MarksType DEF Types, NoTick, TickType
<1>1. CASE TickLoad
    <2> DEFINE stops  == {i \in Open : pos[i].stopLoss # NoLevel \/ pos[i].takeProfit # NoLevel}
               wanted == {orders[o].ticket.inst : o \in OpenOrders} \cup stops
                         \cup (IF HasMaxDD THEN Open ELSE {})
               seen   == {[inst |-> i, pos |-> pos[i]] : i \in stops}
    <2>1. tick' = [NoTick EXCEPT !.pc = "prices", !.wanted = wanted, !.orders = OpenOrders, !.stops = seen]
        BY <1>1 DEF TickLoad
    <2>2. Elsewhere /\ NoWrite
        BY <1>1 DEF TickLoad
    <2>3. stops \subseteq Instruments /\ Open \subseteq Instruments /\ OpenOrders \subseteq OrderIds
        BY DEF Open, OpenOrders
    <2>4. \A o \in OpenOrders : orders[o].ticket.inst \in Instruments
        <3> SUFFICES ASSUME NEW o \in OpenOrders PROVE orders[o].ticket.inst \in Instruments
            OBVIOUS
        <3>1. orders[o] \in OpenOrder
            BY <1>0, OrderShape DEF OpenOrders
        <3>2. orders[o].ticket \in TicketType
            BY <3>1 DEF OpenOrder
        <3> QED BY <3>2 DEF TicketType
    <2>5. wanted \subseteq Instruments
        <3> HIDE DEF stops
        <3> QED BY <2>3, <2>4
    <2>6. seen \subseteq SeenStop
        <3> HIDE DEF stops
        <3> QED BY <1>g, <2>3 DEF SeenStop
    <2> HIDE DEF wanted, seen
    <2>7. tick' \in TickType /\ tick'.pc = "prices" /\ tick'.stops = seen
        BY <1>n, <2>1, <2>3, <2>5, <2>6 DEF TickType
    <2>8. TickTypes'
        BY <2>6, <2>7 DEF TickTypes
    <2> QED BY <2>2, <2>8, ElsewhereTypes, NoWriteTypes
<1>2. ASSUME NEW missing \in SUBSET Instruments, TickPrices(missing) PROVE Types'
    <2> DEFINE marks == [i \in Instruments |-> IF i \in tick.wanted \ missing THEN price[i] ELSE NoPrice]
               pc    == IF HasMaxDD THEN "sweep" ELSE "orders"
               hit   == {s \in tick.stops : /\ marks[s.inst] # NoPrice
                                            /\ StopTriggered(s.pos, marks[s.inst]) # ""}
               fired == {[inst |-> s.inst, id |-> s.pos.id,
                          trigger |-> StopTriggered(s.pos, marks[s.inst])] : s \in hit}
    <2>1. tick' = [tick EXCEPT !.pc = pc, !.marks = marks, !.wanted = {}, !.stops = fired]
        BY <1>2 DEF TickPrices
    <2>2. Elsewhere /\ NoWrite /\ tick.pc = "prices"
        BY <1>2 DEF TickPrices
    <2>3. marks \in Marks
        BY TradingAssumption DEF Types, Marks, NoPrice
    <2>4. pc \in {"sweep", "orders"}
        OBVIOUS
    <2> HIDE DEF marks, pc
    <2>5. hit \subseteq SeenStop /\ \A s \in hit : StopTriggered(s.pos, marks[s.inst]) # ""
        BY <1>f, <2>2
    <2> HIDE DEF hit
    <2>6. fired \subseteq FiredStop
        <3> SUFFICES ASSUME NEW s \in hit
                     PROVE  [inst |-> s.inst, id |-> s.pos.id,
                             trigger |-> StopTriggered(s.pos, marks[s.inst])] \in FiredStop
            OBVIOUS
        <3>1. s \in SeenStop
            BY <2>5
        <3>2. s.inst \in Instruments /\ s.pos.id \in Ids
            BY <3>1 DEF SeenStop, PositionType, Ids
        <3>3. StopTriggered(s.pos, marks[s.inst]) \in {"stop_loss", "take_profit"}
            BY <2>5, StopKinds
        <3> QED BY <3>2, <3>3 DEF FiredStop
    <2> HIDE DEF fired
    <2>7. tick' \in TickType /\ tick'.pc = pc /\ tick'.stops = fired
        BY <1>0, <2>1, <2>3, <2>4, <2>6 DEF TickType
    <2>8. TickTypes'
        BY <2>4, <2>6, <2>7 DEF TickTypes
    <2> QED BY <2>2, <2>8, ElsewhereTypes, NoWriteTypes
<1>3. ASSUME NEW pc \in {"list", "swept"}, TickVars(pc), tick.pc = "sweep" PROVE TickTypes'
    <2>1. tick' = [tick EXCEPT !.pc = pc]
        BY <1>3 DEF TickVars
    <2>2. tick' \in TickType /\ tick'.pc = pc /\ tick'.stops = tick.stops
        BY <1>0, <2>1 DEF TickType
    <2> QED BY <1>f, <1>3, <2>2 DEF TickTypes
<1>4. CASE Sweep
    <2>0. tick.pc = "sweep" /\ Elsewhere
        BY <1>4 DEF Sweep
    <2>1. CASE Precheck(tick.marks) /\ TickVars("list")
        BY <1>0, <1>3, <2>0, <2>1, PrecheckTypes, ElsewhereTypes
    <2>2. CASE NoWrite /\ (TickVars("list") \/ TickVars("swept"))
        BY <1>3, <2>0, <2>2, NoWriteTypes, ElsewhereTypes
    <2> QED BY <1>4, <2>1, <2>2 DEF Sweep
<1>5. CASE ListPositions
    <2> DEFINE list == {[inst |-> i, id |-> pos[i].id] : i \in {i \in Open : tick.marks[i] # NoPrice}}
    <2>1. tick' = [tick EXCEPT !.pc = "liquidate", !.list = list] /\ tick.pc = "list"
        BY <1>5 DEF ListPositions
    <2>2. Elsewhere /\ NoWrite
        BY <1>5 DEF ListPositions
    <2>3. list \in SUBSET [inst : Instruments, id : Ids]
        BY <1>g DEF Open
    <2> HIDE DEF list
    <2>4. tick' \in TickType /\ tick'.pc = "liquidate" /\ tick'.stops = tick.stops
        BY <1>0, <2>1, <2>3 DEF TickType
    <2>5. TickTypes'
        BY <1>f, <2>1, <2>4 DEF TickTypes
    <2> QED BY <2>2, <2>5, ElsewhereTypes, NoWriteTypes
<1>6. ASSUME NEW e \in tick.list, Liquidate(e) \/ LiquidateFails(e) PROVE Types'
    <2>1. tick' = [tick EXCEPT !.list = tick.list \ {e}] /\ tick.pc = "liquidate" /\ Elsewhere
        BY <1>6 DEF Liquidate, LiquidateFails
    <2>2. tick' \in TickType /\ tick'.pc = "liquidate" /\ tick'.stops = tick.stops
        <3>1. tick.list \ {e} \in SUBSET [inst : Instruments, id : Ids]
            BY <1>f
        <3> QED BY <1>0, <2>1, <3>1 DEF TickType
    <2>3. TickTypes'
        BY <1>f, <2>1, <2>2 DEF TickTypes
    <2>4. AccountTypes' /\ RowTypes'
        <3>1. CASE LiquidateFails(e)
            BY <3>1, NoWriteTypes DEF LiquidateFails
        <3>2. CASE Liquidate(e)
            <4>1. e.inst \in Instruments /\ tick.marks[e.inst] \in Nat
                BY <1>f, <1>g
            <4>2. CloseAt(e.inst, e.id, 0, tick.marks[e.inst], "max_dd")
                BY <3>2 DEF Liquidate
            <4> QED BY <1>0, <4>1, <4>2, CloseAtStep
        <3> QED BY <1>6, <3>1, <3>2
    <2> QED BY <2>1, <2>3, <2>4, ElsewhereTypes
<1>7. CASE AfterSweep
    <2>1. tick' = [tick EXCEPT !.pc = "orders", !.seen = (Exists /\ stopped)] /\ tick.pc # "prices"
        BY <1>7 DEF AfterSweep
    <2>2. Elsewhere /\ NoWrite /\ (Exists /\ stopped) \in BOOLEAN
        BY <1>7 DEF AfterSweep
    <2>3. tick' \in TickType /\ tick'.pc = "orders" /\ tick'.stops = tick.stops
        BY <1>0, <2>1, <2>2 DEF TickType
    <2>4. TickTypes'
        BY <1>f, <2>1, <2>3 DEF TickTypes
    <2> QED BY <2>2, <2>4, ElsewhereTypes, NoWriteTypes
<1>8. CASE LastDone
    <2>1. TickTypes'
        BY <1>n, <1>8 DEF LastDone, TickTypes
    <2> QED BY <1>8, <2>1, ElsewhereTypes, NoWriteTypes DEF LastDone
<1>9. ASSUME NEW o \in tick.orders, FillOpenOrder(o) \/ RejectOpenOrder(o) \/ FillHalts(o) \/ FillSkips(o)
      PROVE  Types'
    <2>0. o \in OrderIds
        BY <1>f
    <2>1. tick' = [tick EXCEPT !.orders = tick.orders \ {o}] /\ tick.pc = "orders" /\ Elsewhere
        BY <1>9 DEF FillOpenOrder, RejectOpenOrder, FillHalts, FillSkips, Fillable, NextOrder
    <2>2. tick' \in TickType /\ tick'.pc = "orders" /\ tick'.stops = tick.stops
        <3>1. tick.orders \ {o} \in SUBSET OrderIds
            BY <1>f
        <3> QED BY <1>0, <2>1, <3>1 DEF TickType
    <2>3. TickTypes'
        BY <1>f, <2>1, <2>2 DEF TickTypes
    <2>a. \A as \in {"filled", "rejected", "canceled"} :
            [orders EXCEPT ![o] = Ended(as)] \in [OrderIds -> OrderType]
        BY <1>0 DEF RowTypes, Ended, OrderType
    <2>4. AccountTypes' /\ RowTypes'
        <3>1. CASE FillSkips(o)
            BY <3>1, NoWriteTypes DEF FillSkips
        <3>2. CASE FillHalts(o)
            BY <1>0, <3>2, PrecheckTypes DEF FillHalts
        <3>3. CASE RejectOpenOrder(o)
            <4>1. orders' \in [OrderIds -> OrderType]
                BY <2>a, <3>3 DEF RejectOpenOrder
            <4>2. UNCHANGED <<accountVars, pos, placed, cash>>
                BY <3>3 DEF RejectOpenOrder
            <4> QED BY <1>0, <4>1, <4>2 DEF AccountTypes, RowTypes
        <3>4. CASE FillOpenOrder(o)
            <4> DEFINE book == [orders EXCEPT ![o] = Ended("filled")]
            <4>1. orders[o] \in OpenOrder
                BY <1>0, <2>0, <3>4, OrderShape DEF FillOpenOrder, Fillable
            <4>2. orders[o].at \in Nat /\ orders[o].ticket \in TicketType /\ MakerRate \in Nat
                BY <4>1, TradingAssumption DEF OpenOrder
            <4>3. /\ Fits(orders[o].ticket) /\ Settle(orders[o].ticket, orders[o].at, MakerRate, o)
                  /\ UNCHANGED <<status, baseline, placed>> /\ PostCheck(book, tick.marks)
                BY <3>4 DEF FillOpenOrder
            <4>4. book \in [OrderIds -> OrderType]
                BY <2>a
            <4> HIDE DEF book
            <4> QED BY <1>0, <2>0, <4>2, <4>3, <4>4, FillTypes
        <3> QED BY <1>9, <3>1, <3>2, <3>3, <3>4
    <2> QED BY <2>1, <2>3, <2>4, ElsewhereTypes
<1>10. ASSUME NEW s \in tick.stops, CloseStop(s) \/ CloseStopFails(s) PROVE Types'
    <2>1. tick' = [tick EXCEPT !.stops = tick.stops \ {s}] /\ tick.pc = "orders" /\ Elsewhere
        BY <1>10 DEF CloseStop, CloseStopFails, Stopping
    <2>2. tick.stops \subseteq FiredStop /\ s \in FiredStop
        BY <1>f, <2>1
    <2>3. tick' \in TickType /\ tick'.pc = "orders" /\ tick'.stops = tick.stops \ {s}
        <3>1. tick.stops \ {s} \in SUBSET (SeenStop \cup FiredStop)
            BY <1>f
        <3> QED BY <1>0, <2>1, <3>1 DEF TickType
    <2>4. TickTypes'
        BY <2>2, <2>3 DEF TickTypes
    <2>5. AccountTypes' /\ RowTypes'
        <3>1. CASE CloseStopFails(s)
            BY <3>1, NoWriteTypes DEF CloseStopFails
        <3>2. CASE CloseStop(s)
            <4>1. s.inst \in Instruments
                BY <2>2 DEF FiredStop
            <4>2. CloseAt(s.inst, s.id, 0, tick.marks[s.inst], s.trigger) /\ tick.marks[s.inst] \in Nat
                BY <1>g, <3>2, <4>1 DEF CloseStop
            <4> QED BY <1>0, <4>1, <4>2, CloseAtStep
        <3> QED BY <1>10, <3>1, <3>2
    <2> QED BY <2>1, <2>4, <2>5, ElsewhereTypes
<1>11. CASE CleanUp
    <2>1. Elsewhere /\ NoWrite /\ tick.pc = "orders"
        BY <1>11 DEF CleanUp, Stopping
    <2>2. CASE tick' = NoTick
        BY <1>n, <2>1, <2>2, ElsewhereTypes, NoWriteTypes DEF TickTypes
    <2>3. CASE tick' = [tick EXCEPT !.pc = "list", !.last = TRUE]
        <3>1. tick' \in TickType /\ tick'.pc = "list" /\ tick'.stops = tick.stops
            BY <1>0, <2>3 DEF TickType
        <3>2. TickTypes'
            BY <1>f, <2>1, <3>1 DEF TickTypes
        <3> QED BY <2>1, <3>2, ElsewhereTypes, NoWriteTypes
    <2> QED BY <1>11, <2>2, <2>3 DEF CleanUp
<1> QED BY <1>1, <1>2, <1>4, <1>5, <1>6, <1>7, <1>8, <1>9, <1>10, <1>11 DEF Tick

\* Every row, call and snapshot is of its type, for every step.
LEMMA TypesNext == Types /\ [Next]_vars => Types'
<1> SUFFICES ASSUME Types, [Next]_vars PROVE Types'
    OBVIOUS
<1>0. AccountTypes /\ RowTypes /\ CallTypes /\ TickTypes
    BY DEF Types
<1>1. ASSUME NEW c \in Clients, ReadMarks(c) PROVE Types'
    <2> DEFINE r == [op |-> "market", id |-> call[c].id, at |-> call[c].at, marks |-> RiskMarks,
                     ticket |-> call[c].ticket]
    <2>1. call' = [call EXCEPT ![c] = r]
          /\ UNCHANGED <<status, balance, baseline, stopped, pos, orders, placed, price, tick, cash>>
        BY <1>1 DEF ReadMarks
    <2>2. call[c] \in OrderCall /\ RiskMarks \in Marks
        BY <1>0, <1>1, CallShape, MarksType DEF ReadMarks, Types
    <2>3. r \in CallType
        BY <2>2 DEF OrderCall, CallType
    <2> HIDE DEF r
    <2>4. CallTypes'
        BY <1>0, <2>1, <2>3 DEF CallTypes
    <2> QED BY <2>1, <2>4 DEF Types, AccountTypes, RowTypes, TickTypes
<1>2. ASSUME NEW c \in Clients, Abort(c) PROVE Types'
    <2>1. call' = [call EXCEPT ![c] = NoCall]
          /\ UNCHANGED <<status, balance, baseline, stopped, pos, orders, placed, price, tick, cash>>
        BY <1>2 DEF Abort
    <2>2. CallTypes'
        BY <1>0, <2>1 DEF CallTypes, CallType
    <2> QED BY <2>1, <2>2 DEF Types, AccountTypes, RowTypes, TickTypes
<1>3. ASSUME NEW o \in OrderIds, CancelOrder(o) PROVE Types'
    <2>1. orders' \in [OrderIds -> OrderType]
        BY <1>0, <1>3 DEF CancelOrder, RowTypes, Ended, OrderType
    <2>2. UNCHANGED <<status, balance, baseline, stopped, pos, placed, call, price, tick, cash>>
        BY <1>3 DEF CancelOrder
    <2> QED BY <2>1, <2>2 DEF Types, AccountTypes, RowTypes, CallTypes, TickTypes
<1>4. CASE Administer
    <2>1. UNCHANGED <<placed, price, call, tick>>
        BY <1>4 DEF Administer, UpdateStatus, ResumeTrading, Delete
    <2>2. AccountTypes' /\ RowTypes'
        <3>1. ASSUME NEW new \in {"active", "disabled"}, UpdateStatus(new) PROVE AccountTypes' /\ RowTypes'
            BY <1>0, <3>1 DEF UpdateStatus, AccountTypes, RowTypes
        <3>2. CASE ResumeTrading
            <4>1. /\ baseline' = balance /\ stopped' = FALSE /\ status' = "active"
                  /\ UNCHANGED <<balance, pos, orders, placed, cash>>
                BY <3>2 DEF ResumeTrading
            <4>2. stopped' \in BOOLEAN
                BY <4>1
            <4> QED BY <1>0, <4>1, <4>2 DEF AccountTypes, RowTypes
        <3>3. CASE Delete
            <4>1. /\ status' = "deleted" /\ balance' = 0 /\ baseline' = 0 /\ cash' = 0
                  /\ placed' = placed /\ pos' = [i \in Instruments |-> NoPosition]
                  /\ orders' = [o \in OrderIds |-> IF o \in OpenOrders THEN NoOrder ELSE orders[o]]
                BY <3>3 DEF Delete, NoRow
            <4>2. stopped' \in BOOLEAN
                BY <3>3 DEF Delete, NoRow
            <4>3. NoPosition \in PositionType /\ NoPosition.quantity = 0 /\ NoOrder \in OrderType
                BY TradingAssumption DEF NoPosition, PositionType, NoLevel, NoOrder, OrderType
            <4>4. AccountTypes'
                BY <1>0, <4>1, <4>2 DEF AccountTypes
            <4> QED BY <1>0, <4>1, <4>3, <4>4 DEF RowTypes
        <3> QED BY <1>4, <3>1, <3>2, <3>3 DEF Administer
    <2> QED BY <2>1, <2>2 DEF Types, CallTypes, TickTypes
<1>5. ASSUME NEW i \in Instruments, NEW new \in Prices, PriceMoves(i, new) PROVE Types'
    <2>1. price' = [price EXCEPT ![i] = new]
          /\ UNCHANGED <<status, balance, baseline, stopped, pos, orders, placed, call, tick, cash>>
        BY <1>5 DEF PriceMoves
    <2> QED BY <2>1 DEF Types, AccountTypes, RowTypes, CallTypes, TickTypes
<1>6. CASE Restart
    <2>1. call' = [c \in Clients |-> NoCall] /\ tick' = NoTick
          /\ UNCHANGED <<status, balance, baseline, stopped, pos, orders, placed, price, cash>>
        BY <1>6 DEF Restart
    <2>2. NoTick \in TickType /\ NoTick.stops = {}
        BY MarksType DEF Types, NoTick, TickType
    <2>3. CallTypes' /\ TickTypes'
        BY <2>1, <2>2 DEF CallTypes, CallType, TickTypes
    <2> QED BY <2>1, <2>3 DEF Types, AccountTypes, RowTypes
<1>7. CASE UNCHANGED vars
    BY <1>7 DEF vars, Types, AccountTypes, RowTypes, CallTypes, TickTypes
<1> QED BY <1>1, <1>2, <1>3, <1>4, <1>5, <1>6, <1>7, RequestTypes, CommitTypes, TickSteps DEF Next

\* The types hold in every reachable state, for every request, price and fee.
THEOREM TypesHold == Spec => []Types
BY TypesInit, TypesNext, PTL DEF Spec

-----------------------------------------------------------------------------
(* Positions: who writes them. *)

\* The transactions that write a position.
PosWrite ==
    \/ Delete
    \/ \E c \in Clients : CommitMarket(c) \/ CommitStops(c) \/ CommitClose(c)
    \/ \E o \in tick.orders : FillOpenOrder(o)
    \/ \E e \in tick.list : Liquidate(e)
    \/ \E s \in tick.stops : CloseStop(s)

LEMMA PosActions ==
    ASSUME [Next]_vars
    PROVE  pos' = pos \/ PosWrite
<1>1. ASSUME NEW c \in Clients, Request(c) \/ ReadMarks(c) \/ Abort(c) PROVE pos' = pos
    BY <1>1 DEF Request, BeginMarket, BeginLimit, BeginClose, BeginStops, Begin, ReadMarks, Abort
<1>2. ASSUME NEW c \in Clients, CommitLimit(c) PROVE pos' = pos
    BY <1>2 DEF CommitLimit, Precheck
<1>3. ASSUME NEW o \in OrderIds, CancelOrder(o) PROVE pos' = pos
    BY <1>3 DEF CancelOrder
<1>4. Administer => pos' = pos \/ Delete
    BY DEF Administer, UpdateStatus, ResumeTrading
<1>5. Tick => pos' = pos \/ PosWrite
    <2>1. TickLoad \/ (\E missing \in SUBSET Instruments : TickPrices(missing))
          \/ ListPositions \/ AfterSweep \/ LastDone \/ CleanUp => NoWrite
        BY DEF TickLoad, TickPrices, ListPositions, AfterSweep, LastDone, CleanUp
    <2>2. Sweep => pos' = pos
        BY DEF Sweep, Precheck, NoWrite
    <2>3. \A e \in tick.list : LiquidateFails(e) => pos' = pos
        BY DEF LiquidateFails, NoWrite
    <2>4. \A o \in tick.orders : RejectOpenOrder(o) \/ FillHalts(o) \/ FillSkips(o) => pos' = pos
        BY DEF RejectOpenOrder, FillHalts, FillSkips, Precheck, NoWrite
    <2>5. \A s \in tick.stops : CloseStopFails(s) => pos' = pos
        BY DEF CloseStopFails, NoWrite
    <2>6. NoWrite => pos' = pos
        BY DEF NoWrite
    <2> QED BY <2>1, <2>2, <2>3, <2>4, <2>5, <2>6 DEF Tick, PosWrite
<1>6. (\E i \in Instruments, new \in Prices : PriceMoves(i, new)) \/ Restart \/ UNCHANGED vars => pos' = pos
    BY DEF PriceMoves, Restart, vars
<1> QED BY <1>1, <1>2, <1>3, <1>4, <1>5, <1>6 DEF Next, Commit, PosWrite

\* What each of the closing transactions does to the positions.
Reduces(i) ==
    /\ i \in Open
    /\ \A j \in Instruments : j # i => pos'[j] = pos[j]
    /\ Abs(pos'[i].quantity) < Abs(pos[i].quantity)
    /\ ~SameDirection(pos'[i].quantity, -pos[i].quantity)
    /\ pos'[i].quantity # 0 => pos'[i].id = pos[i].id

LEMMA CloseReduces ==
    ASSUME Types, NEW c \in Clients, CommitClose(c)
    PROVE  /\ call[c].inst \in Instruments /\ Reduces(call[c].inst) /\ pos[call[c].inst].id = call[c].id
           /\ ~stopped /\ call[c].op = "close"
<1>1. call[c].op = "close" /\ CloseAt(call[c].inst, call[c].id, call[c].quantity, call[c].at, "")
    BY DEF CommitClose
<1>2. call[c] \in CloseCall /\ AccountTypes /\ RowTypes
    BY <1>1, CallShape DEF Types
<1>3. call[c].inst \in Instruments /\ call[c].quantity \in Nat /\ call[c].at \in Nat
    BY <1>2 DEF CloseCall
<1>4. ~stopped
    BY <1>1, <1>2 DEF CloseAt, AccountTypes
<1> QED BY <1>1, <1>2, <1>3, <1>4, CloseAtStep DEF Reduces

LEMMA LiquidateReduces ==
    ASSUME Types, NEW e \in tick.list, Liquidate(e)
    PROVE  /\ e.inst \in Instruments /\ Reduces(e.inst) /\ pos[e.inst].id = e.id
           /\ pos'[e.inst] = NoPosition /\ stopped
<1>1. CloseAt(e.inst, e.id, 0, tick.marks[e.inst], "max_dd")
    BY DEF Liquidate
<1>2. AccountTypes /\ RowTypes /\ TickTypes
    BY DEF Types
<1>3. e.inst \in Instruments /\ tick.marks[e.inst] \in Nat
    BY <1>2, TickFields DEF Marks
<1>4. stopped
    BY <1>1, <1>2 DEF CloseAt, AccountTypes
<1>5. /\ e.inst \in Open /\ pos[e.inst].id = e.id
      /\ \A j \in Instruments : j # e.inst => pos'[j] = pos[j]
      /\ Abs(pos'[e.inst].quantity) < Abs(pos[e.inst].quantity)
      /\ ~SameDirection(pos'[e.inst].quantity, -pos[e.inst].quantity)
      /\ pos'[e.inst] = NoPosition
      /\ pos'[e.inst].quantity # 0 => pos'[e.inst].id = pos[e.inst].id
    <2> DEFINE i == e.inst
               id == e.id
               at == tick.marks[e.inst]
    <2>1. i \in Instruments /\ at \in Nat /\ CloseAt(i, id, 0, at, "max_dd")
        BY <1>1, <1>3
    <2> HIDE DEF i, id, at
    <2>2. 0 \in Nat
        OBVIOUS
    <2>3. /\ i \in Open /\ pos[i].id = id
          /\ \A j \in Instruments : j # i => pos'[j] = pos[j]
          /\ Abs(pos'[i].quantity) < Abs(pos[i].quantity)
          /\ ~SameDirection(pos'[i].quantity, -pos[i].quantity)
          /\ pos'[i] = NoPosition
          /\ pos'[i].quantity # 0 => pos'[i].id = pos[i].id
        BY <1>2, <2>1, <2>2, CloseAtStep
    <2> QED BY <2>3 DEF i, id
<1> QED BY <1>3, <1>4, <1>5 DEF Reduces

LEMMA StopReduces ==
    ASSUME Types, NEW s \in tick.stops, CloseStop(s)
    PROVE  /\ s.inst \in Instruments /\ Reduces(s.inst) /\ pos[s.inst].id = s.id
           /\ StopTriggered(pos[s.inst], tick.marks[s.inst]) = s.trigger /\ ~stopped
<1>1. CloseAt(s.inst, s.id, 0, tick.marks[s.inst], s.trigger) /\ tick.pc = "orders"
    BY DEF CloseStop, Stopping
<1>2. AccountTypes /\ RowTypes /\ TickTypes
    BY DEF Types
<1>3. s \in FiredStop /\ tick.marks \in Marks
    BY <1>1, <1>2, TickFields
<1>4. s.inst \in Instruments /\ tick.marks[s.inst] \in Nat /\ s.trigger \in {"stop_loss", "take_profit"}
    BY <1>3 DEF FiredStop, Marks
<1>5. ~stopped /\ StopTriggered(pos[s.inst], tick.marks[s.inst]) = s.trigger
    BY <1>1, <1>2, <1>4 DEF CloseAt, AccountTypes
<1> QED BY <1>1, <1>2, <1>4, <1>5, CloseAtStep DEF Reduces

\* A market or limit fill writes one position, under a drawn id if it is new.
Fills(i, id) ==
    /\ \A j \in Instruments : j # i => pos'[j] = pos[j]
    /\ pos'[i].quantity # 0 => \/ pos[i].quantity # 0 /\ pos'[i].id = pos[i].id
                               \/ pos[i].quantity = 0 /\ pos'[i].id = id

LEMMA SettleFills ==
    ASSUME Types, NEW t \in TicketType, NEW at \in Nat, NEW rate \in Nat, NEW id \in OrderIds,
           Fits(t), Settle(t, at, rate, id)
    PROVE  t.inst \in Instruments /\ Fills(t.inst, id)
<1>1. id \in Ids /\ id # 0 /\ AccountTypes /\ RowTypes /\ t.inst \in Instruments
    BY TradingAssumption DEF OrderIds, Ids, Types, TicketType
<1>2. /\ \A i \in Instruments : i # t.inst => pos'[i] = pos[i]
      /\ pos'[t.inst].quantity # 0 => pos'[t.inst].id = IF pos[t.inst].id = 0 THEN id ELSE pos[t.inst].id
    BY <1>1, SettleType
<1>3. (pos[t.inst].quantity = 0 => pos[t.inst] = NoPosition) /\ (pos[t.inst].quantity # 0 => pos[t.inst].id # 0)
    BY <1>1 DEF RowTypes
<1>4. NoPosition.id = 0
    BY DEF NoPosition
<1> QED BY <1>1, <1>2, <1>3, <1>4 DEF Fills

LEMMA MarketFills ==
    ASSUME Types, NEW c \in Clients, CommitMarket(c)
    PROVE  /\ ~stopped /\ call[c].op = "market"
           /\ pos' = pos \/ \E i \in Instruments : Fills(i, call[c].id)
<1>1. ~stopped /\ call[c].op = "market"
    BY DEF CommitMarket
<1>2. CASE Precheck(call[c].marks)
    BY <1>1, <1>2 DEF Precheck
<1>3. CASE ~Precheck(call[c].marks)
    <2>1. Fits(call[c].ticket) /\ Settle(call[c].ticket, call[c].at, TakerRate, call[c].id)
        BY <1>3 DEF CommitMarket
    <2>2. call[c] \in OrderCall
        BY <1>1, CallShape DEF Types
    <2>3. call[c].at \in Nat /\ call[c].ticket \in TicketType /\ call[c].id \in OrderIds /\ TakerRate \in Nat
        BY <2>2, TradingAssumption DEF OrderCall
    <2> QED BY <1>1, <2>1, <2>3, SettleFills
<1> QED BY <1>2, <1>3

LEMMA OrderFills ==
    ASSUME Types, NEW o \in tick.orders, FillOpenOrder(o)
    PROVE  /\ ~stopped /\ o \in OrderIds /\ orders[o].status = "open" /\ orders'[o].status # "open"
           /\ \E i \in Instruments : Fills(i, o)
<1>0. RowTypes /\ TickTypes /\ o \in OrderIds
    BY TickFields DEF Types
<1>1. ~stopped /\ orders[o].status = "open"
    BY DEF FillOpenOrder, Fillable
<1>2. orders[o] \in OpenOrder
    BY <1>0, <1>1, OrderShape
<1>3. orders[o].at \in Nat /\ orders[o].ticket \in TicketType /\ MakerRate \in Nat
    BY <1>2, TradingAssumption DEF OpenOrder
<1>4. Fits(orders[o].ticket) /\ Settle(orders[o].ticket, orders[o].at, MakerRate, o)
    BY DEF FillOpenOrder
<1>5. orders'[o].status # "open"
    <2> DEFINE book == [orders EXCEPT ![o] = Ended("filled")]
    <2>1. DOMAIN book = OrderIds /\ book[o].status = "filled"
        BY <1>0 DEF RowTypes, Ended
    <2>2. PostCheck(book, tick.marks)
        BY DEF FillOpenOrder
    <2> HIDE DEF book
    <2> QED BY <1>0, <2>1, <2>2, PostCheckOrders
<1> QED BY <1>0, <1>1, <1>3, <1>4, <1>5, SettleFills

-----------------------------------------------------------------------------
(* Ids of positions. *)

\* A position's id was drawn by one order, which is done with.
PosIds ==
    /\ \A i \in Open : /\ pos[i].id <= placed /\ orders[pos[i].id].status # "open"
                       /\ \A c \in Clients : Drawn(c) => call[c].id # pos[i].id
    /\ \A i, j \in Open : pos[i].id = pos[j].id => i = j

\* The position with lots that a step leaves was there, or is new and has the id
\* of a market order that ends or of a limit order that was open.
Kept(i) == i \in Open /\ pos'[i].id = pos[i].id
Fresh(i) ==
    /\ \A j \in Instruments : j # i => pos'[j] = pos[j]
    /\ \/ \E c \in Clients : Drawn(c) /\ call'[c] = NoCall /\ pos'[i].id = call[c].id
                             /\ \A o \in OrderIds : orders'[o] = orders[o] \/ orders'[o].status # "open"
       \/ \E o \in OrderIds : orders[o].status = "open" /\ orders'[o].status # "open" /\ pos'[i].id = o

LEMMA PosIdStep ==
    ASSUME Types, [Next]_vars, NEW i \in Instruments, pos'[i].quantity # 0
    PROVE  Kept(i) \/ Fresh(i)
<1>1. CASE pos' = pos
    BY <1>1 DEF Kept, Open
<1>2. CASE Delete
    BY <1>2 DEF Delete, NoPosition
<1>3. ASSUME NEW k, Reduces(k) PROVE Kept(i)
    BY <1>3 DEF Reduces, Kept, Open
<1>4. ASSUME NEW c \in Clients, CommitStops(c) PROVE Kept(i)
    <2>1. /\ call[c].inst \in Open
          /\ pos' = [pos EXCEPT ![call[c].inst].stopLoss = LevelOr(call[c].stopLoss, @),
                                ![call[c].inst].takeProfit = LevelOr(call[c].takeProfit, @)]
        BY <1>4 DEF CommitStops
    <2>2. pos[i] \in PositionType /\ pos \in [Instruments -> PositionType]
        BY DEF Types, RowTypes
    <2>3. pos'[i].quantity = pos[i].quantity /\ pos'[i].id = pos[i].id
        BY <2>1, <2>2 DEF PositionType
    <2> QED BY <2>3 DEF Kept, Open
<1>5. ASSUME NEW c \in Clients, CommitMarket(c) PROVE Kept(i) \/ Fresh(i)
    <2>1. ~stopped /\ call[c].op = "market" /\ (pos' = pos \/ \E k \in Instruments : Fills(k, call[c].id))
        BY <1>5, MarketFills
    <2>2. CASE \E k \in Instruments : Fills(k, call[c].id)
        <3>1. PICK k \in Instruments : Fills(k, call[c].id)
            BY <2>2
        <3>2. CASE i # k \/ pos[i].quantity # 0
            BY <3>1, <3>2 DEF Fills, Kept, Open
        <3>3. CASE i = k /\ pos[i].quantity = 0
            <4>1. Drawn(c) /\ call'[c] = NoCall
                BY <1>5, <2>1 DEF Drawn, CommitMarket, Ends, Types, CallTypes
            <4>2. \A o \in OrderIds : orders'[o] = orders[o] \/ orders'[o].status # "open"
                <5>1. DOMAIN orders = OrderIds
                    BY DEF Types, RowTypes
                <5>2. CASE Precheck(call[c].marks)
                    <6>1. Halt(orders)
                        BY <5>2 DEF Precheck
                    <6> QED BY <5>1, <6>1, HaltOrders
                <5>3. CASE ~Precheck(call[c].marks)
                    <6>1. PICK marks : PostCheck(orders, marks)
                        BY <1>5, <5>3 DEF CommitMarket
                    <6>2. \A o \in OrderIds : \/ orders'[o] = orders[o]
                                              \/ orders[o].status = "open" /\ orders'[o].status = "canceled"
                        BY <5>1, <6>1, PostCheckOrders
                    <6> QED BY <6>2
                <5> QED BY <5>2, <5>3
            <4> QED BY <3>1, <3>3, <4>1, <4>2 DEF Fills, Fresh
        <3> QED BY <3>2, <3>3
    <2> QED BY <1>1, <2>1, <2>2
<1>6. ASSUME NEW o \in tick.orders, FillOpenOrder(o) PROVE Kept(i) \/ Fresh(i)
    <2>1. o \in OrderIds /\ orders[o].status = "open" /\ orders'[o].status # "open"
        BY <1>6, OrderFills
    <2>2. PICK k \in Instruments : Fills(k, o)
        BY <1>6, OrderFills
    <2>3. CASE i # k \/ pos[i].quantity # 0
        BY <2>2, <2>3 DEF Fills, Kept, Open
    <2>4. CASE i = k /\ pos[i].quantity = 0
        BY <2>1, <2>2, <2>4 DEF Fills, Fresh
    <2> QED BY <2>3, <2>4
<1> QED BY <1>1, <1>2, <1>3, <1>4, <1>5, <1>6, PosActions, CloseReduces, LiquidateReduces, StopReduces
        DEF PosWrite

LEMMA PosIdsNext == Types /\ AccountInv /\ PosIds /\ [Next]_vars => PosIds'
<1> SUFFICES ASSUME Types, AccountInv, PosIds, [Next]_vars PROVE PosIds'
    OBVIOUS
<1>0. Types' /\ AccountInv'
    BY TypesNext, InvStep
<1>1. OrderStep /\ CallStep
    <2>1. CASE Next
        BY <2>1, StepShape
    <2>2. CASE UNCHANGED vars
        BY <2>2 DEF vars, OrderStep, CallStep, AccountInv, FreshInv, Drawn
    <2> QED BY <2>1, <2>2
<1>2. ASSUME NEW c \in Clients, Drawn(c)'
      PROVE  call'[c] # NoCall /\ ((Drawn(c) /\ call'[c].id = call[c].id) \/ call'[c].id = placed + 1)
    <2>1. call'[c] # NoCall
        BY <1>2 DEF Drawn, NoCall
    <2> QED BY <1>1, <1>2, <2>1 DEF CallStep, Drawn
<1>3. placed' = placed \/ placed' = placed + 1
    BY <1>1 DEF CallStep
<1>4. placed \in Nat /\ \A o \in OrderIds : o \in Nat
    BY TradingAssumption DEF AccountInv, FreshInv, OrderIds
<1>5. \A i \in Open : pos[i].id \in OrderIds
    <2> SUFFICES ASSUME NEW i \in Open PROVE pos[i].id \in OrderIds
        OBVIOUS
    <2>1. i \in Instruments /\ pos[i] \in PositionType /\ pos[i].id # 0
        BY DEF Open, Types, RowTypes
    <2> QED BY <2>1, TradingAssumption DEF PositionType, OrderIds
<1>6. ASSUME NEW i \in Instruments, Kept(i)
      PROVE  /\ pos'[i].id <= placed /\ orders'[pos'[i].id].status # "open"
             /\ \A c \in Clients : Drawn(c)' => call'[c].id # pos'[i].id
    <2>1. i \in Open /\ pos'[i].id = pos[i].id /\ pos[i].id \in OrderIds
        BY <1>5, <1>6 DEF Kept
    <2>2. pos[i].id <= placed /\ orders[pos[i].id].status # "open"
          /\ \A c \in Clients : Drawn(c) => call[c].id # pos[i].id
        BY <2>1 DEF PosIds
    <2>3. orders'[pos[i].id] = orders[pos[i].id]
        BY <1>1, <2>1, <2>2 DEF OrderStep
    <2>4. ASSUME NEW c \in Clients, Drawn(c)' PROVE call'[c].id # pos'[i].id
        BY <1>2, <1>4, <2>1, <2>2, <2>4
    <2> QED BY <2>1, <2>2, <2>3, <2>4
<1>7. ASSUME NEW i \in Instruments, Fresh(i)
      PROVE  /\ pos'[i].id <= placed /\ orders'[pos'[i].id].status # "open"
             /\ \A c \in Clients : Drawn(c)' => call'[c].id # pos'[i].id
             /\ \A j \in Open : pos[j].id # pos'[i].id
    <2>1. CASE \E c \in Clients : Drawn(c) /\ call'[c] = NoCall /\ pos'[i].id = call[c].id
                             /\ \A o \in OrderIds : orders'[o] = orders[o] \/ orders'[o].status # "open"
        <3>1. PICK c \in Clients : Drawn(c) /\ call'[c] = NoCall /\ pos'[i].id = call[c].id
                             /\ \A o \in OrderIds : orders'[o] = orders[o] \/ orders'[o].status # "open"
            BY <2>1
        <3>2. call[c].id \in OrderIds /\ call[c].id <= placed /\ orders[call[c].id].status = "none"
              /\ \A d \in Clients : Drawn(d) /\ d # c => call[d].id # call[c].id
            BY <3>1 DEF AccountInv, FreshInv
        <3>3. ASSUME NEW d \in Clients, Drawn(d)' PROVE call'[d].id # call[c].id
            BY <1>2, <1>4, <3>1, <3>2, <3>3
        <3>4. orders'[call[c].id].status # "open"
            BY <3>1, <3>2
        <3>5. \A j \in Open : pos[j].id # call[c].id
            BY <3>1 DEF PosIds
        <3> QED BY <3>1, <3>2, <3>3, <3>4, <3>5
    <2>2. CASE \E o \in OrderIds : orders[o].status = "open" /\ orders'[o].status # "open" /\ pos'[i].id = o
        <3>1. PICK o \in OrderIds : orders[o].status = "open" /\ orders'[o].status # "open" /\ pos'[i].id = o
            BY <2>2
        <3>2. o <= placed
            BY <1>4, <3>1 DEF AccountInv, FreshInv
        <3>3. ASSUME NEW d \in Clients, Drawn(d)' PROVE call'[d].id # o
            <4>1. Drawn(d) => call[d].id # o
                BY <3>1 DEF AccountInv, FreshInv
            <4> QED BY <1>2, <1>4, <3>2, <3>3, <4>1
        <3>4. \A j \in Open : pos[j].id # o
            BY <3>1 DEF PosIds
        <3> QED BY <3>1, <3>2, <3>3, <3>4
    <2> QED BY <1>7, <2>1, <2>2 DEF Fresh
<1>8. ASSUME NEW i \in Open' PROVE i \in Instruments /\ (Kept(i) \/ Fresh(i))
    <2>1. i \in Instruments /\ pos'[i].quantity # 0
        BY DEF Open
    <2> QED BY <2>1, PosIdStep
<1>9. ASSUME NEW i \in Open', NEW j \in Open', pos'[i].id = pos'[j].id PROVE i = j
    <2>1. CASE Kept(i) /\ Kept(j)
        BY <1>9, <2>1 DEF Kept, PosIds
    <2>2. ASSUME NEW x \in Instruments, NEW y \in Open', Fresh(x), pos'[x].id = pos'[y].id PROVE x = y
        <3> SUFFICES ASSUME x # y PROVE FALSE
            OBVIOUS
        <3>1. y \in Instruments /\ pos'[y] = pos[y] /\ pos'[y].quantity # 0
            BY <2>2 DEF Open, Fresh
        <3>2. y \in Open /\ pos[y].id = pos'[x].id
            BY <2>2, <3>1 DEF Open
        <3> QED BY <1>7, <2>2, <3>2
    <2> QED BY <1>8, <1>9, <2>1, <2>2
<1>10. ASSUME NEW i \in Open'
       PROVE  /\ pos'[i].id <= placed' /\ orders'[pos'[i].id].status # "open"
              /\ \A c \in Clients : Drawn(c)' => call'[c].id # pos'[i].id
    <2>1. /\ pos'[i].id <= placed /\ orders'[pos'[i].id].status # "open"
          /\ \A c \in Clients : Drawn(c)' => call'[c].id # pos'[i].id
        BY <1>6, <1>7, <1>8
    <2>2. pos'[i].id \in Int
        <3>1. i \in Instruments /\ pos'[i] \in PositionType
            BY <1>0 DEF Open, Types, RowTypes
        <3> QED BY <3>1, TradingAssumption DEF PositionType
    <2> QED BY <1>3, <1>4, <2>1, <2>2
<1> QED BY <1>9, <1>10 DEF PosIds

\* The rows of an account are well typed and consistent: a position has lots
\* exactly when it has a row, and no two positions share an id, whatever calls
\* and Ticks are under way when they are opened, reversed and closed.
THEOREM RowsAreSound == Spec => []TypeOK
<1>1. Init => PosIds
    BY DEF Init, PosIds, Open, NoPosition
<1>2. Types /\ PosIds => TypeOK
    <2> SUFFICES ASSUME Types, PosIds PROVE TypeOK
        OBVIOUS
    <2>1. \A i \in Instruments : (pos[i] = NoPosition) <=> (pos[i].quantity = 0)
        BY DEF Types, RowTypes, NoPosition
    <2>2. \A o \in OrderIds : orders[o].status \in {"none", "open", "filled", "rejected", "canceled"}
        <3> SUFFICES ASSUME NEW o \in OrderIds
                     PROVE  orders[o].status \in {"none", "open", "filled", "rejected", "canceled"}
            OBVIOUS
        <3>1. orders[o] \in OrderType
            BY DEF Types, RowTypes
        <3> QED BY <3>1 DEF OrderType, OpenOrder
    <2>3. tick.pc \in {"idle", "prices", "sweep", "list", "liquidate", "swept", "orders"}
        BY DEF Types, TickTypes, TickType
    <2> QED BY <2>1, <2>2, <2>3 DEF TypeOK, Types, AccountTypes, RowTypes, PosIds, Ids
<1> QED BY <1>1, <1>2, PosIdsNext, TypesHold, AccountInvariant, PTL DEF Spec

-----------------------------------------------------------------------------
(* The floor, and what closes aim at. *)

\* Only fillOpenOrder fills an order.
LEMMA FilledBy ==
    ASSUME Types, [Next]_vars, NEW o \in OrderIds,
           orders[o].status = "open", orders'[o].status = "filled"
    PROVE  o \in tick.orders /\ FillOpenOrder(o)
<1>0. DOMAIN orders = OrderIds /\ orders'[o] # orders[o]
    BY DEF Types, RowTypes
<1>a. ASSUME NEW marks, Precheck(marks) PROVE FALSE
    <2>1. Halt(orders)
        BY <1>a DEF Precheck
    <2> QED BY <1>0, <2>1, HaltOrders
<1>1. ASSUME NEW c \in Clients, Request(c) \/ ReadMarks(c) \/ Abort(c) PROVE FALSE
    BY <1>0, <1>1 DEF Request, BeginMarket, BeginLimit, BeginClose, BeginStops, Begin, ReadMarks, Abort
<1>2. ASSUME NEW c \in Clients, Commit(c) PROVE FALSE
    <2>1. CASE CommitLimit(c)
        <3>1. orders' = [orders EXCEPT ![call[c].id] = [status |-> "open", at |-> call[c].at,
                                                        ticket |-> call[c].ticket]]
            BY <1>a, <2>1 DEF CommitLimit
        <3> QED BY <1>0, <3>1
    <2>2. CASE CommitMarket(c)
        <3>1. PICK marks : PostCheck(orders, marks)
            BY <1>a, <2>2 DEF CommitMarket
        <3> QED BY <1>0, <3>1, PostCheckOrders
    <2>3. CASE CommitClose(c) \/ CommitStops(c)
        BY <1>0, <2>3 DEF CommitClose, CommitStops, CloseAt
    <2> QED BY <1>2, <2>1, <2>2, <2>3 DEF Commit
<1>3. ASSUME NEW p \in OrderIds, CancelOrder(p) PROVE FALSE
    BY <1>0, <1>3 DEF CancelOrder, Ended
<1>4. CASE Administer
    BY <1>0, <1>4 DEF Administer, UpdateStatus, ResumeTrading, Delete, NoOrder
<1>5. CASE Tick
    <2>1. ~NoWrite
        BY <1>0 DEF NoWrite
    <2>2. TickLoad \/ (\E missing \in SUBSET Instruments : TickPrices(missing))
          \/ ListPositions \/ AfterSweep \/ LastDone \/ CleanUp => NoWrite
        BY DEF TickLoad, TickPrices, ListPositions, AfterSweep, LastDone, CleanUp
    <2>3. ~Sweep
        BY <1>a, <2>1 DEF Sweep
    <2>4. \A e \in tick.list : ~(Liquidate(e) \/ LiquidateFails(e))
        BY <1>0 DEF Liquidate, LiquidateFails, NoWrite, CloseAt
    <2>5. \A s \in tick.stops : ~(CloseStop(s) \/ CloseStopFails(s))
        BY <1>0 DEF CloseStop, CloseStopFails, NoWrite, CloseAt
    <2>6. ASSUME NEW p \in tick.orders, RejectOpenOrder(p) \/ FillHalts(p) \/ FillSkips(p) PROVE FALSE
        BY <1>0, <1>a, <2>1, <2>6 DEF RejectOpenOrder, FillHalts, FillSkips, Ended
    <2>7. ASSUME NEW p \in tick.orders, FillOpenOrder(p) PROVE p = o
        <3> DEFINE book == [orders EXCEPT ![p] = Ended("filled")]
        <3>1. PostCheck(book, tick.marks)
            BY <2>7 DEF FillOpenOrder
        <3>2. DOMAIN book = OrderIds /\ (p # o => book[o] = orders[o])
            BY <1>0
        <3> HIDE DEF book
        <3>3. orders'[o] = book[o] \/ orders'[o].status = "canceled"
            BY <3>1, <3>2, PostCheckOrders
        <3> QED BY <1>0, <3>2, <3>3
    <2> QED BY <1>5, <2>1, <2>2, <2>3, <2>4, <2>5, <2>6, <2>7 DEF Tick
<1>6. ASSUME (\E i \in Instruments, new \in Prices : PriceMoves(i, new)) \/ Restart \/ UNCHANGED vars
      PROVE  FALSE
    BY <1>0, <1>6 DEF PriceMoves, Restart, vars
<1> QED BY <1>1, <1>2, <1>3, <1>4, <1>5, <1>6 DEF Next

\* A stopped account loses whole positions, one per transaction, or all at once
\* with its row; nothing else of them changes.
LEMMA StoppedStep ==
    ASSUME Types, [Next]_vars, stopped
    PROVE  /\ \A i \in Instruments : pos'[i] \in {pos[i], NoPosition}
           /\ Cardinality({i \in Instruments : pos'[i] # pos[i]}) <= 1 \/ ~Exists'
<1>1. CASE pos' = pos
    <2>1. {i \in Instruments : pos'[i] # pos[i]} = {}
        BY <1>1
    <2>2. Cardinality({}) <= 1
        BY FS_EmptySet
    <2> QED BY <1>1, <2>1, <2>2
<1>2. CASE Delete
    BY <1>2 DEF Delete, NoRow, Exists
<1>3. ASSUME NEW c \in Clients, CommitMarket(c) \/ CommitStops(c) \/ CommitClose(c) PROVE FALSE
    BY <1>3, CloseReduces DEF CommitMarket, CommitStops
<1>4. ASSUME NEW o \in tick.orders, FillOpenOrder(o) PROVE FALSE
    BY <1>4 DEF FillOpenOrder
<1>5. ASSUME NEW s \in tick.stops, CloseStop(s) PROVE FALSE
    BY <1>5, StopReduces
<1>6. ASSUME NEW e \in tick.list, Liquidate(e)
      PROVE  /\ \A i \in Instruments : pos'[i] \in {pos[i], NoPosition}
             /\ Cardinality({i \in Instruments : pos'[i] # pos[i]}) <= 1
    <2>1. /\ e.inst \in Instruments /\ pos'[e.inst] = NoPosition
          /\ \A j \in Instruments : j # e.inst => pos'[j] = pos[j]
        BY <1>6, LiquidateReduces DEF Reduces
    <2>2. {i \in Instruments : pos'[i] # pos[i]} \subseteq {e.inst}
        BY <2>1
    <2>3. IsFiniteSet({e.inst}) /\ Cardinality({e.inst}) = 1
        BY FS_Singleton
    <2>4. Cardinality({i \in Instruments : pos'[i] # pos[i]}) <= Cardinality({e.inst})
        BY <2>2, <2>3, FS_Subset
    <2> QED BY <2>1, <2>3, <2>4
<1> QED BY <1>1, <1>2, <1>3, <1>4, <1>5, <1>6, PosActions DEF PosWrite

\* Only a resumption or a deletion takes the mark away.
LEMMA MarkStays ==
    ASSUME Types, [Next]_vars, stopped, ~stopped'
    PROVE  Open = {} \/ ~Exists'
<1>a. ASSUME NEW marks, Precheck(marks) PROVE FALSE
    BY <1>a DEF Precheck, Halt
<1>1. ASSUME NEW c \in Clients, Request(c) \/ ReadMarks(c) \/ Abort(c) PROVE FALSE
    BY <1>1 DEF Request, BeginMarket, BeginLimit, BeginClose, BeginStops, Begin, ReadMarks, Abort
<1>2. ASSUME NEW c \in Clients, Commit(c) PROVE FALSE
    BY <1>2 DEF Commit, CommitLimit, CommitMarket, CommitClose, CommitStops, CloseAt
<1>3. ASSUME NEW o \in OrderIds, CancelOrder(o) PROVE FALSE
    BY <1>3 DEF CancelOrder
<1>4. CASE Administer
    BY <1>4 DEF Administer, UpdateStatus, ResumeTrading, Delete, NoRow, Exists
<1>5. ASSUME Tick PROVE FALSE
    <2>1. ~NoWrite
        BY DEF NoWrite
    <2>2. TickLoad \/ (\E missing \in SUBSET Instruments : TickPrices(missing))
          \/ ListPositions \/ AfterSweep \/ LastDone \/ CleanUp => NoWrite
        BY DEF TickLoad, TickPrices, ListPositions, AfterSweep, LastDone, CleanUp
    <2>3. ~Sweep
        BY <2>1 DEF Sweep
    <2>4. \A e \in tick.list : ~(Liquidate(e) \/ LiquidateFails(e))
        BY <2>1 DEF Liquidate, LiquidateFails, CloseAt
    <2>5. \A s \in tick.stops : ~(CloseStop(s) \/ CloseStopFails(s))
        BY <2>1 DEF CloseStop, CloseStopFails, CloseAt
    <2>6. \A p \in tick.orders : ~(FillOpenOrder(p) \/ RejectOpenOrder(p) \/ FillHalts(p) \/ FillSkips(p))
        BY <2>1 DEF FillOpenOrder, RejectOpenOrder, FillHalts, FillSkips
    <2> QED BY <1>5, <2>1, <2>2, <2>3, <2>4, <2>5, <2>6 DEF Tick
<1>6. ASSUME (\E i \in Instruments, new \in Prices : PriceMoves(i, new)) \/ Restart \/ UNCHANGED vars
      PROVE  FALSE
    BY <1>6 DEF PriceMoves, Restart, vars
<1> QED BY <1>1, <1>2, <1>3, <1>4, <1>5, <1>6 DEF Next

\* Only its own transaction ends the call of a market order and writes a position.
LEMMA FilledAtTheMarket ==
    ASSUME Types, [Next]_vars, NEW c \in Clients, call[c].op = "market",
           call'[c] = NoCall, pos' # pos
    PROVE  CommitMarket(c)
<1>0. PosWrite /\ call'[c] # call[c] /\ DOMAIN call = Clients
    BY PosActions DEF NoCall, Types, CallTypes
<1>1. CASE Delete
    BY <1>0, <1>1 DEF Delete
<1>2. ASSUME NEW d \in Clients, CommitMarket(d) PROVE d = c
    BY <1>0, <1>2 DEF CommitMarket, Ends
<1>3. ASSUME NEW d \in Clients, CommitStops(d) \/ CommitClose(d) PROVE FALSE
    <2>1. call[d].op # "market" /\ Ends(d)
        BY <1>3 DEF CommitStops, CommitClose
    <2> QED BY <1>0, <2>1 DEF Ends
<1>4. ASSUME NEW o \in tick.orders, FillOpenOrder(o) PROVE FALSE
    BY <1>0, <1>4 DEF FillOpenOrder, Elsewhere
<1>5. ASSUME NEW e \in tick.list, Liquidate(e) PROVE FALSE
    BY <1>0, <1>5 DEF Liquidate, Elsewhere
<1>6. ASSUME NEW s \in tick.stops, CloseStop(s) PROVE FALSE
    BY <1>0, <1>6 DEF CloseStop, Elsewhere
<1> QED BY <1>0, <1>1, <1>2, <1>3, <1>4, <1>5, <1>6 DEF PosWrite

\* An order whose fill reaches the loss limit, a limit order of the Tick or a market
\* order of a caller, stops the account in its transaction, and from then on positions
\* only disappear, whole, until all have or the account is deleted, whichever calls,
\* Ticks and restarts are under way.
THEOREM FloorHolds == Spec => FloorIsEnforced
<1>1. Types /\ [Next]_vars =>
        \A o \in OrderIds : orders[o].status = "open" /\ orders'[o].status = "filled" =>
            stopped' \/ ~Breached(balance', pos', tick.marks)
    <2> SUFFICES ASSUME Types, [Next]_vars, NEW o \in OrderIds,
                        orders[o].status = "open", orders'[o].status = "filled"
                 PROVE  stopped' \/ ~Breached(balance', pos', tick.marks)
        OBVIOUS
    <2>1. FillOpenOrder(o)
        BY FilledBy
    <2>2. PICK book : PostCheck(book, tick.marks)
        BY <2>1 DEF FillOpenOrder
    <2> QED BY <2>2 DEF PostCheck, Halt
<1>2. Types /\ [Next]_vars =>
        (stopped => /\ \A i \in Instruments : pos'[i] \in {pos[i], NoPosition}
                    /\ Cardinality({i \in Instruments : pos'[i] # pos[i]}) <= 1 \/ ~Exists'
                    /\ ~stopped' => Open = {} \/ ~Exists')
    BY StoppedStep, MarkStays
<1>3. Types /\ [Next]_vars =>
        \A c \in Clients :
            call[c].op = "market" /\ call'[c] = NoCall /\ pos' # pos =>
                stopped' \/ ~Breached(balance', pos', MarksAt(call[c]))
    <2> SUFFICES ASSUME Types, [Next]_vars, NEW c \in Clients, call[c].op = "market",
                        call'[c] = NoCall, pos' # pos
                 PROVE  stopped' \/ ~Breached(balance', pos', MarksAt(call[c]))
        OBVIOUS
    <2>1. CommitMarket(c)
        BY FilledAtTheMarket
    <2>2. PostCheck(orders, MarksAt(call[c]))
        BY <2>1 DEF CommitMarket, Precheck
    <2> QED BY <2>2 DEF PostCheck, Halt
<1> QED BY <1>1, <1>2, <1>3, TypesHold, PTL DEF Spec, FloorIsEnforced, FillsRespectTheFloor, StoppedOnlyShrinks

\* ClosePosition, the stops and the liquidation close what they were aimed at,
\* under the lock, however old the call or the snapshot is that asked for it.
THEOREM ClosesHitTheirAim == Spec => ClosesAreAimed
<1> DEFINE Aimed ==
      \A i \in Instruments :
         /\ (\E c \in Clients : call[c].op = "close" /\ call'[c] # call[c]) /\ pos'[i] # pos[i] =>
                \E c \in Clients : /\ call[c].op = "close" /\ call[c].id = pos[i].id
                                   /\ Abs(pos'[i].quantity) < Abs(pos[i].quantity)
                                   /\ ~SameDirection(pos'[i].quantity, -pos[i].quantity)
         /\ tick.pc = "liquidate" /\ tick'.pc = "liquidate" /\ tick' # tick /\ pos'[i] # pos[i] =>
                stopped /\ \E e \in tick.list : e.id = pos[i].id
         /\ Stopping /\ tick' # tick /\ pos'[i] # pos[i] =>
                \E s \in tick.stops : /\ s.id = pos[i].id
                                      /\ StopTriggered(pos[i], tick.marks[i]) = s.trigger
<1>1. Types /\ [Next]_vars => Aimed
    <2> SUFFICES ASSUME Types, [Next]_vars, NEW i \in Instruments, pos'[i] # pos[i]
                 PROVE  /\ (\E c \in Clients : call[c].op = "close" /\ call'[c] # call[c]) =>
                             \E c \in Clients : /\ call[c].op = "close" /\ call[c].id = pos[i].id
                                                /\ Abs(pos'[i].quantity) < Abs(pos[i].quantity)
                                                /\ ~SameDirection(pos'[i].quantity, -pos[i].quantity)
                        /\ tick.pc = "liquidate" /\ tick'.pc = "liquidate" /\ tick' # tick =>
                             stopped /\ \E e \in tick.list : e.id = pos[i].id
                        /\ Stopping /\ tick' # tick =>
                             \E s \in tick.stops : /\ s.id = pos[i].id
                                                   /\ StopTriggered(pos[i], tick.marks[i]) = s.trigger
        OBVIOUS
    <2>0. PosWrite /\ DOMAIN call = Clients
        BY PosActions DEF Types, CallTypes
    <2>1. CASE Delete
        BY <2>1 DEF Delete
    <2>2. ASSUME NEW c \in Clients, CommitMarket(c) \/ CommitStops(c)
          PROVE  tick' = tick /\ \A d \in Clients : call[d].op = "close" => call'[d] = call[d]
        BY <2>0, <2>2 DEF CommitMarket, CommitStops, Ends
    <2>3. ASSUME NEW c \in Clients, CommitClose(c)
          PROVE  /\ tick' = tick
                 /\ call[c].op = "close" /\ call[c].id = pos[i].id
                 /\ Abs(pos'[i].quantity) < Abs(pos[i].quantity)
                 /\ ~SameDirection(pos'[i].quantity, -pos[i].quantity)
        <3>1. /\ Reduces(call[c].inst) /\ pos[call[c].inst].id = call[c].id /\ call[c].op = "close"
            BY <2>3, CloseReduces
        <3>2. i = call[c].inst
            BY <3>1 DEF Reduces
        <3>3. tick' = tick
            BY <2>3 DEF CommitClose, Ends
        <3> QED BY <3>1, <3>2, <3>3 DEF Reduces
    <2>4. ASSUME NEW o \in tick.orders, FillOpenOrder(o)
          PROVE  call' = call /\ tick.pc = "orders" /\ ~Stopping
        BY <2>4 DEF FillOpenOrder, Fillable, NextOrder, Elsewhere, Stopping
    <2>5. ASSUME NEW e \in tick.list, Liquidate(e)
          PROVE  call' = call /\ ~Stopping /\ stopped /\ e.id = pos[i].id
        <3>1. Reduces(e.inst) /\ pos[e.inst].id = e.id /\ stopped
            BY <2>5, LiquidateReduces
        <3>2. i = e.inst
            BY <3>1 DEF Reduces
        <3> QED BY <2>5, <3>1, <3>2 DEF Liquidate, Elsewhere, Stopping
    <2>6. ASSUME NEW s \in tick.stops, CloseStop(s)
          PROVE  /\ call' = call /\ tick.pc = "orders" /\ s.id = pos[i].id
                 /\ StopTriggered(pos[i], tick.marks[i]) = s.trigger
        <3>1. /\ Reduces(s.inst) /\ pos[s.inst].id = s.id
              /\ StopTriggered(pos[s.inst], tick.marks[s.inst]) = s.trigger
            BY <2>6, StopReduces
        <3>2. i = s.inst
            BY <3>1 DEF Reduces
        <3> QED BY <2>6, <3>1, <3>2 DEF CloseStop, Elsewhere, Stopping
    <2> QED BY <2>0, <2>1, <2>2, <2>3, <2>4, <2>5, <2>6 DEF PosWrite
<1>2. Spec => [][Aimed]_vars
    BY <1>1, TypesHold, PTL DEF Spec
<1> QED BY <1>2 DEF ClosesAreAimed
=============================================================================
