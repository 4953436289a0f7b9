----------------------------- MODULE MCTrading -----------------------------
(* An instance of Trading for TLC. *)
EXTENDS Trading

CONSTANTS btc, eth, c1

Order(inst, delta, leverage, stopLoss, takeProfit, at) ==
    [inst |-> inst, delta |-> delta, leverage |-> leverage,
     stopLoss |-> stopLoss, takeProfit |-> takeProfit, at |-> at]

Change(inst, stopLoss, takeProfit) ==
    [inst |-> inst, stopLoss |-> stopLoss, takeProfit |-> takeProfit]

\* Futures bought at the market and sold at a limit with a take profit, so that a
\* position is opened on either side, reduced and reversed; and a spot purchase.
AllOrders == {Order(btc, 1, 2, 0, 0, NoPrice), Order(btc, -2, 2, 0, 24, 32),
              Order(eth, 1, 1, 0, 0, 16)}
SomeStops == {Change(btc, 24, Keep)}
=============================================================================
