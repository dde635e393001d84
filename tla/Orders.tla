-------------------------------- MODULE Orders --------------------------------
(***************************************************************************)
(* The life of one order (common/order.h, common/order.cpp): when it may   *)
(* be opened and closed, at which price, and what it earned.  Prices are   *)
(* positive integers in points; undefined_value<double>() is Undefined.    *)
(* An order is a record; what the six classes buy_order ... sell_stop_order*)
(* override is selected by its side and kind.                              *)
(***************************************************************************)
EXTENDS Integers

Undefined == -1

Sides == {"buy", "sell"}
Kinds == {"market", "limit", "stop"}

\* a tick as the orders see it
Tick(b, a) == [bid |-> b, ask |-> a]

HasStopLoss(o)   == o.stop_loss # Undefined
HasTakeProfit(o) == o.take_profit # Undefined

\* is_valid: the constructors throw when it is false
IsValid(o) ==
  /\ o.order_price > 0
  /\ LET below == IF o.side = "buy" THEN o.stop_loss ELSE o.take_profit
         above == IF o.side = "buy" THEN o.take_profit ELSE o.stop_loss
     IN /\ below # Undefined => below < o.order_price
        /\ above # Undefined => above > o.order_price

NewOrder(s, k, price, sl, tp) ==
  [side |-> s, kind |-> k, order_price |-> price, stop_loss |-> sl,
   take_profit |-> tp, open_price |-> Undefined, close_price |-> Undefined]

IsOpened(o) == o.open_price # Undefined
IsClosed(o) == o.close_price # Undefined

\* the price an order is opened at, and the price it is closed at
OpenSide(o, t)  == IF o.side = "buy" THEN t.ask ELSE t.bid
CloseSide(o, t) == IF o.side = "buy" THEN t.bid ELSE t.ask

\* the market has reached the order's price
Triggered(o, t) ==
  \/ o.kind = "market"
  \/ o.kind = "limit" /\ o.side = "buy"  /\ t.ask <= o.order_price
  \/ o.kind = "stop"  /\ o.side = "buy"  /\ t.ask >= o.order_price
  \/ o.kind = "limit" /\ o.side = "sell" /\ t.bid >= o.order_price
  \/ o.kind = "stop"  /\ o.side = "sell" /\ t.bid <= o.order_price

\* mutant: an order is ready to open again after it was opened
CheckOpenAgain(o, t) == Triggered(o, t)

CheckOpen(o, t) == ~IsOpened(o) /\ Triggered(o, t)

\* the market has reached the stop loss or the take profit
Hit(o, t) ==
  IF o.side = "buy"
    THEN \/ HasStopLoss(o) /\ t.bid <= o.stop_loss
         \/ HasTakeProfit(o) /\ t.bid >= o.take_profit
    ELSE \/ HasStopLoss(o) /\ t.ask >= o.stop_loss
         \/ HasTakeProfit(o) /\ t.ask <= o.take_profit

\* close() succeeds on an order that is open and not closed
CanClose(o) == IsOpened(o) /\ ~IsClosed(o)

CheckClose(o, t) == CanClose(o) /\ Hit(o, t)

\* open() and close() when they succeed
Open(o, t)  == [o EXCEPT !.open_price = OpenSide(o, t)]
Close(o, t) == [o EXCEPT !.close_price = CloseSide(o, t)]

\* get_profit(tick) and, for a closed order, get_profit(); points for one lot
ProfitAt(o, t) == IF o.side = "buy" THEN t.bid - o.open_price ELSE o.open_price - t.ask
Profit(o) == IF ~IsClosed(o) THEN Undefined
             ELSE IF o.side = "buy" THEN o.close_price - o.open_price
                                    ELSE o.open_price - o.close_price

\* an order as OrderBook sees it, and one that was never opened
Deal(o)  == [side |-> o.side, open |-> o.open_price, close |-> o.close_price]
NotDealt == [side |-> "none", open |-> Undefined, close |-> Undefined]
==============================================================================
