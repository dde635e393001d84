---------------------------- MODULE FirstStrategy ----------------------------
(***************************************************************************)
(* first_strategy (strategies/first_strategy.cpp, .h) on the ticks and the *)
(* one-minute bars its engine hands it: two lines around the open price of *)
(* a candle, an order when the price leaves them, one at a time and so     *)
(* many per candle.  It opens and closes orders itself, in the lists of    *)
(* the engine.  Prices are points (symbol_pip); the lines, which are half  *)
(* a distance away, are counted in half points.                            *)
(***************************************************************************)
EXTENDS Statistics, Lists

CONSTANTS Bids, Spread,
          LinesDist, MinCandle, MaxTrades,  \* lines_dist, min_candle, max_trades_per_candle
          MaxTicks                          \* bound: ticks handled

ASSUME ParamsAssumption ==
  /\ Bids \subseteq Nat \ {0} /\ Spread \in Nat \ {0}
  /\ {LinesDist, MinCandle, MaxTrades} \subseteq Nat \ {0} /\ MaxTicks \in Nat

VARIABLES
  buy_line_, sell_line_,           \* 0: no lines
  trade_opens_in_current_bar_,
  opened_orders_, closed_orders_,  \* records [id, minute, order]
  order_events,                    \* ids pushed as closed to order_events_
  latest_tick_,
  bars,                            \* one-minute bars of the collector, the last two
  candle,                          \* the candle under construction in the feeder
  minute, ticks                    \* candles begun and ticks handled so far

strategyvars == <<buy_line_, sell_line_, trade_opens_in_current_bar_>>
vars == <<strategyvars, opened_orders_, closed_orders_, order_events, latest_tick_,
          bars, candle, minute, ticks>>

NoBar == <<>>

Init ==
  /\ buy_line_ = 0 /\ sell_line_ = 0 /\ trade_opens_in_current_bar_ = 0
  /\ opened_orders_ = <<>> /\ closed_orders_ = <<>> /\ order_events = <<>>
  /\ latest_tick_ = Tick(0, 0)
  /\ bars = <<>> /\ candle = NoBar /\ minute = 0 /\ ticks = 0

------------------------------------------------------------------------------
(* on_bar: the feeder delivers a candle with the first tick after it       *)

\* is_bar_legal, which is true of a candle that is too large
IsBarLegal(bar) == bar.h - bar.l > MinCandle

on_bar ==
  /\ candle # NoBar
  /\ LET last == Append(bars, candle)
         two  == IF Len(last) > 2 THEN Tail(last) ELSE last
     IN /\ bars' = two
        /\ IF Len(two) < 2 THEN UNCHANGED strategyvars
           ELSE IF IsBarLegal(two[2])
             THEN /\ buy_line_' = 0 /\ sell_line_' = 0
                  /\ UNCHANGED trade_opens_in_current_bar_
             ELSE /\ buy_line_' = 2 * two[1].o + LinesDist
                  /\ sell_line_' = 2 * two[1].o - LinesDist
                  /\ trade_opens_in_current_bar_' = 0
  /\ candle' = NoBar
  /\ UNCHANGED <<opened_orders_, closed_orders_, order_events, latest_tick_, minute, ticks>>

------------------------------------------------------------------------------
(* on_tick                                                                 *)

\* candle_factory::put_tick within a minute
PutTick(t) ==
  IF candle = NoBar THEN [o |-> t.bid, h |-> t.bid, l |-> t.bid]
  ELSE [candle EXCEPT !.h = IF t.bid > @ THEN t.bid ELSE @,
                      !.l = IF t.bid < @ THEN t.bid ELSE @]

\* lines_dist / 2 as an int, for the stop loss and the take profit
StopDistance == LinesDist \div 2

\* the order the lines ask for; none within them
Wanted(t) ==
  IF 2 * t.bid >= buy_line_
    THEN <<NewOrder("buy", "market", t.ask, t.ask - StopDistance, t.ask + StopDistance)>>
  ELSE IF 2 * t.bid <= sell_line_
    THEN <<NewOrder("sell", "market", t.bid, t.bid + StopDistance, t.bid - StopDistance)>>
  ELSE <<>>

NextId == Len(opened_orders_) + Len(closed_orders_) + 1

\* order_send; the constructor throws when the order is not valid
OrderSend(t) ==
  /\ IF \E i \in DOMAIN Wanted(t) : IsValid(Wanted(t)[i])
       THEN /\ opened_orders_' = Append(opened_orders_,
                 [id |-> NextId, minute |-> minute', order |-> Open(Wanted(t)[1], t)])
            /\ trade_opens_in_current_bar_' = trade_opens_in_current_bar_ + 1
       ELSE UNCHANGED <<opened_orders_, trade_opens_in_current_bar_>>
  /\ UNCHANGED <<closed_orders_, order_events>>

\* the open orders that check_close is true of
DueToClose(t) == {p \in Range(opened_orders_) : CheckClose(p.order, t)}

\* mutant: the order is taken out of the open list and forgotten
CheckOrdersClosingForgets(t) ==
  /\ opened_orders_' = Filter(opened_orders_, Range(opened_orders_) \ DueToClose(t))
  /\ UNCHANGED <<closed_orders_, order_events, trade_opens_in_current_bar_>>

\* check_orders_closing, which returns after the first order it closes
CheckOrdersClosing(t) ==
  LET closing == Filter(opened_orders_, DueToClose(t))
      p == closing[1]
  IN /\ opened_orders_' = Filter(opened_orders_, Range(opened_orders_) \ DueToClose(t))
     /\ IF closing # <<>>
          THEN /\ closed_orders_' = Append(closed_orders_, [p EXCEPT !.order = Close(@, t)])
               /\ order_events' = Append(order_events, p.id)
          ELSE UNCHANGED <<closed_orders_, order_events>>
     /\ UNCHANGED trade_opens_in_current_bar_

Idle == UNCHANGED <<opened_orders_, closed_orders_, order_events,
                    trade_opens_in_current_bar_>>

\* mutant: the limit is asked before the open order is looked at
HandleTickLimitFirst(t) ==
  IF buy_line_ <= 0 \/ sell_line_ <= 0 THEN Idle
  ELSE IF trade_opens_in_current_bar_ >= MaxTrades THEN Idle
  ELSE IF opened_orders_ # <<>> THEN CheckOrdersClosing(t)
  ELSE OrderSend(t)

\* mutant: one order too many
HandleTickOneMore(t) ==
  IF buy_line_ <= 0 \/ sell_line_ <= 0 THEN Idle
  ELSE IF opened_orders_ # <<>> THEN CheckOrdersClosing(t)
  ELSE IF trade_opens_in_current_bar_ > MaxTrades THEN Idle
  ELSE OrderSend(t)

\* the body of on_tick; without lines the open order is not looked at
HandleTick(t) ==
  IF buy_line_ <= 0 \/ sell_line_ <= 0 THEN Idle
  ELSE IF opened_orders_ # <<>> THEN CheckOrdersClosing(t)
  ELSE IF trade_opens_in_current_bar_ >= MaxTrades THEN Idle
  ELSE OrderSend(t)

on_tick(t) ==
  /\ ticks < MaxTicks
  /\ ticks' = ticks + 1
  /\ minute' = minute + IF candle = NoBar THEN 1 ELSE 0
  /\ latest_tick_' = t
  /\ candle' = PutTick(t)
  /\ HandleTick(t)
  /\ UNCHANGED <<buy_line_, sell_line_, bars>>

Next == on_bar \/ \E bid \in Bids : on_tick(Tick(bid, bid + Spread))

Spec == Init /\ [][Next]_vars

------------------------------------------------------------------------------
(* Properties                                                              *)

Held == Range(opened_orders_)
Done == Range(closed_orders_)
DealOf(id) == Deal((CHOOSE p \in Held \cup Done : p.id = id).order)

\* at most one order is sent per tick
Ids == 1..MaxTicks

Account == INSTANCE OrderBook WITH
  Order <- Ids, Quote <- {Tick(b, b + Spread) : b \in Bids}, None <- Undefined,
  quote <- latest_tick_, held <- {p.id : p \in Held}, done <- {p.id : p \in Done},
  deal <- [id \in Ids |-> IF \E p \in Held \cup Done : p.id = id
                            THEN DealOf(id) ELSE NotDealt]

\* The strategy moves orders between the lists itself, and closes only the first
\* of those that are due: still none is lost, none changes after it is dealt,
\* and each is opened and closed at the tick that did it.
ImplementsBook == Account!Spec

\* max_trades_per_candle, though the counter is reset by some bars only and an
\* order outlives its candle.
TradesPerCandle ==
  \A m \in 0..minute : Cardinality({p \in Held \cup Done : p.minute = m}) <= MaxTrades

\* While there are lines, a tick leaves no order open past its stop loss or take
\* profit, whatever the limit of the candle says.  (Without lines on_tick returns
\* before it looks.)
StopsWatched ==
  [][ticks' # ticks /\ buy_line_ > 0 /\ sell_line_ > 0 =>
       \A p \in Range(opened_orders_') : ~CheckClose(p.order, latest_tick_')]_vars

\* The one pass of calc_closed_trades_stats over the closed orders finds the
\* number of wins and losses, the longest rows of each, and the last balance and
\* its extremes, as they are defined.
StatsExact ==
  LET closed == [i \in DOMAIN closed_orders_ |-> closed_orders_[i].order]
  IN Exact(ClosedStats(closed), closed)
==============================================================================
