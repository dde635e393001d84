---------------------------- MODULE LadderStrategy ----------------------------
(***************************************************************************)
(* ladder_strategy (fxquant/strategies/ladder/ladder_strategy.cpp): at the *)
(* levels of a price ladder it buys and sells, and it closes by stop loss, *)
(* take profit, soft take profit and by the profit of the whole cycle.     *)
(*                                                                         *)
(* One tick is one step.  compute_ is filled once, before anything is      *)
(* opened or closed, and every limit is judged by it for the whole tick.   *)
(* Prices are points; every order has the same volume, the unit of lots.   *)
(* Two casts cut a double that may lie just under the integer it stands    *)
(* for: mid / point_ (set_nearest_level) and level * 10000 (on_level).     *)
(* Which prices do is a matter of their binary fractions: constants.       *)
(***************************************************************************)
EXTENDS Orders, Lists, Functions, FiniteSets

CONSTANTS
  Mids,           \* middle prices of the ticks
  HalfSpread,     \* (ask - bid) / 2
  Step, Tolerance, TradesPerLevel, StopLoss, TakeProfit, SoftTP,
  CloseOnProfit, Sections, SectionsOffset, MaxLots,  \* the params
  ShortMids,      \* mids whose mid / point_ is cut to one point less
  ShortLevels,    \* mids whose level * 10000 is cut to one bucket less
  MaxTicks        \* bound: ticks handled

\* check_params, and Sections > 0: the code divides by it; a bid is a price
ASSUME ParamsAssumption ==
  /\ Mids \subseteq Nat /\ HalfSpread \in Nat /\ \A mid \in Mids : mid > HalfSpread
  /\ {Step, TradesPerLevel, Sections, Tolerance, StopLoss, TakeProfit} \subseteq Nat \ {0}
  /\ {SoftTP, CloseOnProfit, MaxLots} \subseteq Nat
  /\ SectionsOffset \in Int /\ MaxTicks \in Nat

VARIABLES
  opened_orders_,  \* positions, oldest first
  closed_orders_,
  cycle_profit_,
  auto_order_id_,  \* the id of the order constructed last
  order_events,    \* what was pushed to order_events_: <<action, id>>
  latest_tick_,
  ticks,           \* ticks handled so far
  banked           \* history: closed orders when the last cycle was closed

vars == <<opened_orders_, closed_orders_, cycle_profit_, auto_order_id_, order_events,
          latest_tick_, ticks, banked>>

Init ==
  /\ opened_orders_ = <<>> /\ closed_orders_ = <<>>
  /\ cycle_profit_ = 0 /\ auto_order_id_ = 0
  /\ order_events = <<>>
  /\ latest_tick_ = Tick(0, 0)
  /\ ticks = 0
  /\ banked = 0

Abs(n) == IF n < 0 THEN -n ELSE n

IsBuy(p)  == p.order.side = "buy"
IsSell(p) == p.order.side = "sell"

\* lots_exposure_ of a list of positions
Exposure(list) == Total([i \in DOMAIN list |-> IF IsBuy(list[i]) THEN 1 ELSE -1])

\* strategy::get_equity
Equity(list, t) == Total([i \in DOMAIN list |-> ProfitAt(list[i].order, t)])

------------------------------------------------------------------------------
(* ladder_strategy_compute::initialize                                     *)

Mid(t) == t.bid + HalfSpread

OpenPrices(list) == {list[i].order.open_price : i \in DOMAIN list}

RangeMin(list, t) == CHOOSE x \in OpenPrices(list) \cup {t.bid} :
                       \A y \in OpenPrices(list) \cup {t.bid} : x <= y
RangeMax(list, t) == CHOOSE x \in OpenPrices(list) \cup {t.bid} :
                       \A y \in OpenPrices(list) \cup {t.bid} : y <= x

PriceRange(list, t) == IF list = <<>> THEN 1 ELSE RangeMax(list, t) - RangeMin(list, t)

TopHalf(list, t) == RangeMax(list, t) - Mid(t) < Mid(t) - RangeMin(list, t)

\* distance to the nearer end of the range
EdgeDistance(list, t) ==
  IF RangeMax(list, t) - Mid(t) > Mid(t) - RangeMin(list, t)
    THEN Mid(t) - RangeMin(list, t) ELSE RangeMax(list, t) - Mid(t)

Huge == 1000000

\* set_section_i_am_in; a zero range makes the cast to int undefined: it gives
\* the least int, and adding a negative offset to that wraps around
Section(list, t) ==
  IF PriceRange(list, t) # 0
    THEN (EdgeDistance(list, t) * Sections * 2) \div PriceRange(list, t) + SectionsOffset
    ELSE IF SectionsOffset < 0 THEN Huge ELSE -Huge

\* set_nearest_level
NearestLevel(mid) ==
  LET points == IF mid \in ShortMids THEN mid - 1 ELSE mid
  IN mid - (points % Step)

\* what on_level compares: the level in units of 10 points
Bucket(mid) == NearestLevel(mid) \div 10 - (IF mid \in ShortLevels THEN 1 ELSE 0)

Compute(list, t) == [exposure |-> Exposure(list), section |-> Section(list, t),
                     top_half |-> TopHalf(list, t)]

\* is_change_lots_allowed
IsChangeLotsAllowed(c, change) ==
  LET new == c.exposure + change
  IN \/ MaxLots <= 0
     \/ IF c.section >= 0 THEN Abs(new) <= MaxLots \/ Abs(new) < Abs(c.exposure)
        ELSE IF c.top_half THEN new <= MaxLots \/ new > c.exposure
        ELSE new <= -MaxLots \/ new < c.exposure

\* |dynamic_section_risk_|, times Sections to keep it whole
Risk(c) == Abs(MaxLots * c.section)

\* is_dynamic_change_allowed
IsDynamicChangeAllowed(c, change) ==
  LET new == c.exposure + change
  IN \/ MaxLots <= 0
     \/ IF c.section > 0 THEN Abs(new) * Sections <= Risk(c) \/ Abs(new) < Abs(c.exposure)
        ELSE IF c.top_half THEN new * Sections >= Risk(c) \/ new >= c.exposure
        ELSE new * Sections <= -Risk(c) \/ new <= c.exposure

------------------------------------------------------------------------------
(* The tick handler works on a book.                                       *)

Book == [opened |-> opened_orders_, closed |-> closed_orders_, cycle |-> cycle_profit_,
         last_id |-> auto_order_id_, events |-> order_events, banked |-> banked]

\* order_send; the constructor counts the id, and throws on an invalid order
OrderSend(b, side, t) ==
  LET price == OpenSide([side |-> side], t)
      o == IF side = "buy"
             THEN NewOrder(side, "market", price, price - StopLoss, price + TakeProfit)
             ELSE NewOrder(side, "market", price, price + StopLoss, price - TakeProfit)
      p == [id |-> b.last_id + 1, order |-> Open(o, t),
            level |-> NearestLevel(Mid(t)), bucket |-> Bucket(Mid(t))]
  IN IF ~IsValid(o) THEN [b EXCEPT !.last_id = @ + 1]
     ELSE [b EXCEPT !.last_id = @ + 1, !.opened = Append(@, p),
                    !.events = Append(@, <<"opened", p.id>>)]

\* the mid price is near enough to the level
Touching(t) == Abs(Mid(t) - NearestLevel(Mid(t))) <= Tolerance

OnLevel(b, side, t) ==
  {p \in Range(b.opened) : p.order.side = side /\ p.bucket = Bucket(Mid(t))}

Lots(side) == IF side = "buy" THEN 1 ELSE -1

\* mutant: the limit per level counts buys and sells together
MayOpenAnySide(b, side, t, c) ==
  /\ Cardinality(OnLevel(b, "buy", t)) + Cardinality(OnLevel(b, "sell", t)) < 2 * TradesPerLevel
  /\ IsChangeLotsAllowed(c, Lots(side))

\* mutant: the limit of lots is judged for buys only
MayOpenSells(b, side, t, c) ==
  /\ Cardinality(OnLevel(b, side, t)) < TradesPerLevel
  /\ side = "sell" \/ IsChangeLotsAllowed(c, 1)

MayOpen(b, side, t, c) ==
  /\ Cardinality(OnLevel(b, side, t)) < TradesPerLevel
  /\ IsChangeLotsAllowed(c, Lots(side))

\* try_opening_orders; max_spread is compared with a price difference, which is
\* always below it
TryOpening(b, t, c) ==
  LET buy == IF MayOpen(b, "buy", t, c) THEN OrderSend(b, "buy", t) ELSE b
  IN IF ~Touching(t) THEN b
     ELSE IF MayOpen(b, "sell", t, c) THEN OrderSend(buy, "sell", t) ELSE buy

\* an order that closes joins the closed list and is announced
CloseInto(b, p, t) ==
  [b EXCEPT !.closed = Append(@, [p EXCEPT !.order = Close(@, t)]),
            !.events = Append(@, <<"closed", p.id>>)]

\* what was gained by closing: the code adds it to cycle_profit_
CountProfit(b) == [b EXCEPT !.cycle = @ + Profit(b.closed[Len(b.closed)].order)]

\* the open orders that hit their stop loss or take profit
DueToClose(b, t) == {p \in Range(b.opened) : CheckClose(p.order, t)}

\* mutant: only the first order that hits is taken out of the open list
CheckClosingFirst(b, t) ==
  LET out == Filter(b.opened, DueToClose(b, t))
  IN IF out = <<>> THEN b
     ELSE CountProfit(CloseInto(
            [b EXCEPT !.opened = Filter(@, Range(@) \ {out[1]})], out[1], t))

\* check_orders_closing: all orders that hit are taken out of the open list, and
\* the loop over them returns after the first one it closes
CheckOrdersClosing(b, t) ==
  LET out == Filter(b.opened, DueToClose(b, t))
  IN IF out = <<>> THEN b
     ELSE CountProfit(CloseInto(
            [b EXCEPT !.opened = Filter(@, Range(@) \ DueToClose(b, t))], out[1], t))

\* strategy::close_all_trades
CloseAll(b, t) ==
  [b EXCEPT !.opened = <<>>,
            !.closed = @ \o [i \in DOMAIN b.opened |-> [b.opened[i] EXCEPT !.order = Close(@, t)]],
            !.events = @ \o [i \in DOMAIN b.opened |-> <<"closed", b.opened[i].id>>]]

\* mutant: the equity at the start of the tick decides
IsCloseOnOldProfit(b, t) ==
  CloseOnProfit > 0 /\ b.cycle + Equity(opened_orders_, t) >= CloseOnProfit

IsCloseOnProfit(b, t) ==
  CloseOnProfit > 0 /\ b.cycle + Equity(b.opened, t) >= CloseOnProfit

\* mutant: forgets to reset the profit of the cycle
CloseCycleWithoutReset(b, t) ==
  LET done == CloseAll(b, t)
  IN IF IsCloseOnProfit(b, t) THEN [done EXCEPT !.banked = Len(done.closed)] ELSE b

CloseCycle(b, t) ==
  LET done == CloseAll(b, t)
  IN IF IsCloseOnProfit(b, t)
       THEN [done EXCEPT !.cycle = 0, !.banked = Len(done.closed)] ELSE b

\* find_profitable_buy, find_profitable_sell: the first of those that gain most
Profitable(b, side, t) ==
  LET gains == {p \in Range(b.opened) : p.order.side = side /\ ProfitAt(p.order, t) >= SoftTP}
  IN Filter(b.opened, {p \in gains : \A q \in gains :
                                       ProfitAt(q.order, t) <= ProfitAt(p.order, t)})

\* mutant: close_trade leaves the order in the open list
SoftCloseWithoutErase(b, side, t, c) ==
  LET best == Profitable(b, side, t)
  IN IF best # <<>> /\ IsDynamicChangeAllowed(c, -Lots(side))
       THEN CountProfit(CloseInto(b, best[1], t)) ELSE b

\* one half of is_soft_tp_closed, with strategy::close_trade
SoftClose(b, side, t, c) ==
  LET best == Profitable(b, side, t)
  IN IF best # <<>> /\ IsDynamicChangeAllowed(c, -Lots(side))
       THEN CountProfit(CloseInto([b EXCEPT !.opened = Filter(@, Range(@) \ {best[1]})],
                                  best[1], t))
       ELSE b

\* is_soft_tp_closed
SoftTakeProfit(b, t, c) ==
  IF SoftTP <= 0 THEN b ELSE SoftClose(SoftClose(b, "buy", t, c), "sell", t, c)

\* ladder_strategy::on_tick
on_tick(t) ==
  /\ ticks < MaxTicks
  /\ ticks' = ticks + 1
  /\ latest_tick_' = t
  /\ LET c == Compute(opened_orders_, t)
         b == SoftTakeProfit(CloseCycle(CheckOrdersClosing(TryOpening(Book, t, c), t), t), t, c)
     IN /\ opened_orders_' = b.opened
        /\ closed_orders_' = b.closed
        /\ cycle_profit_' = b.cycle
        /\ auto_order_id_' = b.last_id
        /\ order_events' = b.events
        /\ banked' = b.banked

Next == \E mid \in Mids : on_tick(Tick(mid - HalfSpread, mid + HalfSpread))

Spec == Init /\ [][Next]_vars

------------------------------------------------------------------------------
(* Properties                                                              *)

\* what the closed orders from number m to number n have gained
Gained(list, m, n) == Total([i \in 1..(n - m + 1) |-> Profit(list[m + i - 1].order)])

\* Every order is where its fields say: the open list holds orders that are open
\* and not closed, the closed list orders that are closed, and no order is in
\* both or in one of them twice, whichever of the four ways it was closed.
TypeOK ==
  /\ cycle_profit_ \in Int /\ ticks \in 0..MaxTicks /\ banked \in 0..Len(closed_orders_)
  /\ \A i \in DOMAIN opened_orders_ : CanClose(opened_orders_[i].order)
  /\ \A i \in DOMAIN closed_orders_ : IsClosed(closed_orders_[i].order)
  /\ \A i, j \in DOMAIN (opened_orders_ \o closed_orders_) :
       i # j => (opened_orders_ \o closed_orders_)[i].id # (opened_orders_ \o closed_orders_)[j].id

\* trades_per_lvl holds for every rung of the ladder and each side, however the
\* price comes back to the rung.
LevelLimit ==
  \A p \in Range(opened_orders_) :
    Cardinality({q \in Range(opened_orders_) :
                   /\ q.order.side = p.order.side
                   /\ q.level \div Step = p.level \div Step}) <= TradesPerLevel

\* cycle_profit_ is what the orders closed since the last cycle closing gained,
\* whichever way they were closed.
CycleAccounts ==
  cycle_profit_ = Gained(closed_orders_, banked + 1, Len(closed_orders_))

\* After a tick no open order is past its stop loss or take profit, those that
\* this tick opened included.
NothingOverdue ==
  \A p \in Range(opened_orders_) : ~CheckClose(p.order, latest_tick_)

\* A cycle is closed only when it really gained close_cycle_on_profit: the profit
\* of all orders closed from its first to its last reaches the target.
CycleTarget ==
  [][banked' # banked => Gained(closed_orders_', banked + 1, banked') >= CloseOnProfit]_vars

\* the orders a step has opened
Sent == {p \in Range(opened_orders_') \cup Range(closed_orders_') : p.id > auto_order_id_}

\* Inside the range (section >= 0) opening never drives the exposure beyond
\* max_lots_allowed, nor further when it is beyond already, although both orders
\* of a tick are judged by the exposure before the tick.
ExposureCapped ==
  [][LET before == Exposure(opened_orders_)
         after  == before + Cardinality({p \in Sent : IsBuy(p)})
                          - Cardinality({p \in Sent : IsSell(p)})
         most   == IF Abs(before) > MaxLots THEN Abs(before) ELSE MaxLots
     IN MaxLots > 0 /\ Section(opened_orders_, latest_tick_') >= 0 => Abs(after) <= most]_vars

\* "check sl & tp closing for all open orders" (ladder_strategy.cpp): an order
\* that was opened is in the open list or was closed.
OrdersConserved ==
  \A i \in DOMAIN order_events :
    \E p \in Range(opened_orders_) \cup Range(closed_orders_) : p.id = order_events[i][2]
==============================================================================
