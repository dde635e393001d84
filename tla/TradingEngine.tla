---------------------------- MODULE TradingEngine ----------------------------
(***************************************************************************)
(* The order lists of fx::fx_engine (fxquant/fx_engine.cpp) and            *)
(* default_strategy::on_tick, which moves orders through them.             *)
(*                                                                         *)
(* submit_order may be called by any thread, also while a tick is handled; *)
(* it touches only new_orders_, under lock_, and the tick handler looks at *)
(* new_orders_ once, in add_new_orders, under lock_.  The ticks are        *)
(* handled one at a time by the worker of data_events_ (EventQueue).  One  *)
(* tick is therefore one step, and a submission falls between two of them. *)
(* Lists hold shared_ptrs: an order is its id, its fields are in orders.   *)
(***************************************************************************)
EXTENDS Orders, Lists, SequencesExt

CONSTANTS OrderId,  \* the clones submit_order makes
          Prices,   \* prices of ticks and orders
          Spread,   \* ask - bid
          MaxTicks  \* bound: ticks handled

ASSUME PricesAssumption == Prices \subseteq Nat \ {0} /\ Spread \in Nat /\ MaxTicks \in Nat

VARIABLES
  orders,          \* orders[id]: the fields of the submitted orders
  new_orders_, pending_orders_, opened_orders_, closed_orders_,
  latest_tick_,    \* the last tick; tick_data() before the first
  order_events,    \* what was pushed to order_events_: <<action, id>>
  ticks            \* ticks handled so far

vars == <<orders, new_orders_, pending_orders_, opened_orders_, closed_orders_,
          latest_tick_, order_events, ticks>>

Submitted == DOMAIN orders

TypeOK ==
  /\ Submitted \subseteq OrderId
  /\ \A id \in Submitted : IsValid(orders[id])
  /\ {new_orders_, pending_orders_, opened_orders_, closed_orders_}
       \subseteq Seq(Submitted)
  /\ \A i \in DOMAIN order_events :
       order_events[i] \in {"submitted", "opened", "closed"} \X Submitted
  /\ IsInjective(opened_orders_ \o closed_orders_)
  /\ ticks \in 0..MaxTicks

Init ==
  /\ orders = <<>>
  /\ new_orders_ = <<>> /\ pending_orders_ = <<>>
  /\ opened_orders_ = <<>> /\ closed_orders_ = <<>>
  /\ latest_tick_ = Tick(0, 0)
  /\ order_events = <<>>
  /\ ticks = 0

\* the events add_new_orders or a closing loop pushes for the orders of a list
Events(action, ids) == [i \in DOMAIN ids |-> <<action, ids[i]>>]

\* mutant: the constructor does not check the order
submit_unchecked_order(id, o) ==
  /\ id \notin Submitted
  /\ orders' = [i \in Submitted \cup {id} |-> IF i = id THEN o ELSE orders[i]]
  /\ new_orders_' = Append(new_orders_, id)
  /\ UNCHANGED <<pending_orders_, opened_orders_, closed_orders_, latest_tick_,
                 order_events, ticks>>

\* submit_order: a copy of the caller's order joins new_orders_
submit_order(id, o) ==
  /\ id \notin Submitted
  /\ IsValid(o)
  /\ orders' = [i \in Submitted \cup {id} |-> IF i = id THEN o ELSE orders[i]]
  /\ new_orders_' = Append(new_orders_, id)
  /\ UNCHANGED <<pending_orders_, opened_orders_, closed_orders_, latest_tick_,
                 order_events, ticks>>

------------------------------------------------------------------------------
(* The tick handler works on a book: the lists, the orders and the events. *)

Book == [orders |-> orders, pending |-> pending_orders_, opened |-> opened_orders_,
         closed |-> closed_orders_, events |-> order_events]

\* add_new_orders; new_orders_ itself is not cleared
AddNewOrders(b) ==
  [b EXCEPT !.pending = @ \o new_orders_,
            !.events  = @ \o Events("submitted", new_orders_)]

\* the orders check_open and check_close are true of
DueToOpen(b, t)  == {id \in DOMAIN b.orders : CheckOpen(b.orders[id], t)}
DueToClose(b, t) == {id \in DOMAIN b.orders : CheckClose(b.orders[id], t)}

\* one turn of the opening loop; an order whose open() fails is dropped
OpenOne(b, id, t) ==
  IF CheckOpen(b.orders[id], t)
    THEN [b EXCEPT !.orders[id] = Open(@, t),
                   !.opened = Append(@, id),
                   !.events = Append(@, <<"opened", id>>)]
    ELSE b

\* stable_partition of the pending orders, then the loop over those extracted
OpenOrders(b, t) ==
  LET due == DueToOpen(b, t)
      ids == Filter(b.pending, due)
      book[n \in 0..Len(ids)] ==
        IF n = 0 THEN [b EXCEPT !.pending = Filter(@, DOMAIN b.orders \ due)]
                 ELSE OpenOne(book[n - 1], ids[n], t)
  IN book[Len(ids)]

CloseOne(b, id, t) ==
  IF CanClose(b.orders[id])
    THEN [b EXCEPT !.orders[id] = Close(@, t),
                   !.closed = Append(@, id),
                   !.events = Append(@, <<"closed", id>>)]
    ELSE b

CloseOrders(b, t) ==
  LET due == DueToClose(b, t)
      ids == Filter(b.opened, due)
      book[n \in 0..Len(ids)] ==
        IF n = 0 THEN [b EXCEPT !.opened = Filter(@, DOMAIN b.orders \ due)]
                 ELSE CloseOne(book[n - 1], ids[n], t)
  IN book[Len(ids)]

\* mutant: closing is looked at before opening
HandleTickCloseFirst(b, t) == OpenOrders(CloseOrders(AddNewOrders(b), t), t)

\* mutant: an order is announced as submitted only from its second tick on
HandleTickLateAnnouncement(b, t) ==
  LET c == CloseOrders(OpenOrders([b EXCEPT !.pending = @ \o new_orders_], t), t)
  IN [c EXCEPT !.events = @ \o Events("submitted", new_orders_)]

\* data_event_callback::on_tick and default_strategy::on_tick
HandleTick(b, t) == CloseOrders(OpenOrders(AddNewOrders(b), t), t)

on_tick(t) ==
  /\ ticks < MaxTicks
  /\ ticks' = ticks + 1
  /\ latest_tick_' = t
  /\ LET b == HandleTick(Book, t)
     IN /\ orders' = b.orders
        /\ pending_orders_' = b.pending
        /\ opened_orders_' = b.opened
        /\ closed_orders_' = b.closed
        /\ order_events' = b.events
  /\ UNCHANGED new_orders_

\* the orders callers construct
Requests ==
  {NewOrder(s, k, p, sl, tp) : s \in Sides, k \in Kinds, p \in Prices,
                               sl, tp \in Prices \cup {Undefined}}

Next ==
  \/ \E id \in OrderId, o \in Requests : submit_order(id, o)
  \/ \E bid \in Prices : on_tick(Tick(bid, bid + Spread))

Spec == Init /\ [][Next]_vars

------------------------------------------------------------------------------
(* Properties                                                              *)

Count(x, s) == Cardinality({i \in DOMAIN s : s[i] = x})

\* After a tick nothing is overdue: no open order is past its stop loss or take
\* profit (orders opened by this very tick included), and no pending order that
\* the tick triggers is still unopened.
NothingOverdue ==
  ticks > 0 =>
    /\ \A i \in DOMAIN opened_orders_ :
         ~CheckClose(orders[opened_orders_[i]], latest_tick_)
    /\ \A i \in DOMAIN pending_orders_ :
         ~CheckOpen(orders[pending_orders_[i]], latest_tick_)

\* The order callbacks and the gui clients learn of every order's life in
\* order: submitted first, opened once when it is opened, then closed once when
\* it is closed.
AnnouncedInOrder ==
  \A id \in Submitted :
    LET At(action) == {i \in DOMAIN order_events : order_events[i] = <<action, id>>}
    IN /\ At("opened") # {} <=> IsOpened(orders[id])
       /\ At("closed") # {} <=> IsClosed(orders[id])
       /\ \A i \in At("opened") : /\ \E j \in At("submitted") : j < i
                                 /\ \A j \in At("opened") : i = j
       /\ \A i \in At("closed") : /\ \E j \in At("opened") : j < i
                                 /\ \A j \in At("closed") : i = j

\* the open and the closed list as the account they keep
Account == INSTANCE OrderBook WITH
  Order <- OrderId, Quote <- {Tick(b, b + Spread) : b \in Prices}, None <- Undefined,
  quote <- latest_tick_, held <- Range(opened_orders_), done <- Range(closed_orders_),
  deal <- [id \in OrderId |-> IF id \in Submitted /\ IsOpened(orders[id])
                                THEN Deal(orders[id]) ELSE NotDealt]

\* The lists keep the account: however often add_new_orders puts an order into the
\* pending list again, it is opened once and closed once, at the prices the tick of
\* that moment has for its side, and is in the open or in the closed list from then
\* on.
ImplementsBook == Account!Spec

\* "order callback functions are called ... when order status is changed"
\* (order_callback.h): an order becomes submitted once.
SubmittedOnce == \A id \in Submitted : Count(<<"submitted", id>>, order_events) <= 1
==============================================================================
