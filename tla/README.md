# fxquant in TLA+

fxquant is a C++ back-tester for foreign exchange strategies: recorded ticks are
fed through an engine to a strategy, which opens and closes orders, while gui
clients watch over TCP. The repository has no tests and a README of one
paragraph, so these modules are written from the code. Paths below are relative
to `src/fxquant/`, which holds some ten thousand lines of the project's own;
nearly all the other lines of the repository are headers under `bat-libs/` and
`common/pugixml.cpp`, third-party code that is not modelled.

## 1. The system

| component | code | state | operations |
|---|---|---|---|
| event queue | `fxquant/event_queue.cpp`, `common/event.cpp` | `queue_`, `shutdown_`, `threads_`, `terminated_`, `signaled_` | push, pop, execute, wait, destroy |
| orders | `common/order.h`, `order.cpp` | prices, stops, open and close price | check_open, open, check_close, close, get_profit |
| engine, default strategy | `fxquant/fx_engine.cpp`, `strategies/default_strategy.cpp` | lists of new, pending, open, closed orders | submit_order, on_tick, on_bar, statistics |
| ladder strategy | `strategies/ladder/ladder_strategy.cpp`, `strategy.cpp` | open and closed orders, `cycle_profit_`, `compute_` | on_tick |
| first strategy | `strategies/first_strategy.cpp`, `.h` | two lines, a counter of trades in the candle, the engine's lists | on_tick, on_bar |
| feeders, candles, optimizer | `dummy_feeder.cpp`, `controlled_feeder.cpp`, `data_feeder.cpp`, `candle_factory.cpp`, `optimizer.cpp`, `main.cpp` | cursor, `cache_`, `running_`, `stop_event_`, candles under construction | start, run, wait_for_stop, stop; run of one strategy after the other |
| gui server | `gui_server.cpp`, `gui_context.cpp`, `bar_collector.cpp` | contexts, saved order events and infos, collected bars, data that waits per client | on_order, on_bar, on_tick, on_info, accept, initialize, send, receive, clean up, destroy |
| gui protocol | `gui_context.cpp`, `common/tcp_socket.cpp`, `message.cpp` | the socket's byte streams, `send_lock_`, `aborted_` | send_message, send_bars, receive_message |
| engine registry | `engine_registry.cpp` | map from symbols to shared pointers to engines | add, find, destroy |
| generators, ta | `strategies/`, `ta.cpp` | ranges of parameters | next parameters, indicators |
| messages, sockets, database, FIX, config, logging | `common/` | connections | input and output |

**How they interact.** The feeder thread makes ticks and, by one
`candle_factory` per time frame, bars, and calls the callbacks of `data_feeder`,
which push to the engine's `data_events_`. Its one worker calls
`data_event_callback::on_tick/on_bar`, hence the strategy, which moves orders
through its lists and pushes to `order_events_`; that queue's one worker calls
the order callbacks and `gui_server::on_order`. The gui server passes orders,
bars, ticks and infos, under `list_lock_`, to every connected `gui_context`,
which has a sending and a receiving thread on one socket. A cleanup thread
destroys the contexts whose connection failed; `~gui_server` joins it and
destroys the others. A sending thread owns the engines it initialised its context
from, next to the registry; the registry is destroyed before the gui server, and
whoever drops the last reference to an engine joins its workers. The optimizer (or `main`) makes an engine per strategy,
starts the feeder, waits, stops it, computes statistics and destroys the engine.

**What is hard.** Signals between a look and a wait (queue workers, sending
threads); destructors that join threads in any state; a queue shared by several
workers; snapshots joined with live data (orders, bars, infos); data that
overwrites data still to be sent; two threads writing to one socket; requests
cut out of a byte stream; locks held while joining; the last reference to an
engine in a thread that is itself joined under a lock; members destroyed in the
wrong order while a worker runs; a cache that replays an interrupted run; state
kept between two runs; orders that come back into the pending list at every
tick, and orders two parties move between the same lists; double-to-int casts;
limits judged by state from the start of the tick. `PROJECT.json` lists these
hazards at their lines.

## 2. The modules

| module | models | runs |
|---|---|---|
| `EventFifo` | what a queue promises to those who post to it (abstract) | |
| `EventQueue` | `event_queue` and `event`, step by step | `EventQueueOneWorker`, `EventQueueTwoWorkers` |
| `EventQueueProofs` | proofs about `EventQueue` for all constants | |
| `OrderBook` | what the owner of an account may expect of the order lists (abstract) | |
| `Orders` | one order, as operators | used by the next three |
| `Lists` | `std::stable_partition` and sums over a list, as recursive functions | used by the next three and `Backtest` |
| `TradingEngine` | order lists of the engine, default strategy | `TradingEngine` |
| `TradingEngineProofs` | proofs about `TradingEngine` | |
| `LadderStrategy` | `ladder_strategy::on_tick` | `Ladder`, `LadderConserved` |
| `LadderProofs` | proofs about `LadderStrategy` | |
| `FirstStrategy` | `first_strategy::on_tick` and `on_bar` | `FirstStrategy` |
| `FirstStrategyProofs` | proofs about `FirstStrategy` | |
| `Statistics` | `calc_closed_trades_stats`, and what its numbers mean | in `FirstStrategy` |
| `Backtest` | optimizer, feeders, candles, life of the engine | `Backtest`, `BacktestStats` |
| `BacktestProofs` | proofs about `Backtest` | |
| `GuiServer` | gui server, contexts, bar collector, who owns the engines | `GuiOneClient`, `GuiLatest`, `GuiEnd` |
| `GuiServerProofs` | proofs about `GuiServer` | |
| `GuiWire` | one connection: two threads, one socket, the client's decoder | `GuiWire` |
| `GuiWireProofs` | proofs about `GuiWire` | |
| `SequenceLemmas` | induction, sequences, and the operators of `Lists`: lemmas the proofs share | |

State variables and actions keep the names of the members and functions they
stand for; members end in `_` as in the code. A variable whose name does not is
a place in the code (`worker`, `owner`, `sender`, `feeder`, ...) or a history
variable (`accepted`, `handled`, `got_orders`, ...), marked as such. Definitions
marked `mutant:` are deliberately wrong versions of the definition after them;
no specification uses them, they serve to see that each property can fail.

### EventQueue
One action per stretch between two points where another thread can intervene.
Workers go `loop -> pop -> exec | wait -> blocked -> loop`; producers check
`shutdown_`, take the mutex and check again, enqueue, signal and unlock. The
unlocked reads of `shutdown_` and `terminated_` are steps of their own.
`event::wait(timeout)` consumes a signal that is there already, but leaves
one that wakes it set, as the code does. `EventFifo` hides all of that; the
mapping is `pending <- queue_`, `running <-` what workers hold, `finished <-
executed`, `open <- ~shutdown_`.

### Orders, OrderBook, TradingEngine
Prices are integers in points. A tick is one step: one worker handles the ticks,
and submissions meet it only at `add_new_orders`, under `lock_`. The handler is
a composition of its functions over a record of the lists (`HandleTick`); what a
client may ask for is the set `Requests` of records `NewOrder` makes.
`OrderBook` says what the lists owe to the account: an order is open or closed,
it is opened once and closed once, at the price the tick of that step has for its
side, and what was paid stays. How orders wait, which list holds them and why
they are closed it leaves open. `TradingEngine` and `FirstStrategy` implement it
(`ImplementsBook`): `quote <- latest_tick_`, `held` and `done <-` the open and the
closed list, `deal <-` side and prices of each order. `LadderStrategy` does not:
it loses orders (see `LadderConserved`). That an order is in one list only and that
its prices stay (`Consistent`, `PaidOnce`) is stated of the account, and so of
everything that implements it.

### LadderStrategy
The two places where the code cuts a double are kept: which prices fall under
their integer is a fact about their binary fractions, given by `ShortMids` and
`ShortLevels`, computed from the IEEE doubles of the prices in the
configuration. Stop loss and take profit are chosen so that no comparison is an
exact tie, and the quotient of `set_section_i_am_in` is exact for four sections.
The handler is a composition over a record, too (`Book`), which also holds
`auto_order_id_`: the constructor of an order counts it before it may throw. A bid
is assumed to be a price, that is, above zero.

### FirstStrategy, Statistics
`on_bar` is the delivery of a candle the feeder has completed, with the lines it
draws or takes away; `on_tick` the tick that follows. The strategy writes into
the lists of the engine itself and announces closings, but not openings. The
integer division of the stop distance, the test of `is_bar_legal` (true of a
candle that is too large), the lines drawn from the second last bar, and the
early returns are kept in their order. `Statistics` is one turn of the loop
(`CountOrder`) repeated over the list by a recursive function, next to definitions of
the same numbers by sets of positions and balances; `StatsExact` compares them on
every list of closed orders the strategy reaches.

### Backtest
The optimizer's loop, the feeder thread and the engine's worker. The time frames
are a sequence, as the feeder asks its candle factories in the order of a map, and
a candle is compared with the ticks of its period (`SumsUp`). No tick lies closer
to 1970 than the longest time frame: time 0 stands for "no candle" in the code. The queue is
used by its abstract description. `use_cache_` and `lookback_minutes_` are chosen
at the start. The database may fail when queried or while the cursor is read,
and `event::wait()`, which has no loop, may return without a signal. The
destructor of the engine is five steps: callback removed, members after
`data_events_` destroyed, queue shut down, worker joined, the rest destroyed.

### GuiServer
One action per stretch under one mutex. An engine has two workers; each is in one
handler at a time: `TakeOrder`, `AddOrder`, `SaveOrder` are `on_order`,
`PutBar` and `PassBar` the bar's way, `TakeTick`, `GiveTick`, `TellInfo`, `SaveInfo`
that of a tick and the info the strategy left. `GetEngines`, `TakeSnapshot`,
`MergeBars`, `AddOrders`, `GetInfo`, `AddInfo` are the way of a sending thread to its
loop. Orders and bars accumulate in a context, ticks and infos overwrite
each other. Writes and reads may fail at any moment; `set_aborted` is three steps, the
look at `aborted_` (`SendFails`, `ReceiveFails`), the store (`SetAborted`) and the call
of `on_abort_` (`OnAbort`), so that both threads may pass the look and call it.
Orders, bars and ticks are numbers per symbol, a bar's number standing for its
time; an info has the number of the tick it was made at.

An engine is owned by the registry and by the sending threads that found it there
(`registered`, `holds`). Who drops the last reference (`DropEngine` in the main thread,
`Release` at the end of a sending thread) runs `~fx_engine`, where `order_events_` and
then `data_events_` wait for their worker (`JoinOrderWorker`, `JoinDataWorker`), and
goes on when the engine is gone. The end of the program is `Exit`, when `main` returns
at any moment; then `~engine_registry`, and only then `~gui_server` (`Shutdown` and the
actions after it), since the registry was made later.

### GuiWire
Below `GuiServer`: what is written or arrives in one piece is a unit, a message or
request is a row of units whose last one has the closing tag. `send_message`
looks at `aborted_`, takes `send_lock_`, and writes unit after unit; the bars of
an array are written without the lock. `receive_message` peeks, looks for the
closing tag and removes what belongs to the request. The client's decoder is not
in the repository; it is written from the protocol (a message ends at its tag,
an array's header says how many bytes of bars follow) and marked external.

## 3. Runs, bounds, results

| run | bounds | states | shows |
|---|---|---|---|
| `EventQueueOneWorker` | 3 events, 2 producers, 1 worker | 7,775 | order, delivery, quiet destruction |
| `EventQueueTwoWorkers` | 2 events, 2 producers, 2 workers | 9,286 | no lost wake-up, destructor returns, implements `EventFifo` |
| `TradingEngine` | 2 orders, 3 prices, 3 ticks | 520,054 | implements `OrderBook`, nothing overdue, announcements in order |
| `Ladder` | 6 prices, 7 ticks | 36,249 | limits, cycle accounts, exposure |
| `FirstStrategy` | 3 prices, 9 ticks, 2 trades per candle | 440,373 | implements `OrderBook`, stops watched, trades per candle, statistics |
| `Backtest` | 6 ticks, 2 time frames, 2 runs, 1 fault | 45,023 | order of ticks and bars, look-back, tear-down, termination |
| `GuiOneClient` | 1 client, 2 order events, 2 bars | 381,808 | snapshot joined with live data, delivery, a failed context is destroyed |
| `GuiLatest` | 1 client, 1 bar, 2 ticks and their infos | 545,519 | the newest tick and info are there, and are sent although bars go first |
| `GuiEnd` | 1 client, 1 order event, 1 bar, end of the program | 305,848 | `list_lock_` comes back and `~gui_server` returns, but for `LockCycle` |
| `GuiWire` | 3 requests, 2 messages and an array, 2 failing writes | 19,334 | requests cut out whole, what is written can be decoded, pings answered |

Why these bounds are enough to be of interest: two workers and two producers
contend for the signal and the mutex in every way two threads can; three events
let one be executed, one held, one queued. Three ticks let an order be opened,
closed, and put into the pending list again. Seven ticks over two ladder levels
open, close by each of the four ways, and start a second cycle. Nine ticks of the
first strategy make two candles for the lines, one or two trades, their closing
in the same candle, a later one or never, a candle that takes the lines away, and
closed lists with rows of wins and losses. Six ticks of the back-test hold a
minute with two ticks, a gap, and two five-minute bars; two runs let a cache be
filled and replayed. Two order events and two bars let a snapshot cover one, both
or none with live ones before and after, and order events let the thread that sends and
the one that receives fail at once. Two ticks of different prices let one replace the other
while it waits, and a bar lets the sending thread go round once more before it comes to
them. One order event and one bar let each worker of an engine be in its handler,
before `list_lock_`, behind it or done, when the engine is destroyed. A peek of three
units sees one and a half pings, or a part of an options request; two failing writes let
both threads fail.

Type invariants are checked in the runs of the modules that state one. Only
the `EventQueue` runs check for deadlock: the other systems stop (ticks used up,
clients gone, last run over, program ended, or waiting after a failed query).

**What the code does otherwise than it says.** Two runs end in a violation:

* `LadderConserved`: when two orders hit at one tick, `check_orders_closing`
  returns after the first; the second is in no list any more.
* `BacktestStats`: the statistics are made while events of the run still wait.

Further configurations, which TLC also ends with a violation, are kept beside
the runs (`tlc -config X.cfg` on the MC module named):

* `TradingSubmittedOnce.cfg` (`MCTradingEngine`): `add_new_orders` never clears
  `new_orders_`, so an order is announced as submitted at every tick. It is still
  dealt only once (`ImplementsBook`).
* `LadderLevels.cfg` (`MCLadderStrategy`): a level cut to the bucket below gets
  more orders than `trades_per_lvl`. With a spread of two points this concerns
  about 6 % of the levels; with only the other levels (`Ladder`) the limit holds,
  so that run says nothing of the cast of levels.
* `GuiAllDataSent.cfg` (`MCGuiServer`): an order event between `add_order` and
  `save_order` when a client connects is lost for this client. It is at most one
  per symbol (`AtMostOneMissed`).
* `GuiOwnSymbol.cfg` (`MCGuiServer`): with two engines, the bars of two symbols
  that wait together are exchanged by `send_bars`. `main` registers one engine.
* `GuiExit.cfg` (`MCGuiServer`): `~engine_registry` has run, the cleanup thread joins
  under `list_lock_` the sending thread of a client that failed, this thread drops the
  last reference to the engine and joins its worker in `~fx_engine`, and the worker waits
  for `list_lock_`: the program does not end.
* `GuiSnapshot.cfg` (`MCGuiServer`): when the first live bar that waits is younger than
  the whole snapshot, `add_bars` drops the snapshot, and the client never gets its bars.

Three more configurations of `MCGuiServer` are too large or too alike to be runs of their
own and end without error: `GuiTwoClients.cfg` and `GuiTwoEnd.cfg`, two clients whose
connections fail and that are destroyed next to each other, without and with the end of
the program, where the engine has three owners (32,033 and 474,469 states);
`GuiEqualTicks.cfg`, three ticks, the last two equal for `ticks_equal` (383,919 states; that
`LatestFresh` holds with such ticks is also what `AlwaysLatest` proves).

Two more were met while modelling and have no configuration: the assertion
`aborted_ == true` after a refused `send_message` does not hold when
`~gui_server` cancels a context that is not aborted; and a comment of
`first_strategy::on_bar` asks whether to leave when the candle is smaller than
allowed, while the code leaves when it is larger. `PROJECT.json` quotes the lines.

What five properties except, because the code does it:

* `StreamDecodes`: a pong that falls into an array of bars, and a write that fails in
  one, leave the client in disorder;
* `LatestFresh`: an info that `initialize` copied may replace a newer one until the next;
* `BarsJoin`: one bar may come twice in a row, when it was put into the collector before
  the snapshot, sent with it, and passed on live only then. The run and the proof show
  that this is one bar, at the end of what was sent so far, and that all others come
  once and in order; that a snapshot may be dropped is `GuiSnapshot.cfg`;
* `ListLockReturns` and `ExitReturns`: the circle `GuiExit.cfg` shows, named `LockCycle`.
  They say that nothing else keeps the lock or the program: not the joins of busy workers
  outside this circle, nor two threads that fail at once, nor a lost signal.

## 4. Fairness

Threads are scheduled: weak fairness for each worker, for a producer inside
`push_event`, a destructor that has begun (`~event_queue`, `~gui_context`,
`~fx_engine`, `~engine_registry` with `~gui_server` in the main thread), the feeder
thread, the sending and receiving threads, and a
cleanup thread that was signalled. Handlers and socket writes end (writes have a
time limit); the server thread looks at `shutdown_` every 100 ms, so that joining
it ends. In `GuiWire` what the client has sent arrives. Nothing forces a producer
to call, a client to connect, a fault to happen, or a time-out to expire: liveness
does not rest on the 100 ms of the workers or the 1 s of the sending threads. In
`GuiServer` an engine's worker is fair inside a handler (`OnOrder`, `OnData`), and
nothing forces it to take the next event. Each thread has one fairness condition of its
own, over all the places it may be at.
`std::mutex` promises no fairness, so no strong fairness is assumed.

## 5. Proofs

Every theorem holds for all values of the constants that satisfy the named
`ASSUME`s of its component's module (they say what the code's own checks or types
guarantee: sizes are positive, prices are natural numbers above zero, data is in
the order of time); TLC evaluates them on every run. What a theorem assumes beyond
them is named here and stands in its statement.

Each safety theorem follows from an inductive invariant: a conjunction of named
parts, with one lemma per part that a step keeps it, and under it one step per
action. The handlers that work on a record of lists have lemmas for their operators
first (what filtering, opening, closing does to a list), so that the proof about the
action only puts them together.

**Induction.** The library's induction theorems take a predicate as a parameter,
which the provers cannot instantiate. `SequenceLemmas` runs induction over sets
instead: a set of numbers has a least element (`LeastNumber`), a set that holds 0 and
follows up to a bound holds all (`UpTo`), and a function defined by recursion up
to a bound exists (`Recursion`). What `Filter` and `Total` compute for every list
(`FilterProperties`, `TotalProperties`, `TotalConcat`), where the parts of a
flattened list are (`FlattenParts`, `FlattenAppend`) and what the engine's recursive
functions over lists of orders do (`OpenSteps`, `CloseSteps`) follow from these.

### EventQueueProofs

Assuming only that there is a worker, that workers are not producers, and that
`NoEvent` and `Free` are not an event and not a producer:

* `TypeCorrect`: `Spec => []TypeOK`;
* `WakeupsAreNotLost`: `Spec => []NoLostWakeup`;
* `DestructorJoinsAll`: `Spec => []DestroyedQuiet`;
* `OneWorkerInOrder`: with one worker, `Spec => []InOrder`;
* `RefinesFifo`: `Spec => Fifo!SafeSpec`.

The inductive invariant `IInv` joins three parts. `Base` is the type invariant
with `Control`, which ties the places of the threads to what they hold: a worker
holds an event exactly in `exec`, the mutex is held across a step exactly by the
producer that is about to signal, a worker is done exactly when `terminated_` is
set, and the workers that are not in `threads_` are done. `NoLostWakeup` is then
inductive: a worker leaves `pop` empty-handed only when the queue is empty or
shut down, a producer that enqueues is at `signal` until `signaled_` is set, and
a worker that consumes the signal is at `loop`. `Identity` says that no
event is in two places (the queue, a worker's hand, the argument of a producer
that is still to enqueue it), which the refinement needs for `Post` and `Finish`.
`OneWorkerInOrder` adds that `executed`, the event held and `queue_` in a row are
`accepted`.

### TradingEngineProofs

For any set of orders, requests, prices and ticks:

* `TypeCorrect`, `NeverOverdue`, `AlwaysInOrder`: `TypeOK`, `NothingOverdue` and
  `AnnouncedInOrder` always hold;
* `KeepsBook`: `Spec => ImplementsBook`;
* `OnePlace`, `PricesStay`: `Account!Consistent` and `Account!PaidOnce`.

`Inv` says of the book that an order is in the open or the closed list exactly if its
prices say so, and there once (`Placed`), and that the log holds its announcements in
order, the last two exactly if they happened (`Announced`). `NothingOverdue` is a part of it. The pending list may hold an order
many times, since `new_orders_` is never cleared; `OpenOrdersProperties` shows by
recursion over the list that only a pending order is opened and none twice, which is
what `AlwaysInOrder` and `KeepsBook` rest on.

### FirstStrategyProofs

* `LimitPerCandle`: `Spec => []TradesPerCandle`;
* `StopsAreWatched`: if `Spread < StopDistance`, `Spec => StopsWatched`;
* `OlderStopsAreWatched`: without that assumption, of the orders that were open before
  the tick;
* `KeepsBook`, `OnePlace`, `PricesStay`: as for the engine;
* `StatsAlwaysExact`: `Spec => []StatsExact`; `StatsOfAnyList`: the same of any list of
  orders, so also of those the other strategies close.

The assumption of `StopsAreWatched` is necessary: with a stop distance within the
spread an order is past its stop when it is opened, and is closed at the next tick.
The invariant is `Types`, `Lists1` (there is at most one open order, ids count the
orders as they were sent, and each is in the list its prices say) and `Counter` (the
counter covers the orders of this candle, the limit those of every earlier one). The lemma `Outcome`
reduces the early returns of `on_tick` to three cases, nothing (`Stays`), one order
opened (`Sends`), one order closed (`Closes`); `Watched` says when "nothing" is
allowed although a stop was hit. The statistics need an invariant of their own loop,
`Counted`: after n orders the profit is the nth balance, `wins` counts the winning
positions up to n, the extremes are attained and bound every balance so far, and `Row`
holds of wins and losses: the current row is exactly the stretch that ends at n, and the
longest one is attained and bounds every stretch up to n. `CountedStep` is one turn of the loop.

### LadderProofs

For any parameters, prices and numbers of ticks:

* `TypeCorrect`, `CycleAccounted`, `NoneOverdue`: `TypeOK`, `CycleAccounts`,
  `NothingOverdue` always hold;
* `CycleReached`, `LimitOfLots`: `Spec => CycleTarget`, `Spec => ExposureCapped`;
* `LimitPerLevel`: if `Step` is a multiple of 10 points and `ShortLevels` has none of
  the prices, `Spec => []LevelLimit`.

The assumptions of `LimitPerLevel` say when the cast of `on_level` loses nothing:
`LadderLevels.cfg` shows that the limit fails with one level cut short. The theorem
shows that this is the only way it fails: the cast that finds the nearest
level (`ShortMids`) may go wrong as it likes. The invariant is `Whole`:
the lists are of positions with ids up to `auto_order_id_`, the open list has open
ones, the closed list closed ones, no id is there twice (`IsBook`, `Placed`), and
`cycle_profit_` is the sum since `banked` (`Accounted`). Each of the four ways to
close is an instance of one relation of two books, `Retires` (some orders leave the
open list, some of them join the closed list), and a tick is a chain of
them after at most two `Adds`; `Follows` is what such a chain keeps. Sums are taken
apart by `GainedConcat`. `LevelLimit` needs `Rungs`: the limit, and that every
position was opened at the level of a price; by `OneBucket` such positions on one rung
have one bucket.

### BacktestProofs

For any data, time frames, number of runs, look-back and number of failures:

* `TypeCorrect`: `Spec => []TypeOK`;
* `SafeTeardown`: `Spec => []TeardownSafe`;
* `AllTicksInOrder`: `Spec => []TicksInOrder`;
* `AllBarsExact`: `Spec => []BarsExact`.

The invariant ties the threads together: `Control` (where `optimizer::run` is says
which members exist and whether feeder and worker may work), `Accounted` (what was
fed is what was handled, is handled, or waits), `Streams` (the cache is the beginning
of the data, the source the end of it), `Undisturbed` (without a failure the feeder
is waited for to its end), `Delivered` (the ticks fed are a stretch of the data from
a tick on that the look-back allows), and `Exact`: `BarsExact` with
`UnderConstruction` (a candle sums up the ticks of its period so far, if this run
began it), `Past` (what was fed lies before the candles under construction) and
`Unbegun` (the first run starts without candles). A bar that the run before left over
is what `BarsExact` excepts.

### GuiServerProofs

For any number of clients, symbols, orders, bars and ticks:

* `TypeCorrect`: `Spec => []TypeOK`;
* `OrdersInOrder`, `OneMissedAtMost`: `OrdersJoin`, `AtMostOneMissed` always hold;
* `AlwaysLatest`: `Spec => []LatestFresh`;
* `BarsInOrder`: with one symbol, `Spec => []BarsJoin`.

With several symbols `send_bars` exchanges their bars (`GuiOwnSymbol.cfg`), so the
last one is stated for what `main` registers. The invariant `Inv` has the types of
all variables with the links between a worker's place and what it has announced, passed
and saved so far, `Control` (where a context is in its life, where its threads are, and
that nothing was sent before `initialize` is over), `OrdersGood` (the order events a
client was sent and those that wait are one rising list of announced ones, which from
`add_orders` on lacks one at most) and `LatestGood`. A client that was given no engines,
since the registry was gone, is not `Live`: it has no snapshot to join. For bars
`BarsOfGood` says that what waits is in the order of time and that sent and waiting bars
together are so, but for one that may be there again where what was sent ends
(`OnceAgain`). It takes a fourth part to be inductive: as long as the bars are strictly
in order one may still come again, and once it has, the client has nothing ahead of
what was passed on, so that every later bar is younger.

### GuiWireProofs

* `AlwaysDecodes`: `Spec => []StreamDecodes`, for any requests, outputs, sizes and
  number of failing writes.

The invariant: `Work` (the lock is held by the thread that writes a message, units are
counted only while writing), `Lateness` (what was written late and what a thread may
still write is at most one message or chunk) and `Reading` (the client is inside
exactly what the threads have begun to write, unless it is lost).

* `FramesKeptWhole`: `Spec => []FramesWhole`, for any requests of at least one unit
  each, any size of the buffer and any way the stream arrives.

The invariant `Framing` marks where each request ends in the stream (`Marks`; such
marks exist for every list of requests, `Streamed`): the requests returned so far are
the stream up to a mark, and what `receive_message` has collected is the stream from
there on and does not reach the next mark. A turn of its loop (`ReceiveFrames`) then
finds the first closing tag exactly at that mark, or none.

### Only model-checked

* Liveness and fairness: `Delivery`, `DestructorReturns`, `RunEnds`, `EventuallySent`,
  `LatestSent`, `AbortedDestroyed`, `ListLockReturns`, `ExitReturns`,
  `PingsAnswered`, and the liveness half of `ImplementsFifo`: out of the proof
  system's reach.
* `OrdersConserved`, `StatsCoverRun` and the properties of the further configurations
  fail and are not stated as theorems.

## 6. Not modelled

* In the gui server: the `status::initialized` message, which is sent once and
  changes nothing; the options map, a locked value per symbol; several time
  frames of the bar collector.
* What `get_engines` finds in a registry that was destroyed: nothing, or what is still
  there (`GetEngines`); the map is read while it is destroyed in the code.
* The use of members that are gone: `~gui_server` destroys `abort_event_`,
  `orders_` and `info_`, and `~fx_engine` `lock_`, `info_data_` and
  `order_events_`, before the threads that use them are joined. The models show
  when this can happen (`DestroyMembers`, `JoinCleanupThread`), not what follows. In
  `GuiServer`, handlers an engine's worker still runs push to `order_events_` no more.
* A call of `submit_order` in the middle of `on_tick`, which is one step of
  `TradingEngine`: it falls before or after the tick. (`lock_` is taken by
  `submit_order` and `add_new_orders` alone.)
* `modify_order` and `delete_order`, which only answer false; the order setters,
  XML and reports; `calc_open_trades_stats`, which only adds up.
* `plr_close` and the functions only it uses in the ladder strategy: nothing calls it.
* Delays of the controlled feeder, wall-clock time: no state depends on them.
* The generators of parameters, the indicators of ta-lib; `add_engine`, which
  fills the registry before the feeder starts.
* Sockets below `GuiWire`, database, FIX client, configuration, logging,
  start-up: input and output, present only as calls that may be partial or fail.
  Vendored code.
* The C++ memory model: plain `bool`s shared between threads are read and
  written as single steps in program order.

## 7. Plan

Written: event queue with its abstraction, orders with engine and ladder, backtest, gui
server with ticks, infos, its end and that of the engines, the wire below it, the account the order lists
keep and the first strategy with the statistics; a theorem for every safety property
that the runs of the seven state machines check and find to hold. What a next step could add:

1. the gui messages in XML, as the values a client can read back;
2. the generators of parameters, as the set of runs the optimizer makes;
3. liveness proofs, once a prover for them is at hand.
