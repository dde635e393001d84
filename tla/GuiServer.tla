------------------------------ MODULE GuiServer ------------------------------
(***************************************************************************)
(* fx::gui_server, fx::gui_context and the bar_collector they read         *)
(* (fxquant/gui_server.cpp, gui_context.cpp, bar_collector.cpp): engines   *)
(* announce orders and bars, each connected client has a context with a    *)
(* sending and a receiving thread, and a cleanup thread destroys the       *)
(* contexts of the clients that are gone.                                  *)
(*                                                                         *)
(* A context starts with a snapshot of what is already known and is fed    *)
(* live from the moment it is in context_list_; how the two are joined is  *)
(* what this module is about.  One action per stretch of code under one    *)
(* mutex (list_lock_, orders_lock_, data_lock_, the collector's lock_).    *)
(* Orders and bars are numbered per symbol in the order they are made; the *)
(* number of a bar stands for its time, that of a tick too, and an info    *)
(* message has the number of the tick it was made at.  One time frame; the *)
(* engines are registered before a client connects.                        *)
(*                                                                         *)
(* A sending thread owns the engines it initialises from until it ends     *)
(* (send_thread_func), as the engine_registry does.  The registry is made  *)
(* after gui_server and destroyed before it: whoever drops the last        *)
(* engine_ptr runs ~fx_engine, which joins the engine's two workers.       *)
(***************************************************************************)
EXTENDS Integers, Sequences, FiniteSets, SequencesExt

CONSTANTS Clients,    \* number of connections that may be accepted, one context each
          Symbols,    \* number of engines, one per symbol
          MaxOrders,  \* bound: order events per symbol
          MaxBars,    \* bound: bars per symbol
          MaxTicks,   \* bound: ticks per symbol
          MayExit     \* whether the program may end

ASSUME BoundsAssumption == /\ Symbols \in Nat \ {0}
                            /\ {Clients, MaxOrders, MaxBars, MaxTicks} \subseteq Nat
                            /\ MayExit \in BOOLEAN

Symbol == 1..Symbols  \* in the order of the std::maps keyed by symbol
Client == 1..Clients  \* in the order of context_list_, in which they are accepted

VARIABLES
  announced,    \* announced[s]: order events given to the listed contexts
  saved,        \* saved[s]: of these, the ones save_order put into orders_
  collected,    \* collected[s]: bars in the engine's bar_collector
  passed,       \* passed[s]: of these, the ones on_bar gave to the contexts
  order_worker, \* where the engine's order worker is: in on_order or idle
  data_worker,  \* where its data worker is: in on_bar, on_tick, on_info or idle
  given,        \* given[s]: the last tick given to the listed contexts
  told,         \* told[s]: the last info given to them, by its tick
  saved_info,   \* saved_info[s]: the one save_info put into info_
  context,      \* life of each context; the "listed" ones are context_list_
  abort_event_, \* the cleanup thread's event is signalled
  cleanup,      \* where the cleanup thread is; it holds list_lock_ in "join"
  shutdown_,    \* gui_server::shutdown_
  exit,         \* where the main thread is after main, until ~gui_server returns
  registered,   \* the engines that engine_registry owns
  holds,        \* holds[c]: the engines the sending thread owns
  life,         \* life[s]: "alive", the worker ~fx_engine joins, or "gone"
  aborted_,     \* gui_context::aborted_
  data_event_,  \* gui_context::data_event_ is signalled
  bars_,        \* bars_[c][s]: bars <<symbol, time>> to send as symbol s
  orders_,      \* orders_[c][s]: order events to send
  ticks_,       \* ticks_[c][s]: the tick to send, or 0
  info_,        \* info_[c][s]: the info to send, or 0
  sender,       \* where the sending thread is
  at,           \* the symbol it initialises, or whose engine it lets go of
  snapshot,     \* number of bars get_bars copied for it, then the info get_info did
  bars_sent,    \* bars_sent of its loop
  receiver,     \* where the receiving thread is
  got_bars,     \* history: what the client received under each symbol
  got_orders,   \* history: the order events it received
  got_tick,     \* history: the last tick it received
  got_info,     \* history: the last info it received
  joined        \* history: the info last told when the context had initialised

data    == <<given, told, saved_info>>
workers == <<order_worker, data_worker>>
engines == <<announced, saved, collected, passed, data, workers>>
latest  == <<ticks_, info_>>
pending == <<data_event_, bars_, orders_, latest>>
owners  == <<registered, holds, life>>
ending  == <<shutdown_, exit, owners>>
server  == <<context, abort_event_, cleanup, ending>>
threads == <<aborted_, sender, at, snapshot, bars_sent, receiver>>
seen    == <<got_tick, got_info, joined>>
history == <<got_bars, got_orders, seen>>
vars    == <<engines, pending, server, threads, history>>

TypeOK ==
  /\ announced \in [Symbol -> 0..MaxOrders] /\ saved \in [Symbol -> 0..MaxOrders]
  /\ collected \in [Symbol -> 0..MaxBars]   /\ passed \in [Symbol -> 0..MaxBars]
  /\ order_worker \in [Symbol -> {"idle", "add", "save"}]
  /\ data_worker \in [Symbol -> {"idle", "bar", "tick", "info", "save"}]
  /\ \A s \in Symbol :
       /\ saved[s] = announced[s] - (IF order_worker[s] = "save" THEN 1 ELSE 0)
       /\ passed[s] = collected[s] - (IF data_worker[s] = "bar" THEN 1 ELSE 0)
  /\ context \in [Client -> {"new", "listed", "dying", "canceled", "gone"}]
  /\ cleanup \in {"loop", "wait", "scan", "join", "done"}
  /\ abort_event_ \in BOOLEAN /\ shutdown_ \in BOOLEAN
  /\ exit \in {"no", "registry", "signal", "server", "join", "destroy", "gone"}
  /\ registered \subseteq Symbol /\ holds \in [Client -> SUBSET Symbol]
  /\ life \in [Symbol -> {"alive", "orders", "data", "gone"}]
  /\ aborted_ \in [Client -> BOOLEAN] /\ data_event_ \in [Client -> BOOLEAN]
  /\ bars_sent \in [Client -> BOOLEAN]
  /\ sender \in [Client -> {"off", "start", "snapshot", "merge", "add_orders", "get_info",
                            "add_info", "bars", "orders", "info", "ticks", "wait", "blocked",
                            "set", "abort", "end", "destroy", "done"}]
  /\ receiver \in [Client -> {"off", "run", "set", "abort", "done"}]
  /\ at \in [Client -> Symbol] /\ snapshot \in [Client -> 0..Max({MaxBars, MaxTicks})]
  /\ \A c \in Client, s \in Symbol :
       /\ bars_[c][s] \in Seq(Symbol \X (1..MaxBars))
       /\ got_bars[c][s] \in Seq(Symbol \X (1..MaxBars))
       /\ orders_[c][s] \in Seq(1..MaxOrders)
       /\ got_orders[c][s] \in Seq(1..MaxOrders)

Zero    == [s \in Symbol |-> 0]
Nothing == [c \in Client |-> [s \in Symbol |-> <<>>]]
None    == [c \in Client |-> Zero]

Init ==
  /\ announced = Zero /\ saved = Zero /\ collected = Zero /\ passed = Zero
  /\ order_worker = [s \in Symbol |-> "idle"] /\ data_worker = [s \in Symbol |-> "idle"]
  /\ given = Zero /\ told = Zero /\ saved_info = Zero
  /\ context = [c \in Client |-> "new"]
  /\ abort_event_ = FALSE
  /\ cleanup = "loop"
  /\ shutdown_ = FALSE /\ exit = "no"
  /\ registered = Symbol /\ holds = [c \in Client |-> {}]
  /\ life = [s \in Symbol |-> "alive"]
  /\ aborted_ = [c \in Client |-> FALSE]
  /\ data_event_ = [c \in Client |-> FALSE]
  /\ bars_ = Nothing /\ orders_ = Nothing
  /\ ticks_ = None /\ info_ = None
  /\ sender = [c \in Client |-> "off"]
  /\ at = [c \in Client |-> 1]
  /\ snapshot = [c \in Client |-> 0]
  /\ bars_sent = [c \in Client |-> FALSE]
  /\ receiver = [c \in Client |-> "off"]
  /\ got_bars = Nothing /\ got_orders = Nothing
  /\ got_tick = None /\ got_info = None /\ joined = None

ListLockFree == cleanup # "join"

\* the contexts an announcement reaches
Reached == {c \in Client : context[c] = "listed" /\ ~aborted_[c]}

\* the threads of a context find aborted_ or canceled_ set
Stopped(c) == aborted_[c] \/ context[c] = "canceled"

\* signal data_event_ of some contexts
SignalData(C) == data_event_' = [c \in Client |-> data_event_[c] \/ c \in C]

------------------------------------------------------------------------------
(* The engines: one order worker and one data worker per symbol            *)

OrderStep(s, from, to) ==
  order_worker[s] = from /\ order_worker' = [order_worker EXCEPT ![s] = to]

DataStep(s, from, to) ==
  data_worker[s] = from /\ data_worker' = [data_worker EXCEPT ![s] = to]

\* order_events_ still hands out events to its worker
TakeOrder(s) ==
  /\ life[s] = "alive"
  /\ announced[s] < MaxOrders
  /\ OrderStep(s, "idle", "add")
  /\ UNCHANGED <<announced, saved, collected, passed, data, data_worker, pending, server,
                 threads, history>>

\* mutant: add_order does not signal the sending thread
AddOrderSilently(s) ==
  /\ OrderStep(s, "add", "save")
  /\ ListLockFree
  /\ announced' = [announced EXCEPT ![s] = @ + 1]
  /\ orders_' = [c \in Client |->
       IF c \in Reached THEN [orders_[c] EXCEPT ![s] = Append(@, announced[s] + 1)]
                        ELSE orders_[c]]
  /\ UNCHANGED <<saved, collected, passed, data, data_worker, data_event_, bars_, latest,
                 server, threads, history>>

\* on_order, first half: under list_lock_, add_order on every live context
AddOrder(s) ==
  /\ OrderStep(s, "add", "save")
  /\ ListLockFree
  /\ announced' = [announced EXCEPT ![s] = @ + 1]
  /\ orders_' = [c \in Client |->
       IF c \in Reached THEN [orders_[c] EXCEPT ![s] = Append(@, announced[s] + 1)]
                        ELSE orders_[c]]
  /\ SignalData(Reached)
  /\ UNCHANGED <<saved, collected, passed, data, data_worker, bars_, latest, server, threads,
                 history>>

\* on_order, second half: save_order
SaveOrder(s) ==
  /\ OrderStep(s, "save", "idle")
  /\ saved' = [saved EXCEPT ![s] = @ + 1]
  /\ UNCHANGED <<announced, collected, passed, data, data_worker, pending, server, threads,
                 history>>

\* data_events_, destroyed after order_events_, still hands out events
DataAlive(s) == life[s] \in {"alive", "orders"}

\* data_event_callback::on_bar: the bar goes into the collector ...
PutBar(s) ==
  /\ DataAlive(s)
  /\ collected[s] < MaxBars
  /\ DataStep(s, "idle", "bar")
  /\ collected' = [collected EXCEPT ![s] = @ + 1]
  /\ UNCHANGED <<announced, saved, passed, data, order_worker, pending, server, threads,
                 history>>

\* add_bar takes a bar that is younger than the last one that waits
BarIsNew(c, s, t) == bars_[c][s] = <<>> \/ Last(bars_[c][s])[2] < t

\* ... and then, under list_lock_, to every live context
PassBar(s) ==
  /\ DataStep(s, "bar", "idle")
  /\ ListLockFree
  /\ LET t     == collected[s]
         added == {c \in Reached : BarIsNew(c, s, t)}
     IN /\ bars_' = [c \in Client |->
             IF c \in added THEN [bars_[c] EXCEPT ![s] = Append(@, <<s, t>>)]
                            ELSE bars_[c]]
        /\ SignalData(added)
        /\ passed' = [passed EXCEPT ![s] = t]
  /\ UNCHANGED <<announced, saved, collected, data, order_worker, orders_, latest, server,
                 threads, history>>

\* the prices of a tick as ticks_equal compares them, cut to thousandths: the
\* second and the third tick are equal
Price(t) == t \div 2

\* mutant: a younger tick does not replace the one that waits
TickKept(c, s, t) == ticks_[c][s] = 0

\* add_tick: a tick takes the place of an older one of another price
TickIsNew(c, s, t) ==
  ticks_[c][s] = 0 \/ (ticks_[c][s] < t /\ Price(ticks_[c][s]) # Price(t))

\* data_event_callback::on_tick: the strategy has its turn ...
TakeTick(s) ==
  /\ DataAlive(s)
  /\ given[s] < MaxTicks
  /\ DataStep(s, "idle", "tick")
  /\ UNCHANGED <<announced, saved, collected, passed, data, order_worker, pending, server,
                 threads, history>>

\* ... then gui_server::on_tick, under list_lock_; the strategy has left an info or not
GiveTick(s) ==
  /\ \E next \in {"info", "idle"} : DataStep(s, "tick", next)
  /\ ListLockFree
  /\ LET t     == given[s] + 1
         added == {c \in Reached : TickIsNew(c, s, t)}
     IN /\ given' = [given EXCEPT ![s] = t]
        /\ ticks_' = [c \in Client |->
             IF c \in added THEN [ticks_[c] EXCEPT ![s] = t] ELSE ticks_[c]]
        /\ SignalData(added)
  /\ UNCHANGED <<announced, saved, collected, passed, told, saved_info, order_worker, bars_,
                 orders_, info_, server, threads, history>>

\* ... and on_info: under list_lock_ add_info ...
TellInfo(s) ==
  /\ DataStep(s, "info", "save")
  /\ ListLockFree
  /\ told' = [told EXCEPT ![s] = given[s]]
  /\ info_' = [c \in Client |->
       IF c \in Reached THEN [info_[c] EXCEPT ![s] = given[s]] ELSE info_[c]]
  /\ SignalData(Reached)
  /\ UNCHANGED <<announced, saved, collected, passed, given, saved_info, order_worker, bars_,
                 orders_, ticks_, server, threads, history>>

\* ... then save_info
SaveInfo(s) ==
  /\ DataStep(s, "save", "idle")
  /\ saved_info' = [saved_info EXCEPT ![s] = told[s]]
  /\ UNCHANGED <<announced, saved, collected, passed, given, told, order_worker, pending,
                 server, threads, history>>

\* ~fx_engine: order_events_ goes first, when its worker is out of the handler, ...
JoinOrderWorker(s) ==
  /\ life[s] = "orders" /\ order_worker[s] = "idle"
  /\ life' = [life EXCEPT ![s] = "data"]
  /\ UNCHANGED <<engines, pending, context, abort_event_, cleanup, shutdown_, exit,
                 registered, holds, threads, history>>

\* ... then data_events_
JoinDataWorker(s) ==
  /\ life[s] = "data" /\ data_worker[s] = "idle"
  /\ life' = [life EXCEPT ![s] = "gone"]
  /\ UNCHANGED <<engines, pending, context, abort_event_, cleanup, shutdown_, exit,
                 registered, holds, threads, history>>

------------------------------------------------------------------------------
(* server_thread, add_context and gui_context::start                       *)

Accept(c) ==
  /\ context[c] = "new" /\ \A d \in 1..(c - 1) : context[d] # "new"
  /\ exit \in {"no", "registry", "signal", "server"}
  /\ ListLockFree
  /\ context' = [context EXCEPT ![c] = "listed"]
  /\ sender' = [sender EXCEPT ![c] = "start"]
  /\ receiver' = [receiver EXCEPT ![c] = "run"]
  /\ UNCHANGED <<engines, pending, abort_event_, cleanup, ending, aborted_, at, snapshot,
                 bars_sent, history>>

------------------------------------------------------------------------------
(* The sending thread of context c                                         *)

GoTo(c, pc) == sender' = [sender EXCEPT ![c] = pc]

\* get_engines.  Once the program ends the registry may be gone: the call then finds
\* nothing, or still what is there.
GetEngines(c) ==
  /\ sender[c] = "start"
  /\ \E v \in {Symbol, {}} :
       /\ v \subseteq registered
       /\ exit = "no" => v = Symbol
       /\ holds' = [holds EXCEPT ![c] = v]
       /\ GoTo(c, IF v = {} THEN "bars" ELSE "snapshot")
  /\ UNCHANGED <<engines, pending, context, abort_event_, cleanup, shutdown_, exit,
                 registered, life, aborted_, at, snapshot, bars_sent, receiver, history>>

\* initialize: copy the collected bars
TakeSnapshot(c) ==
  /\ sender[c] = "snapshot"
  /\ snapshot' = [snapshot EXCEPT ![c] = collected[at[c]]]
  /\ GoTo(c, "merge")
  /\ UNCHANGED <<engines, pending, server, aborted_, at, bars_sent, receiver, history>>

\* mutant: bars are counted from zero
BarsFromZero(s, n) == [t \in 1..n |-> <<s, t - 1>>]

\* the first n bars of a symbol
Bars(s, n) == [t \in 1..n |-> <<s, t>>]

\* mutant: the bar that waits first is taken from the snapshot as well
MergedTwice(s, n, v) == IF v = <<>> THEN Bars(s, n) ELSE Bars(s, Min({n, v[1][2]})) \o v

\* add_bars: what becomes of the bars that wait when the snapshot has n bars.
\* The snapshot goes in front, up to its first bar that is not older than the
\* first one that waits; when all are older nothing of it is taken.
Merged(s, n, v) ==
  IF n = 0 THEN v
  ELSE IF v = <<>> THEN Bars(s, n)
  ELSE IF n < v[1][2] THEN v
  ELSE Bars(s, v[1][2] - 1) \o v

MergeBars(c) ==
  /\ sender[c] = "merge"
  /\ LET s == at[c]
         n == snapshot[c]
         v == bars_[c][s]
     IN /\ bars_' = [bars_ EXCEPT ![c][s] = Merged(s, n, v)]
        /\ SignalData(IF n > 0 /\ (v = <<>> \/ n >= v[1][2]) THEN {c} ELSE {})
  /\ snapshot' = [snapshot EXCEPT ![c] = 0]
  /\ GoTo(c, "add_orders")
  /\ UNCHANGED <<engines, orders_, latest, server, aborted_, at, bars_sent, receiver, history>>

\* mutant: the vectors are swapped the wrong way round
AddOrdersDropped(c) ==
  /\ sender[c] = "add_orders"
  /\ orders_' = [orders_ EXCEPT ![c][at[c]] = <<>>]
  /\ GoTo(c, "get_info")
  /\ UNCHANGED <<engines, data_event_, bars_, latest, server, aborted_, at, snapshot,
                 bars_sent, receiver, history>>

\* mutant: the saved order events join those that wait
AddOrdersAppended(c) ==
  /\ sender[c] = "add_orders"
  /\ orders_' = [orders_ EXCEPT ![c][at[c]] = @ \o [i \in 1..saved[at[c]] |-> i]]
  /\ GoTo(c, "get_info")
  /\ UNCHANGED <<engines, data_event_, bars_, latest, server, aborted_, at, snapshot,
                 bars_sent, receiver, history>>

\* add_orders: the saved order events replace the ones that wait
AddOrders(c) ==
  /\ sender[c] = "add_orders"
  /\ orders_' = [orders_ EXCEPT ![c][at[c]] = [i \in 1..saved[at[c]] |-> i]]
  /\ GoTo(c, "get_info")
  /\ UNCHANGED <<engines, data_event_, bars_, latest, server, aborted_, at, snapshot,
                 bars_sent, receiver, history>>

\* get_info copies the saved info ...
GetInfo(c) ==
  /\ sender[c] = "get_info"
  /\ snapshot' = [snapshot EXCEPT ![c] = saved_info[at[c]]]
  /\ GoTo(c, "add_info")
  /\ UNCHANGED <<engines, pending, server, aborted_, at, bars_sent, receiver, history>>

\* ... and add_info puts it, even when there is none, in place of what waits
AddInfo(c) ==
  /\ sender[c] = "add_info"
  /\ info_' = [info_ EXCEPT ![c][at[c]] = snapshot[c]]
  /\ SignalData(IF snapshot[c] > 0 THEN {c} ELSE {})
  /\ joined' = [joined EXCEPT ![c][at[c]] = told[at[c]]]
  /\ snapshot' = [snapshot EXCEPT ![c] = 0]
  /\ IF at[c] < Symbols
       THEN at' = [at EXCEPT ![c] = @ + 1] /\ GoTo(c, "snapshot")
       ELSE UNCHANGED at /\ GoTo(c, "bars")
  /\ UNCHANGED <<engines, bars_, orders_, ticks_, server, aborted_, bars_sent, receiver,
                 got_bars, got_orders, got_tick, got_info>>

\* send_message fails: the context is canceled or aborted already, or the write
\* fails and set_aborted, which looks at aborted_ first, goes on to set it
SendFails(c) ==
  \/ Stopped(c) /\ GoTo(c, "end")
  \/ ~aborted_[c] /\ GoTo(c, "set")

\* send_bars goes on to the next symbol after it has swapped out the bars of
\* one: each symbol's bars are swapped with those taken from the one before.
Full(c) == {s \in Symbol : bars_[c][s] # <<>>}

SwapBars(c) ==
  [s \in Symbol |->
     LET before == {r \in Full(c) : r < s}
     IN IF s \in Full(c) /\ before # {}
          THEN bars_[c][CHOOSE r \in before : \A q \in before : q <= r]
          ELSE <<>>]

\* The head of the loop and send_bars: nothing to send, sent, refused by
\* send_message, or (several bars) cut off in the array, which is not an abort.
SendBars(c) ==
  /\ sender[c] = "bars"
  /\ IF Stopped(c)
       THEN GoTo(c, "end") /\ UNCHANGED <<bars_, bars_sent, got_bars>>
     ELSE IF Full(c) = {}
       THEN /\ bars_sent' = [bars_sent EXCEPT ![c] = FALSE]
            /\ GoTo(c, "orders")
            /\ UNCHANGED <<bars_, got_bars>>
     ELSE LET s == CHOOSE s \in Full(c) : \A r \in Full(c) : r <= s
          IN /\ bars_' = [bars_ EXCEPT ![c] = SwapBars(c)]
             /\ \/ /\ got_bars' = [got_bars EXCEPT ![c][s] = @ \o bars_[c][s]]
                   /\ bars_sent' = [bars_sent EXCEPT ![c] = TRUE]
                   /\ GoTo(c, "orders")
                \/ SendFails(c) /\ UNCHANGED <<bars_sent, got_bars>>
                \/ /\ Len(bars_[c][s]) > 1
                   /\ bars_sent' = [bars_sent EXCEPT ![c] = FALSE]
                   /\ GoTo(c, "orders")
                   /\ UNCHANGED got_bars
  /\ UNCHANGED <<engines, data_event_, orders_, latest, server, aborted_, at, snapshot,
                 receiver, got_orders, seen>>

\* send_orders: the events of the first symbol that has any, one message each
SendOrders(c) ==
  /\ sender[c] = "orders"
  /\ \E s \in Symbol :
       /\ orders_[c][s] # <<>>
       /\ \A r \in Symbol : r < s => orders_[c][r] = <<>>
       /\ orders_' = [orders_ EXCEPT ![c][s] = <<>>]
       /\ \/ /\ ~Stopped(c)
             /\ got_orders' = [got_orders EXCEPT ![c][s] = @ \o orders_[c][s]]
             /\ GoTo(c, "bars")
          \/ \E n \in 0..(Len(orders_[c][s]) - 1) :
               /\ Stopped(c) => n = 0
               /\ got_orders' = [got_orders EXCEPT
                                   ![c][s] = @ \o SubSeq(orders_[c][s], 1, n)]
               /\ SendFails(c)
  /\ UNCHANGED <<engines, data_event_, bars_, latest, server, aborted_, at, snapshot,
                 bars_sent, receiver, got_bars, seen>>

\* mutant: the loop starts again although nothing was sent
NoOrdersAgain(c) ==
  /\ sender[c] = "orders"
  /\ \A s \in Symbol : orders_[c][s] = <<>>
  /\ GoTo(c, "bars")
  /\ UNCHANGED <<engines, pending, server, aborted_, at, snapshot, bars_sent, receiver,
                 history>>

\* no order waits: round again when bars were sent
NoOrders(c) ==
  /\ sender[c] = "orders"
  /\ \A s \in Symbol : orders_[c][s] = <<>>
  /\ GoTo(c, IF bars_sent[c] THEN "bars" ELSE "info")
  /\ UNCHANGED <<engines, pending, server, aborted_, at, snapshot, bars_sent, receiver,
                 history>>

\* send_info: the info of one symbol
SendInfo(c) ==
  /\ sender[c] = "info"
  /\ LET waiting == {s \in Symbol : info_[c][s] > 0}
         s == CHOOSE s \in waiting : \A r \in waiting : s <= r
     IN IF waiting = {}
          THEN GoTo(c, "ticks") /\ UNCHANGED <<info_, got_info>>
          ELSE /\ info_' = [info_ EXCEPT ![c][s] = 0]
               /\ \/ /\ ~Stopped(c)
                     /\ got_info' = [got_info EXCEPT ![c][s] = info_[c][s]]
                     /\ GoTo(c, "ticks")
                  \/ SendFails(c) /\ UNCHANGED got_info
  /\ UNCHANGED <<engines, data_event_, bars_, orders_, ticks_, server, aborted_, at,
                 snapshot, bars_sent, receiver, got_bars, got_orders, got_tick, joined>>

\* send_ticks: one tick of every symbol, in one go or up to a failure; then the
\* loop ends or all data is sent
SendTicks(c) ==
  /\ sender[c] = "ticks"
  /\ LET waiting == {s \in Symbol : ticks_[c][s] > 0}
     IN /\ ticks_' = [ticks_ EXCEPT ![c] = Zero]
        /\ \E sent \in 0..Symbols :
             LET received == {s \in waiting : s <= sent}
             IN /\ received # {} => ~Stopped(c)
                /\ got_tick' = [got_tick EXCEPT ![c] =
                      [s \in Symbol |-> IF s \in received THEN ticks_[c][s] ELSE @[s]]]
                /\ IF received = waiting
                     THEN GoTo(c, IF Stopped(c) THEN "end" ELSE "wait")
                     ELSE SendFails(c)
  /\ UNCHANGED <<engines, data_event_, bars_, orders_, info_, server, aborted_, at,
                 snapshot, bars_sent, receiver, got_bars, got_orders, got_info, joined>>

\* data_event_.wait(1s)
EnterWait(c) ==
  /\ sender[c] = "wait"
  /\ data_event_' = [data_event_ EXCEPT ![c] = FALSE]
  /\ GoTo(c, IF data_event_[c] THEN "bars" ELSE "blocked")
  /\ UNCHANGED <<engines, bars_, orders_, latest, server, aborted_, at, snapshot, bars_sent,
                 receiver, history>>

WakeUp(c) ==
  /\ sender[c] = "blocked"
  /\ data_event_[c]
  /\ GoTo(c, "bars")
  /\ UNCHANGED <<engines, pending, server, aborted_, at, snapshot, bars_sent, receiver,
                 history>>

TimeOut(c) ==
  /\ sender[c] = "blocked"
  /\ GoTo(c, "bars")
  /\ UNCHANGED <<engines, pending, server, aborted_, at, snapshot, bars_sent, receiver,
                 history>>

\* set_aborted: a thread that found aborted_ unset sets it; both threads may ...
SetAborted(c) ==
  /\ \/ sender[c] = "set" /\ GoTo(c, "abort") /\ UNCHANGED receiver
     \/ receiver[c] = "set" /\ receiver' = [receiver EXCEPT ![c] = "abort"]
                            /\ UNCHANGED sender
  /\ aborted_' = [aborted_ EXCEPT ![c] = TRUE]
  /\ UNCHANGED <<engines, pending, server, at, snapshot, bars_sent, history>>

\* mutant: on_abort_ is not called
OnAbortIgnored(c) ==
  /\ \/ sender[c] = "abort" /\ GoTo(c, "end") /\ UNCHANGED receiver
     \/ receiver[c] = "abort" /\ receiver' = [receiver EXCEPT ![c] = "done"]
                              /\ UNCHANGED sender
  /\ UNCHANGED <<engines, pending, server, aborted_, at, snapshot, bars_sent, history>>

\* ... and calls on_abort_, gui_server::on_abort; its loop then ends
OnAbort(c) ==
  /\ \/ sender[c] = "abort" /\ GoTo(c, "end") /\ UNCHANGED receiver
     \/ receiver[c] = "abort" /\ receiver' = [receiver EXCEPT ![c] = "done"]
                              /\ UNCHANGED sender
  /\ abort_event_' = TRUE
  /\ UNCHANGED <<engines, pending, context, cleanup, ending, aborted_, at, snapshot, bars_sent,
                 history>>

\* the end of send_thread_func: its engine_ptrs go one by one, and who drops the
\* last one of an engine is in ~fx_engine ...
Release(c) ==
  /\ sender[c] = "end"
  /\ \E s \in holds[c] :
       /\ \A r \in holds[c] : s <= r
       /\ holds' = [holds EXCEPT ![c] = @ \ {s}]
       /\ at' = [at EXCEPT ![c] = s]
       /\ IF s \in registered \/ \E d \in Client \ {c} : s \in holds[d]
            THEN UNCHANGED <<life, sender>>
            ELSE life' = [life EXCEPT ![s] = "orders"] /\ GoTo(c, "destroy")
  /\ UNCHANGED <<engines, pending, context, abort_event_, cleanup, shutdown_, exit,
                 registered, aborted_, snapshot, bars_sent, receiver, history>>

\* ... until the workers of the engine are joined
EngineGone(c) ==
  /\ sender[c] = "destroy" /\ life[at[c]] = "gone"
  /\ GoTo(c, "end")
  /\ UNCHANGED <<engines, pending, server, aborted_, at, snapshot, bars_sent, receiver,
                 history>>

SenderReturns(c) ==
  /\ sender[c] = "end" /\ holds[c] = {}
  /\ GoTo(c, "done")
  /\ UNCHANGED <<engines, pending, server, aborted_, at, snapshot, bars_sent, receiver,
                 history>>

------------------------------------------------------------------------------
(* The receiving thread                                                    *)

\* reading or answering fails: set_aborted finds aborted_ unset
ReceiveFails(c) ==
  /\ receiver[c] = "run"
  /\ ~aborted_[c]
  /\ receiver' = [receiver EXCEPT ![c] = "set"]
  /\ UNCHANGED <<engines, pending, server, aborted_, sender, at, snapshot, bars_sent,
                 history>>

\* the loop ends: aborted by the other thread or canceled ...
ReceiverStops(c) ==
  /\ receiver[c] = "run"
  /\ Stopped(c)
  /\ receiver' = [receiver EXCEPT ![c] = "done"]
  /\ UNCHANGED <<engines, pending, server, aborted_, sender, at, snapshot, bars_sent,
                 history>>

\* ... or a message that cannot be parsed; the context is not aborted
ReceiverGivesUp(c) ==
  /\ receiver[c] = "run"
  /\ ~aborted_[c]
  /\ receiver' = [receiver EXCEPT ![c] = "done"]
  /\ UNCHANGED <<engines, pending, server, aborted_, sender, at, snapshot, bars_sent,
                 history>>

------------------------------------------------------------------------------
(* The cleanup thread                                                      *)

CleanupLoop ==
  /\ cleanup = "loop"
  /\ cleanup' = IF shutdown_ THEN "done" ELSE "wait"
  /\ UNCHANGED <<engines, pending, context, abort_event_, ending, threads, history>>

\* abort_event_.wait(): signalled, or woken for no reason
CleanupWakes ==
  /\ cleanup = "wait"
  /\ abort_event_' = FALSE
  /\ cleanup' = IF shutdown_ THEN "done" ELSE "scan"
  /\ UNCHANGED <<engines, pending, context, ending, threads, history>>

\* under list_lock_: drop the aborted contexts from the list ...
Scan ==
  /\ cleanup = "scan"
  /\ LET dead == {c \in Client : context[c] = "listed" /\ aborted_[c]}
     IN /\ context' = [c \in Client |-> IF c \in dead THEN "dying" ELSE context[c]]
        /\ cleanup' = IF dead = {} THEN "loop" ELSE "join"
  /\ UNCHANGED <<engines, pending, abort_event_, ending, threads, history>>

\* mutant: the destructor does not wake the sending thread
CancelSilently(c) ==
  /\ context[c] = "dying"
  /\ \A d \in Client : context[d] # "canceled" /\ (d < c => context[d] # "dying")
  /\ context' = [context EXCEPT ![c] = "canceled"]
  /\ UNCHANGED <<engines, pending, abort_event_, cleanup, ending, threads, history>>

\* ... and, still under it, run ~gui_context of each: cancel and wake ...
Cancel(c) ==
  /\ context[c] = "dying"
  /\ \A d \in Client : context[d] # "canceled" /\ (d < c => context[d] # "dying")
  /\ context' = [context EXCEPT ![c] = "canceled"]
  /\ SignalData({c})
  /\ UNCHANGED <<engines, bars_, orders_, latest, abort_event_, cleanup, ending, threads,
                 history>>

\* ... and join its two threads; the context and what waited in it are gone
Join(c) ==
  /\ context[c] = "canceled"
  /\ sender[c] = "done" /\ receiver[c] = "done"
  /\ context' = [context EXCEPT ![c] = "gone"]
  /\ LET more == \E d \in Client : context[d] = "dying"
     IN /\ cleanup' = IF cleanup = "join" /\ ~more THEN "loop" ELSE cleanup
        /\ exit' = IF exit = "destroy" /\ ~more THEN "gone" ELSE exit
  /\ bars_' = [bars_ EXCEPT ![c] = Nothing[c]]
  /\ orders_' = [orders_ EXCEPT ![c] = Nothing[c]]
  /\ ticks_' = [ticks_ EXCEPT ![c] = Zero] /\ info_' = [info_ EXCEPT ![c] = Zero]
  /\ data_event_' = [data_event_ EXCEPT ![c] = FALSE]
  /\ UNCHANGED <<engines, abort_event_, shutdown_, owners, threads, history>>

------------------------------------------------------------------------------
(* The end of the program: main returns, and ~engine_registry and then     *)
(* ~gui_server run                                                         *)

Ends(from, to) == exit = from /\ exit' = to

Exit ==
  /\ MayExit
  /\ Ends("no", "registry")
  /\ UNCHANGED <<engines, pending, context, abort_event_, cleanup, shutdown_, owners, threads,
                 history>>

\* the main thread is in an engine's destructor
MainDestroys ==
  \E s \in Symbol : /\ life[s] \in {"orders", "data"}
                    /\ \A c \in Client : ~(sender[c] = "destroy" /\ at[c] = s)

\* ~engine_registry: an engine that no sending thread owns is destroyed
DropEngine(s) ==
  /\ exit = "registry" /\ ~MainDestroys
  /\ s \in registered
  /\ registered' = registered \ {s}
  /\ life' = IF \E c \in Client : s \in holds[c] THEN life
                                                 ELSE [life EXCEPT ![s] = "orders"]
  /\ UNCHANGED <<engines, pending, context, abort_event_, cleanup, shutdown_, exit, holds,
                 threads, history>>

\* ~gui_server
Shutdown ==
  /\ registered = {} /\ ~MainDestroys
  /\ Ends("registry", "signal")
  /\ shutdown_' = TRUE
  /\ UNCHANGED <<engines, pending, context, abort_event_, cleanup, owners, threads, history>>

\* mutant: the cleanup thread is not woken
SignalNobody ==
  /\ Ends("signal", "server")
  /\ UNCHANGED <<engines, pending, context, abort_event_, cleanup, shutdown_, owners, threads,
                 history>>

SignalCleanup ==
  /\ Ends("signal", "server")
  /\ abort_event_' = TRUE
  /\ UNCHANGED <<engines, pending, context, cleanup, shutdown_, owners, threads, history>>

\* the server thread looks at shutdown_ every 100 ms
JoinServerThread ==
  /\ Ends("server", "join")
  /\ UNCHANGED <<engines, pending, context, abort_event_, cleanup, shutdown_, owners, threads,
                 history>>

\* then the members go, the last declared first, and ~gui_context runs for every
\* context that is left, as in the cleanup thread but without list_lock_
JoinCleanupThread ==
  /\ cleanup = "done"
  /\ LET left == {c \in Client : context[c] = "listed"}
     IN /\ context' = [c \in Client |-> IF c \in left THEN "dying" ELSE context[c]]
        /\ Ends("join", IF left = {} THEN "gone" ELSE "destroy")
  /\ UNCHANGED <<engines, pending, abort_event_, cleanup, shutdown_, owners, threads, history>>

DestroyServer == Shutdown \/ SignalCleanup \/ JoinServerThread \/ JoinCleanupThread

------------------------------------------------------------------------------
Initialize(c) ==
  GetEngines(c) \/ TakeSnapshot(c) \/ MergeBars(c) \/ AddOrders(c) \/ GetInfo(c) \/ AddInfo(c)

SendLoop(c) ==
  \/ SendBars(c) \/ SendOrders(c) \/ NoOrders(c) \/ SendInfo(c) \/ SendTicks(c)
  \/ EnterWait(c) \/ WakeUp(c)

EndSending(c) == Release(c) \/ EngineGone(c) \/ SenderReturns(c)

DestroyContext(c) == Cancel(c) \/ Join(c)

OnOrder(s) == AddOrder(s) \/ SaveOrder(s)

OnData(s) == PassBar(s) \/ GiveTick(s) \/ TellInfo(s) \/ SaveInfo(s)

DestroyEngine(s) == JoinOrderWorker(s) \/ JoinDataWorker(s)

Next ==
  \/ \E s \in Symbol : \/ TakeOrder(s) \/ OnOrder(s) \/ PutBar(s) \/ TakeTick(s) \/ OnData(s)
                       \/ DestroyEngine(s) \/ DropEngine(s)
  \/ \E c \in Client : \/ Accept(c) \/ Initialize(c) \/ SendLoop(c) \/ TimeOut(c)
                       \/ EndSending(c) \/ SetAborted(c) \/ OnAbort(c)
                       \/ ReceiveFails(c) \/ ReceiverStops(c) \/ ReceiverGivesUp(c)
                       \/ DestroyContext(c)
  \/ CleanupLoop \/ CleanupWakes \/ Scan
  \/ Exit \/ DestroyServer

Spec == Init /\ [][Next]_vars

(***************************************************************************)
(* The threads are scheduled, and a write ends (it has a time limit).      *)
(* Nothing forces an order, a bar, a client or a failure, the 1 s time-out *)
(* of a sending thread, or the cleanup thread to wake without a signal.    *)
(***************************************************************************)
FairSpec ==
  /\ Spec
  /\ \A s \in Symbol : /\ WF_vars(OnOrder(s))
                       /\ WF_vars(OnData(s))
                       /\ WF_vars(DestroyEngine(s))
  /\ \A c \in Client : /\ WF_vars(Initialize(c) \/ SendLoop(c) \/ EndSending(c))
                       /\ WF_vars(SetAborted(c) \/ OnAbort(c))
                       /\ WF_vars(ReceiverStops(c))
                       /\ WF_vars(DestroyContext(c))
  /\ WF_vars(CleanupLoop \/ (abort_event_ /\ CleanupWakes) \/ Scan)
  /\ WF_vars((\E s \in Symbol : DropEngine(s)) \/ DestroyServer)

------------------------------------------------------------------------------
(* Properties                                                              *)

\* connected as far as the server knows, and past initialize
Live(c) ==
  /\ c \in Reached
  /\ holds[c] = Symbol
  /\ sender[c] \in {"bars", "orders", "info", "ticks", "wait", "blocked"}

\* what a client has of a symbol: received, or waiting to be sent
Orders(c, s) == got_orders[c][s] \o orders_[c][s]
BarsOf(c, s) == got_bars[c][s] \o bars_[c][s]

\* A client learns of the order events of a symbol in order and of none twice,
\* although what the context copies while it initialises overlaps with what
\* arrives live (add_orders).
OrdersJoin ==
  \A c \in Client, s \in Symbol :
    \A i, j \in DOMAIN Orders(c, s) : i < j => Orders(c, s)[i] < Orders(c, s)[j]

\* The bars of the only symbol reach a client in the order of time and each once,
\* wherever the snapshot ends and the live bars begin (add_bars).  One bar may come
\* twice in a row: put into the collector before the snapshot, sent with it, and
\* passed on only then.  With several symbols send_bars mixes their bars (OwnSymbol).
BarsJoin ==
  \A c \in Client, s \in Symbol :
    \E k \in 0..Len(got_bars[c][s]) : \A i, j \in DOMAIN BarsOf(c, s) : i < j =>
      \/ BarsOf(c, s)[i][2] < BarsOf(c, s)[j][2]
      \/ i = k /\ j = k + 1 /\ BarsOf(c, s)[i][2] = BarsOf(c, s)[j][2]

\* A context that has joined snapshot and live events lacks at most one order
\* event of a symbol: the one that was between add_order and save_order when
\* the context took its snapshot.
AtMostOneMissed ==
  \A c \in Client, s \in Symbol :
    Live(c) => Cardinality((1..announced[s]) \ Range(Orders(c, s))) <= 1

\* what a client has newest
Newest(got, waiting) == IF waiting = 0 THEN got ELSE waiting

\* Ticks and infos may overwrite each other, but a client that has any tick of a
\* symbol has the latest price to the thousandth (received, or waiting to be
\* sent), and from the first info after it has initialised it has the latest info
\* too.  (Before, initialize may have put an older info in place of a newer one.)
LatestFresh ==
  \A c \in Client, s \in Symbol : Live(c) =>
    /\ LET tick == Newest(got_tick[c][s], ticks_[c][s])
       IN tick = 0 \/ Price(tick) = Price(given[s])
    /\ \/ Newest(got_info[c][s], info_[c][s]) = told[s]
       \/ told[s] = joined[c][s]

\* An order event that waits in an initialised context is sent unless the
\* client is given up: no wake-up of the sending thread is lost.
EventuallySent ==
  \A c \in Client, s \in Symbol : [](\A o \in 1..MaxOrders :
    Live(c) /\ o \in Range(orders_[c][s])
      => <>(Stopped(c) \/ o \in Range(got_orders[c][s])))

\* A tick or an info that waits in an initialised context is sent, or a later one
\* in its place, unless the client is given up: ticks and infos come last in the
\* loop and are taken back whenever a newer one arrives, but none waits for ever.
LatestSent ==
  \A c \in Client, s \in Symbol : [](\A t \in 1..MaxTicks :
    /\ Live(c) /\ ticks_[c][s] = t => <>(Stopped(c) \/ got_tick[c][s] >= t)
    /\ Live(c) /\ info_[c][s] = t => <>(Stopped(c) \/ got_info[c][s] >= t))

\* The circle the code can close at the end of the program: the cleanup thread
\* holds list_lock_ and joins a sending thread, which had the last engine_ptr and is
\* in ~fx_engine, which joins a worker, which waits for list_lock_.
LockCycle ==
  /\ cleanup = "join"
  /\ \E c \in Client :
       /\ context[c] = "canceled" /\ sender[c] = "destroy"
       /\ \/ life[at[c]] = "orders" /\ order_worker[at[c]] = "add"
          \/ life[at[c]] = "data" /\ data_worker[at[c]] \in {"bar", "tick", "info"}

\* While the program runs, a context whose connection failed is destroyed, its two
\* threads joined, whichever thread noticed, or both at once, and whatever the other
\* one was waiting for.  (Of the contexts that are left when it ends, ExitReturns.)
AbortedDestroyed == \A c \in Client : aborted_[c] ~> context[c] = "gone" \/ exit # "no"

\* The cleanup thread joins the threads of a context while it holds list_lock_,
\* on which every engine's workers and the accepting thread then wait; the lock
\* always becomes free again, unless LockCycle closes.
ListLockReturns == []<>(ListLockFree \/ LockCycle)

\* The program ends, whatever the cleanup thread, the contexts it is destroying, the
\* engines' workers and the threads of connected clients are at, unless LockCycle
\* closes.
ExitReturns == exit # "no" ~> exit = "gone" \/ LockCycle

\* "terminate" (ctrl_handler.cpp): once told to, the program ends.
Terminates == exit # "no" ~> exit = "gone"

\* "all data sent" (gui_context.cpp, before data_event_.wait): the client has
\* every order event and every bar the server knows, under its own symbol.
AllDataSent ==
  \A c \in Client, s \in Symbol :
    sender[c] = "wait" /\ ~data_event_[c] /\ ~aborted_[c] =>
      /\ 1..saved[s] \subseteq Range(got_orders[c][s])
      /\ {<<s, t>> : t \in 1..passed[s]} \subseteq Range(got_bars[c][s])

\* "all data sent" (gui_context.cpp): the bars of a symbol that were in the collector
\* when the client connected were sent before those that came live.
SnapshotSent ==
  \A c \in Client, s \in Symbol :
    sender[c] = "wait" /\ ~data_event_[c] /\ ~aborted_[c] /\ got_bars[c][s] # <<>> =>
      got_bars[c][s][1] = <<s, 1>>

\* What a client receives as the bars of a symbol are bars of that symbol, although
\* the bars of several symbols may wait in one context.
OwnSymbol ==
  \A c \in Client, s \in Symbol :
    \A i \in DOMAIN got_bars[c][s] : got_bars[c][s][i][1] = s
==============================================================================
