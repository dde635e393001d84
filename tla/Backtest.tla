------------------------------- MODULE Backtest -------------------------------
(***************************************************************************)
(* One backtest after the other: optimizer::run (or main, which does one   *)
(* run) makes an fx_engine, starts the feeder, waits for it, stops it,     *)
(* computes the statistics and destroys the engine.  The feeder thread     *)
(* (dummy_feeder, controlled_feeder, data_feeder, candle_factory) feeds    *)
(* ticks and the bars made of them to the engine's data_events_, whose one *)
(* worker handles them.  data_events_ is used as EventFifo describes it.   *)
(*                                                                         *)
(* Feeding one tick is one step: it only appends to data_events_, and the  *)
(* set of callbacks does not change while the feeder thread runs.  Times   *)
(* are minutes, prices points; the delays of controlled_feeder::sleep are  *)
(* left out.                                                               *)
(***************************************************************************)
EXTENDS Lists, FiniteSets, SequencesExt

CONSTANTS Data,        \* the ticks of the selected days: [time, bid]
          TimeFrames,  \* the keys of candle_factories_ in their order, in minutes
          Runs,        \* strategies the optimizer's generator makes
          Lookback,    \* lookback_minutes_ of the controlled feeder
          MaxFaults    \* bound: database errors and wake-ups without a signal

\* the time frames, as a set
Frames == Range(TimeFrames)

\* A tick is not before the end of the first candle after 1970, whose start, zero,
\* means that there is none.
ASSUME DataAssumption ==
  /\ Data \in Seq([time : Nat, bid : Nat])
  /\ \A i, j \in DOMAIN Data : i < j => Data[i].time <= Data[j].time
  /\ TimeFrames \in Seq(Nat \ {0}) /\ 1 \in Frames
  /\ \A i, j \in DOMAIN TimeFrames : i < j => TimeFrames[i] < TimeFrames[j]
  /\ \A i \in DOMAIN Data, tf \in Frames : tf <= Data[i].time
  /\ Runs \in Nat \ {0} /\ Lookback \in Nat /\ MaxFaults \in Nat

VARIABLES
  use_cache_,    \* configured: keep the ticks for the next run
  lookback_minutes_, \* configured: 0, or Lookback in main's one run
  run,           \* which strategy is tested
  owner,         \* where optimizer::run is
  running_, stop_event_, cache_, bar_count_, \* of the feeder
  feeder,        \* its thread: "off", "run" or "done"
  source,        \* what is left of the ticks its loop goes through
  from_cache,    \* it goes through the cache, not through the cursor
  bar_,          \* bar_[tf]: the candle under construction, t = 0 if none
  listening,     \* the engine's callback is among the feeder's callbacks
  data_events_,  \* the engine's queue
  open,          \* its destructor has not begun
  handling,      \* the event the worker handles: a sequence of at most one
  destroyed,     \* members of the engine that are destroyed
  faults,        \* database errors and wake-ups without a signal so far
  fed, handled,  \* history of the run: events fed, events handled
  seen           \* history of the run: events handled when the stats were made

feedervars == <<running_, stop_event_, cache_, bar_count_, feeder, source, from_cache, bar_>>
enginevars == <<listening, data_events_, open, handling, destroyed>>
history    == <<fed, handled, seen>>
config     == <<use_cache_, lookback_minutes_>>
vars == <<config, run, owner, feedervars, enginevars, faults, history>>

NoBar == [o |-> 0, h |-> 0, l |-> 0, c |-> 0, t |-> 0]

Init ==
  /\ use_cache_ \in BOOLEAN
  /\ lookback_minutes_ \in {0, Lookback}
  /\ run = 1
  /\ owner = "create"
  /\ running_ = FALSE /\ stop_event_ = FALSE /\ cache_ = <<>> /\ bar_count_ = 0
  /\ feeder = "off" /\ source = <<>> /\ from_cache = FALSE
  /\ bar_ = [tf \in Frames |-> NoBar]
  /\ listening = FALSE /\ data_events_ = <<>> /\ open = FALSE /\ handling = <<>>
  /\ destroyed = {} /\ faults = 0
  /\ fed = <<>> /\ handled = <<>> /\ seen = 0

\* the generator's strategies; main tests one, with the controlled feeder
LastRun == IF lookback_minutes_ = 0 THEN Runs ELSE 1

\* the ticks that the loop of the feeder goes through, and how many it has passed
Loop   == IF from_cache THEN cache_ ELSE Data
Passed == Len(Loop) - Len(source)

Prices == {Data[i].bid : i \in DOMAIN Data}

\* The feeder runs between start() and stop(); what it keeps is what the database
\* delivered, and it is at one place of its ticks; no event is lost while the queue
\* is there.
TypeOK ==
  /\ owner \in {"create", "start", "wait", "stop", "join_feeder", "stats", "remove",
                "members", "shutdown", "join", "end"}
  /\ run \in 1..Runs /\ faults \in 0..MaxFaults
  /\ feeder \in {"off", "run", "done"}
  /\ running_ = (feeder # "off" /\ owner # "join_feeder")
  /\ Len(cache_) <= Len(Data) /\ \A i \in DOMAIN cache_ : cache_[i] = Data[i]
  /\ ~use_cache_ => cache_ = <<>>
  /\ Passed >= 0 /\ \A i \in DOMAIN source : source[i] = Loop[Passed + i]
  /\ \A tf \in Frames :
       bar_[tf] # NoBar => {bar_[tf].o, bar_[tf].h, bar_[tf].l, bar_[tf].c} \subseteq Prices
  /\ fed = handled \o handling \o data_events_ \/ ~open
  /\ seen \in 0..Len(handled)

------------------------------------------------------------------------------
(* candle_factory and data_feeder::on_tick                                 *)

Start(tf, tick) == (tick.time \div tf) * tf

\* put_tick: the tick ends the candle and on_bar_ is called
EndsBar(tf, tick) == Start(tf, tick) # bar_[tf].t /\ bar_[tf].t > 0

\* the state of the candle after it
PutTick(tf, tick) ==
  LET b == bar_[tf] IN
  IF Start(tf, tick) # b.t
    THEN [o |-> tick.bid, h |-> tick.bid, l |-> tick.bid, c |-> tick.bid,
          t |-> Start(tf, tick)]
    ELSE [b EXCEPT !.c = tick.bid,
                   !.h = IF tick.bid > @ THEN tick.bid ELSE @,
                   !.l = IF tick.bid < @ THEN tick.bid ELSE @]

\* the bars a tick ends, in the order of the time frames
BarEvents(tick) ==
  LET ended == Filter(TimeFrames, {tf \in Frames : EndsBar(tf, tick)})
  IN [i \in DOMAIN ended |-> [kind |-> "bar", tf |-> ended[i], bar |-> bar_[ended[i]]]]

IsWarmingUp == lookback_minutes_ > 0 /\ bar_count_ < lookback_minutes_

\* mutant: the tick is pushed before the bars it ends
EventsOfTickFirst(tick) ==
  (IF IsWarmingUp THEN <<>> ELSE <<[kind |-> "tick", tick |-> tick]>>) \o BarEvents(tick)

\* what on_tick pushes; is_warming_up is asked before the candles are fed
EventsOf(tick) ==
  BarEvents(tick) \o IF IsWarmingUp THEN <<>> ELSE <<[kind |-> "tick", tick |-> tick]>>

------------------------------------------------------------------------------
(* The feeder thread: run()                                                *)

\* mutant: only ticks that end no bar are kept
CachedWithinBar(tick) ==
  IF use_cache_ /\ ~from_cache /\ BarEvents(tick) = <<>> THEN Append(cache_, tick) ELSE cache_

\* the ticks of the cursor are kept for the next run
Cached(tick) == IF use_cache_ /\ ~from_cache THEN Append(cache_, tick) ELSE cache_

Feed ==
  /\ feeder = "run" /\ running_ /\ source # <<>>
  /\ LET tick   == Head(source)
         events == IF listening THEN EventsOf(tick) ELSE <<>>
     IN /\ source' = Tail(source)
        /\ cache_' = Cached(tick)
        /\ bar_' = [tf \in Frames |-> PutTick(tf, tick)]
        /\ bar_count_' = bar_count_ + IF EndsBar(1, tick) THEN 1 ELSE 0
        /\ data_events_' = data_events_ \o events
        /\ fed' = fed \o events
  /\ UNCHANGED <<config, run, owner, running_, stop_event_, feeder, from_cache,
                 listening, open, handling, destroyed, faults, handled, seen>>

\* mutant: an exception leaves run() without the signal
EndFeedSilently ==
  /\ feeder = "run"
  /\ feeder' = "done"
  /\ \/ (source = <<>> \/ ~running_) /\ stop_event_' = TRUE /\ UNCHANGED faults
     \/ ~from_cache /\ faults < MaxFaults /\ faults' = faults + 1 /\ UNCHANGED stop_event_
  /\ UNCHANGED <<config, run, owner, running_, cache_, bar_count_, source, from_cache,
                 bar_, enginevars, history>>

\* the ticks are used up, or the cursor throws
EndFeed ==
  /\ feeder = "run"
  /\ \/ (source = <<>> \/ ~running_) /\ UNCHANGED faults
     \/ ~from_cache /\ faults < MaxFaults /\ faults' = faults + 1
  /\ stop_event_' = TRUE
  /\ feeder' = "done"
  /\ UNCHANGED <<config, run, owner, running_, cache_, bar_count_, source, from_cache,
                 bar_, enginevars, history>>

------------------------------------------------------------------------------
(* The worker of data_events_, as in EventFifo                             *)

\* mutant: the event is not removed
TakeWithoutRemoving ==
  /\ open /\ handling = <<>> /\ data_events_ # <<>>
  /\ handling' = <<Head(data_events_)>>
  /\ UNCHANGED <<config, run, owner, feedervars, listening, data_events_, open, destroyed,
                 faults, history>>

Take ==
  /\ open /\ handling = <<>> /\ data_events_ # <<>>
  /\ handling' = <<Head(data_events_)>>
  /\ data_events_' = Tail(data_events_)
  /\ UNCHANGED <<config, run, owner, feedervars, listening, open, destroyed, faults,
                 history>>

\* data_event_callback::on_tick or on_bar returns
Handle ==
  /\ handling # <<>>
  /\ handled' = handled \o handling
  /\ handling' = <<>>
  /\ UNCHANGED <<config, run, owner, feedervars, listening, data_events_, open,
                 destroyed, faults, fed, seen>>

------------------------------------------------------------------------------
(* optimizer::run                                                          *)

Goes(from, to) == owner = from /\ owner' = to

\* the constructor of the engine
CreateEngine ==
  /\ Goes("create", "start")
  /\ listening' = TRUE /\ open' = TRUE
  /\ data_events_' = <<>> /\ handling' = <<>> /\ destroyed' = {}
  /\ fed' = <<>> /\ handled' = <<>> /\ seen' = 0
  /\ UNCHANGED <<config, run, feedervars, faults>>

\* start(): the ticks come from the database unless some are cached
StartFeeder ==
  /\ Goes("start", "wait")
  /\ ~running_
  /\ from_cache' = (cache_ # <<>>)
  /\ source' = IF cache_ # <<>> THEN cache_ ELSE Data
  /\ running_' = TRUE
  /\ feeder' = "run"
  /\ UNCHANGED <<config, run, stop_event_, cache_, bar_count_, bar_, enginevars, faults,
                 history>>

\* the query throws; nobody looks at what start() returns
StartFails ==
  /\ Goes("start", "wait")
  /\ cache_ = <<>> /\ faults < MaxFaults
  /\ faults' = faults + 1
  /\ UNCHANGED <<config, run, feedervars, enginevars, history>>

\* on_start: wait_for_stop.  event::wait() does not look at signaled_ again when
\* the condition variable wakes it for no reason.
WaitForStop ==
  /\ Goes("wait", "stop")
  /\ IF stop_event_ THEN UNCHANGED faults
                    ELSE faults < MaxFaults /\ faults' = faults + 1
  /\ stop_event_' = FALSE
  /\ UNCHANGED <<config, run, running_, cache_, bar_count_, feeder, source, from_cache,
                 bar_, enginevars, history>>

\* stop(): nothing when start() failed, else the loop is told to end ...
StopFeeder ==
  /\ Goes("stop", IF running_ THEN "join_feeder" ELSE "stats")
  /\ running_' = FALSE
  /\ UNCHANGED <<config, run, stop_event_, cache_, bar_count_, feeder, source, from_cache,
                 bar_, enginevars, faults, history>>

\* ... and the thread is joined
JoinFeeder ==
  /\ Goes("join_feeder", "stats")
  /\ feeder = "done"
  /\ feeder' = "off"
  /\ UNCHANGED <<config, run, running_, stop_event_, cache_, bar_count_, source,
                 from_cache, bar_, enginevars, faults, history>>

\* calc_closed_trades_stats: what the strategy has handled so far
CalcStats ==
  /\ Goes("stats", "remove")
  /\ seen' = Len(handled)
  /\ UNCHANGED <<config, run, feedervars, enginevars, faults, fed, handled>>

(* ~fx_engine, then its members in the reverse order of their declaration  *)

RemoveCallback ==
  /\ Goes("remove", "members")
  /\ listening' = FALSE
  /\ UNCHANGED <<config, run, feedervars, data_events_, open, handling, destroyed,
                 faults, history>>

\* mutant: latest_tick_ and bars_ are declared after data_events_
DestroyTooMany ==
  /\ Goes("members", "shutdown")
  /\ destroyed' = {"lock_", "info_data_", "order_events_", "latest_tick_", "bars_"}
  /\ UNCHANGED <<config, run, feedervars, listening, data_events_, open, handling,
                 faults, history>>

\* the members declared after data_events_
DestroyMembers ==
  /\ Goes("members", "shutdown")
  /\ destroyed' = {"lock_", "info_data_", "order_events_"}
  /\ UNCHANGED <<config, run, feedervars, listening, data_events_, open, handling,
                 faults, history>>

\* ~data_event_queue begins; the events that wait are dropped ...
ShutDownQueue ==
  /\ Goes("shutdown", "join")
  /\ open' = FALSE
  /\ data_events_' = <<>>
  /\ UNCHANGED <<config, run, feedervars, listening, handling, destroyed, faults, history>>

\* ... and the worker is joined; then the other members, and the next strategy
JoinWorker ==
  /\ Goes("join", IF run < LastRun THEN "create" ELSE "end")
  /\ handling = <<>>
  /\ destroyed' = destroyed \cup {"data_events_", "latest_tick_", "bars_", "order lists"}
  /\ run' = IF run < LastRun THEN run + 1 ELSE run
  /\ UNCHANGED <<config, feedervars, listening, data_events_, open, handling, faults,
                 history>>

Optimizer == \/ CreateEngine \/ StartFeeder \/ WaitForStop \/ StopFeeder \/ JoinFeeder
             \/ CalcStats \/ RemoveCallback \/ DestroyMembers \/ ShutDownQueue \/ JoinWorker

Next == Feed \/ EndFeed \/ Take \/ Handle \/ Optimizer \/ StartFails

Spec == Init /\ [][Next]_vars

(***************************************************************************)
(* The three threads are scheduled and handlers return.  Nothing forces    *)
(* the database to fail or a wait to end without its signal.               *)
(***************************************************************************)
FairSpec == Spec /\ WF_vars(Feed \/ EndFeed) /\ WF_vars(Take \/ Handle)
                 /\ WF_vars(Optimizer /\ UNCHANGED faults)

------------------------------------------------------------------------------
(* Properties                                                              *)

IsTick(e) == e.kind = "tick"
\* how many ticks were fed up to the i-th event, and how many one-minute bars
\* before it
TicksUpTo(i)  == Cardinality({j \in 1..i : IsTick(fed[j])})
MinuteBars(i) == Cardinality({j \in 1..(i - 1) : fed[j].kind = "bar" /\ fed[j].tf = 1})

\* The strategy of every run is fed the ticks of the data in order, none left
\* out and none twice, from the first one on unless a look-back is configured:
\* also when they come from the cache an earlier run filled, and also when the
\* database failed in the middle of that run.  With a look-back configured it sees
\* no tick before it was given that many one-minute bars.
TicksInOrder ==
  \E k \in 0..Len(Data) :
    /\ lookback_minutes_ = 0 => k = 0
    /\ k + TicksUpTo(Len(fed)) <= Len(Data)
    /\ owner = "stats" /\ faults = 0 => k + TicksUpTo(Len(fed)) = Len(Data)
    /\ \A i \in DOMAIN fed : IsTick(fed[i]) => /\ fed[i].tick = Data[k + TicksUpTo(i)]
                                              /\ MinuteBars(i) >= lookback_minutes_

\* What a candle must be: the first, the last, the highest and the lowest price
\* of the first n ticks, as far as they are of its period.
SumsUp(bar, tf, n) ==
  LET period == {i \in 1..n : Start(tf, Data[i]) = bar.t}
  IN /\ \E i \in period : bar.o = Data[i].bid /\ \A j \in period : i <= j
     /\ \E i \in period : bar.c = Data[i].bid /\ \A j \in period : j <= i
     /\ \E i \in period : bar.h = Data[i].bid /\ \A j \in period : Data[j].bid <= bar.h
     /\ \E i \in period : bar.l = Data[i].bid /\ \A j \in period : bar.l <= Data[j].bid

\* The candle factories are not reset between two runs: the first bar of a time
\* frame in a later run is the last candle of the run before.
LeftOver(i) ==
  run > 1 /\ \A j \in 1..(i - 1) : fed[j].kind = "bar" => fed[j].tf # fed[i].tf

\* A bar the strategy is given sums up exactly the ticks of its period, is fed
\* after the last tick of that period and before the first later one: a
\* strategy never sees the future in a bar.  (Left-over bars excepted.)
BarsExact ==
  \A i \in DOMAIN fed : fed[i].kind = "bar" /\ ~LeftOver(i) =>
    /\ SumsUp(fed[i].bar, fed[i].tf, Len(Data))
    /\ \A j \in DOMAIN fed : IsTick(fed[j]) =>
         (j < i <=> Start(fed[i].tf, fed[j].tick) <= fed[i].bar.t)

\* "bars_ must be declared before data_events_" (fx_engine.h): the worker, which
\* goes on while the engine is being destroyed, never touches a destroyed
\* collector or tick.  lock_, info_data_ and order_events_ are declared after
\* data_events_ and have no such protection; they are safe in a run whose events
\* had all been handled when its statistics were made, because no thread is left
\* that could feed another one.
TeardownSafe ==
  handling # <<>> =>
    /\ {"bars_", "latest_tick_"} \cap destroyed = {}
    /\ destroyed # {} => seen < Len(fed)

\* A run whose feeder was started ends: the feeder signals the end of the data
\* or of the database, and the destructor of the engine gets past its worker.
RunEnds == feeder = "run" ~> owner \in {"create", "end"}

\* "stats for closed trades" (strategy.h): the statistics of a run are those of
\* all the trades it closes, so they are made when every tick and bar that the
\* feeder delivered has been handled.
StatsCoverRun == owner = "remove" => seen = Len(fed)
==============================================================================
