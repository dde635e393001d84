----------------------------- MODULE BacktestProofs -----------------------------
(***************************************************************************)
(* Theorems about Backtest for any data, time frames and number of runs,   *)
(* any look-back and any number of failures.                               *)
(***************************************************************************)
EXTENDS Backtest, SequenceLemmas, FiniteSetTheorems

Ticks == Range(Data)
Bar   == [o : Nat, h : Nat, l : Nat, c : Nat, t : Nat]
Event == [kind : {"tick"}, tick : Ticks] \cup [kind : {"bar"}, tf : Frames, bar : Bar]

Types ==
  /\ use_cache_ \in BOOLEAN /\ lookback_minutes_ \in Nat
  /\ run \in 1..Runs /\ faults \in 0..MaxFaults /\ seen \in Nat /\ bar_count_ \in Nat
  /\ owner \in {"create", "start", "wait", "stop", "join_feeder", "stats", "remove",
                "members", "shutdown", "join", "end"}
  /\ feeder \in {"off", "run", "done"}
  /\ running_ \in BOOLEAN /\ stop_event_ \in BOOLEAN /\ from_cache \in BOOLEAN
  /\ listening \in BOOLEAN /\ open \in BOOLEAN
  /\ cache_ \in Seq(Ticks) /\ source \in Seq(Ticks)
  /\ bar_ \in [Frames -> Bar]
  /\ fed \in Seq(Event) /\ handled \in Seq(Event)
  /\ handling \in Seq(Event) /\ data_events_ \in Seq(Event)

\* Where optimizer::run is says whether the feeder runs, which members of the engine
\* are there, and whether its worker may work.
Control ==
  /\ running_ <=> feeder # "off" /\ owner # "join_feeder"
  /\ feeder # "off" => owner \in {"wait", "stop", "join_feeder"}
  /\ owner = "join_feeder" => feeder # "off"
  /\ listening <=> owner \in {"start", "wait", "stop", "join_feeder", "stats", "remove"}
  /\ open <=> owner \in {"start", "wait", "stop", "join_feeder", "stats", "remove",
                         "members", "shutdown"}
  /\ owner \in {"start", "wait", "stop", "join_feeder", "stats", "remove", "members"}
       => destroyed = {}
  /\ owner \in {"shutdown", "join"}
       => destroyed = {"lock_", "info_data_", "order_events_"}
  /\ owner \in {"create", "end"} => handling = <<>>
  /\ owner \in {"start", "wait", "stop", "join_feeder", "stats"} => seen = 0
  /\ lookback_minutes_ > 0 => run = 1

\* No event is lost before the queue is shut down, and none is handled that was not fed.
Accounted ==
  /\ open => fed = handled \o handling \o data_events_
  /\ Len(handled) + Len(handling) <= Len(fed)
  /\ seen <= Len(handled)

\* The cache is the beginning of the data and the source the end of what the loop goes
\* through; while the cursor is read the cache is what was read.
Streams ==
  /\ Len(cache_) <= Len(Data) /\ \A i \in DOMAIN cache_ : cache_[i] = Data[i]
  /\ ~use_cache_ => cache_ = <<>>
  /\ Len(source) <= Len(Loop)
  /\ \A i \in DOMAIN source : source[i] = Loop[Passed + i]
  /\ feeder # "off" /\ use_cache_ /\ ~from_cache => Len(cache_) = Passed

\* A candle that was begun has prices of the data.
Candles == \A tf \in Frames : bar_[tf].t > 0 =>
             {bar_[tf].o, bar_[tf].h, bar_[tf].l, bar_[tf].c} \subseteq Prices
NoCandle == \A tf \in Frames : bar_[tf].t = 0 => bar_[tf] = NoBar

\* Without a failure the feeder ends at the end of its ticks and is waited for.
Undisturbed ==
  faults = 0 =>
    /\ stop_event_ => feeder = "done" /\ owner = "wait"
    /\ owner = "wait" => feeder # "off"
    /\ owner = "wait" /\ feeder = "done" => stop_event_
    /\ owner \in {"stop", "join_feeder"} => feeder = "done"
    /\ feeder = "done" => source = <<>>
    /\ feeder # "off" /\ from_cache => Len(cache_) = Len(Data)
    /\ feeder = "off" => cache_ = <<>> \/ Len(cache_) = Len(Data)

\* the number of ticks fed, and of one-minute bars
TicksFed == TicksUpTo(Len(fed))
BarsFed  == MinuteBars(Len(fed) + 1)

\* The k-th tick and those behind it were fed.
FedFrom(k) ==
  /\ lookback_minutes_ = 0 => k = 0
  /\ k + TicksFed <= Len(Data)
  /\ \A i \in DOMAIN fed : IsTick(fed[i]) => /\ fed[i].tick = Data[k + TicksUpTo(i)]
                                            /\ MinuteBars(i) >= lookback_minutes_
  /\ feeder # "off" => k + TicksFed = Passed
  /\ owner = "stats" /\ faults = 0 => k + TicksFed = Len(Data)

WarmUp ==
  /\ lookback_minutes_ > 0 /\ owner \in {"create", "start"} => bar_count_ = 0
  /\ lookback_minutes_ > 0 /\ feeder # "off" => BarsFed >= bar_count_
  /\ IsWarmingUp /\ feeder # "off" => TicksFed = 0
  /\ owner = "start" => fed = <<>>

Delivered == WarmUp /\ \E k \in 0..Len(Data) : FedFrom(k)

\* A bar of the time frame was fed in this run.
BarFed(tf) == \E j \in DOMAIN fed : fed[j].kind = "bar" /\ fed[j].tf = tf

\* The candle under construction is that of the latest tick, and if this run began it,
\* it sums up the ticks of its period so far.
UnderConstruction ==
  feeder # "off" =>
    /\ Passed = 0 => fed = <<>> /\ (run = 1 => \A tf \in Frames : bar_[tf].t = 0)
    /\ Passed > 0 => \A tf \in Frames :
         /\ bar_[tf].t = Start(tf, Data[Passed])
         /\ run = 1 \/ BarFed(tf) => SumsUp(bar_[tf], tf, Passed)

\* What was fed is of the ticks that the feeder passed, and a bar of an earlier candle.
Past ==
  feeder # "off" =>
    \A i \in DOMAIN fed :
      /\ IsTick(fed[i]) => \E n \in 1..Passed : fed[i].tick = Data[n]
      /\ fed[i].kind = "bar" /\ ~LeftOver(i) =>
           Passed > 0 /\ fed[i].bar.t < Start(fed[i].tf, Data[Passed])

\* The first run begins without candles.
Unbegun == run = 1 /\ owner \in {"create", "start"} => \A tf \in Frames : bar_[tf].t = 0

------------------------------------------------------------------------------
(* The constants, the candles and the events of a tick                     *)

LEMMA Division ==
  ASSUME NEW n \in Nat, NEW m \in Nat \ {0}
  PROVE  /\ n \div m \in Nat /\ (n \div m) * m \in Nat
         /\ (n \div m) * m <= n /\ n < (n \div m) * m + m
         /\ m <= n => (n \div m) * m > 0
OBVIOUS

LEMMA Constants ==
  /\ Data \in Seq(Ticks) /\ Len(Data) \in Nat /\ DOMAIN Data = 1..Len(Data)
  /\ \A d \in Ticks : /\ d.time \in Nat /\ d.bid \in Nat /\ d.bid \in Prices
                      /\ \A tf \in Frames : tf <= d.time
  /\ Frames \subseteq Nat \ {0} /\ 1 \in Frames
  /\ TimeFrames \in Seq(Frames) /\ IsInjective(TimeFrames)
  /\ Runs \in Nat \ {0} /\ Lookback \in Nat /\ MaxFaults \in Nat
<1>1. /\ Data \in Seq([time : Nat, bid : Nat]) /\ TimeFrames \in Seq(Nat \ {0}) /\ 1 \in Frames
      /\ Runs \in Nat \ {0} /\ Lookback \in Nat /\ MaxFaults \in Nat
  BY DataAssumption
<1>2. /\ Len(Data) \in Nat /\ DOMAIN Data = 1..Len(Data)
      /\ \A i \in DOMAIN Data : Data[i] \in [time : Nat, bid : Nat]
      /\ Data \in Seq(Ticks)
  <2>1. PICK T : T = [time : Nat, bid : Nat]
    OBVIOUS
  <2>2. Data \in Seq(T)
    BY <1>1, <2>1
  <2>3. /\ Len(Data) \in Nat /\ DOMAIN Data = 1..Len(Data)
        /\ Data = [i \in 1..Len(Data) |-> Data[i]] /\ \A i \in DOMAIN Data : Data[i] \in T
    BY <2>2, LenProperties, ElementOfSeq
  <2>4. Data \in Seq(Ticks)
    BY <2>3, SeqDef DEF Ticks, Range
  <2>5. QED
    BY <2>1, <2>3, <2>4
<1>3. /\ DOMAIN TimeFrames = 1..Len(TimeFrames) /\ Len(TimeFrames) \in Nat
      /\ \A i \in DOMAIN TimeFrames : TimeFrames[i] \in Nat \ {0}
      /\ TimeFrames \in Seq(Frames)
  BY <1>1, LenProperties, ElementOfSeq, SeqDef DEF Frames, Range
<1>4. IsInjective(TimeFrames)
  <2>1. \A i, j \in DOMAIN TimeFrames : i < j => TimeFrames[i] < TimeFrames[j]
    BY DataAssumption
  <2>2. QED
    BY <1>3, <2>1 DEF IsInjective
<1>5. \A d \in Ticks : /\ d.time \in Nat /\ d.bid \in Nat /\ d.bid \in Prices
                       /\ \A tf \in Frames : tf <= d.time
  BY <1>2, DataAssumption DEF Ticks, Prices, Range
<1>6. Frames \subseteq Nat \ {0}
  BY <1>3 DEF Frames, Range
<1>7. QED
  BY <1>1, <1>2, <1>3, <1>4, <1>5, <1>6

\* The start of a candle is a time after zero.
LEMMA StartIsTime ==
  ASSUME NEW tf \in Frames, NEW tick \in Ticks
  PROVE  Start(tf, tick) \in Nat /\ Start(tf, tick) > 0
<1>1. PICK n, m : n = tick.time /\ m = tf
  OBVIOUS
<1>2. n \in Nat /\ m \in Nat \ {0} /\ m <= n
  BY <1>1, Constants
<1>3. (n \div m) * m \in Nat /\ (n \div m) * m > 0
  BY <1>2, Division
<1>4. QED
  BY <1>1, <1>3 DEF Start

\* A tick leaves a candle with prices of the data.
LEMMA CandleOfTick ==
  ASSUME Types, Candles, NoCandle, NEW tf \in Frames, NEW tick \in Ticks
  PROVE  /\ PutTick(tf, tick) \in Bar /\ PutTick(tf, tick).t = Start(tf, tick)
         /\ LET b == PutTick(tf, tick) IN {b.o, b.h, b.l, b.c} \subseteq Prices
<1>1. /\ bar_[tf] \in Bar /\ tick.bid \in Nat /\ tick.bid \in Prices
      /\ Start(tf, tick) \in Nat /\ Start(tf, tick) > 0
  BY Constants, StartIsTime DEF Types
<1>2. CASE Start(tf, tick) # bar_[tf].t
  <2>1. PutTick(tf, tick) = [o |-> tick.bid, h |-> tick.bid, l |-> tick.bid, c |-> tick.bid,
                             t |-> Start(tf, tick)]
    BY <1>2 DEF PutTick
  <2>2. QED
    BY <1>1, <2>1 DEF Bar
<1>3. CASE Start(tf, tick) = bar_[tf].t
  <2>1. PutTick(tf, tick) =
          [bar_[tf] EXCEPT !.c = tick.bid, !.h = IF tick.bid > @ THEN tick.bid ELSE @,
                           !.l = IF tick.bid < @ THEN tick.bid ELSE @]
    BY <1>3 DEF PutTick
  <2>2. PICK b \in Bar : b = bar_[tf]
    BY <1>1
  <2>3. {b.o, b.h, b.l, b.c} \subseteq Prices /\ b.t = Start(tf, tick)
    BY <1>1, <1>3, <2>2 DEF Candles
  <2>4. PICK p : p = PutTick(tf, tick)
    OBVIOUS
  <2>5. /\ p \in Bar /\ p.t = b.t /\ p.o = b.o /\ p.c = tick.bid
        /\ p.h \in {b.h, tick.bid} /\ p.l \in {b.l, tick.bid}
    BY <1>1, <2>1, <2>2, <2>4 DEF Bar
  <2>6. QED
    BY <1>1, <2>3, <2>4, <2>5
<1>4. QED
  BY <1>2, <1>3

\* The bars that a tick ends: of different time frames, and the one-minute bar is among
\* them if it is ended.
LEMMA BarsOfTick ==
  ASSUME Types, NEW tick \in Ticks
  PROVE  /\ BarEvents(tick) \in Seq(Event)
         /\ \A i \in DOMAIN BarEvents(tick) :
              LET e == BarEvents(tick)[i]
              IN e.kind = "bar" /\ e.tf \in Frames /\ EndsBar(e.tf, tick) /\ e.bar = bar_[e.tf]
         /\ EndsBar(1, tick) => \E i \in DOMAIN BarEvents(tick) : BarEvents(tick)[i].tf = 1
<1>1. PICK ended : ended = Filter(TimeFrames, {tf \in Frames : EndsBar(tf, tick)})
  OBVIOUS
<1>2. /\ ended \in Seq(Frames) /\ Range(ended) = {tf \in Frames : EndsBar(tf, tick)}
  <2>1. PICK S : S = {tf \in Frames : EndsBar(tf, tick)}
    OBVIOUS
  <2>2. Filter(TimeFrames, S) \in Seq(Frames) /\ Range(Filter(TimeFrames, S)) = Frames \cap S
    BY Constants, FilterProperties DEF Frames
  <2>3. QED
    BY <1>1, <2>1, <2>2
<1>3. BarEvents(tick) = [i \in DOMAIN ended |-> [kind |-> "bar", tf |-> ended[i],
                                                 bar |-> bar_[ended[i]]]]
  BY <1>1 DEF BarEvents
<1>4. /\ DOMAIN ended = 1..Len(ended) /\ Len(ended) \in Nat
      /\ \A i \in DOMAIN ended : ended[i] \in Frames /\ ended[i] \in Range(ended)
  BY <1>2, LenProperties, ElementOfSeq DEF Range
<1>5. \A i \in DOMAIN ended : bar_[ended[i]] \in Bar
  BY <1>4 DEF Types
<1>6. BarEvents(tick) \in Seq(Event)
  <2>1. \A i \in 1..Len(ended) : [kind |-> "bar", tf |-> ended[i], bar |-> bar_[ended[i]]] \in Event
    BY <1>4, <1>5 DEF Event
  <2>2. QED
    BY <1>3, <1>4, <2>1, SeqDef
<1>7. EndsBar(1, tick) => \E i \in DOMAIN ended : ended[i] = 1
  BY <1>2, Constants DEF Range
<1>8. QED
  BY <1>2, <1>3, <1>4, <1>6, <1>7

LEMMA EventsOfTick ==
  ASSUME Types, NEW tick \in Ticks
  PROVE  EventsOf(tick) \in Seq(Event)
<1>1. BarEvents(tick) \in Seq(Event)
  BY BarsOfTick
<1>2. <<[kind |-> "tick", tick |-> tick]>> \in Seq(Event)
  <2>1. PICK e : e = [kind |-> "tick", tick |-> tick]
    OBVIOUS
  <2>2. e \in Event
    BY <2>1 DEF Event
  <2>3. <<e>> \in Seq(Event)
    BY <2>2
  <2>4. QED
    BY <2>1, <2>3
<1>3. <<>> \in Seq(Event)
  BY EmptySeq
<1>4. PICK rest \in Seq(Event) : EventsOf(tick) = BarEvents(tick) \o rest
  BY <1>2, <1>3 DEF EventsOf
<1>5. QED
  BY <1>1, <1>4, ConcatProperties

\* What a tick of the feeder does, with names for the tick and its events.
Fed(tick, e) ==
  /\ tick = Head(source) /\ tick \in Ticks
  /\ e \in Seq(Event) /\ e = IF listening THEN EventsOf(tick) ELSE <<>>
  /\ feeder = "run" /\ running_ /\ source # <<>>
  /\ source' = Tail(source) /\ source' \in Seq(Ticks)
  /\ cache_' = Cached(tick) /\ cache_' \in Seq(Ticks)
  /\ bar_' = [tf \in Frames |-> PutTick(tf, tick)]
  /\ bar_count_' = bar_count_ + (IF EndsBar(1, tick) THEN 1 ELSE 0)
  /\ data_events_' = data_events_ \o e /\ data_events_' \in Seq(Event)
  /\ fed' = fed \o e /\ fed' \in Seq(Event)
  /\ UNCHANGED <<use_cache_, lookback_minutes_, run, owner, running_, stop_event_, feeder,
                 from_cache, listening, open, handling, destroyed, faults, handled, seen>>

LEMMA FeedFeeds ==
  ASSUME Types, Feed
  PROVE  \E tick, e : Fed(tick, e)
<1> USE DEF config, enginevars, feedervars, history
<1>1. source \in Seq(Ticks) /\ source # <<>>
  BY DEF Types, Feed
<1>2. Head(source) \in Ticks /\ Tail(source) \in Seq(Ticks)
  BY <1>1, HeadTailProperties
<1>3. PICK tick \in Ticks : tick = Head(source)
  BY <1>2
<1>4. PICK e : e = IF listening THEN EventsOf(tick) ELSE <<>>
  OBVIOUS
<1>5. e \in Seq(Event)
  BY <1>4, EventsOfTick, EmptySeq
<1>6. data_events_ \o e \in Seq(Event) /\ fed \o e \in Seq(Event)
  BY <1>5, ConcatProperties DEF Types
<1>7. Cached(tick) \in Seq(Ticks)
  <2>1. cache_ \in Seq(Ticks)
    BY DEF Types
  <2>2. Append(cache_, tick) \in Seq(Ticks)
    BY <2>1, AppendProperties
  <2>3. QED
    BY <2>1, <2>2 DEF Cached
<1>8. Fed(tick, e)
  BY <1>1, <1>2, <1>3, <1>4, <1>5, <1>6, <1>7 DEF Feed, Fed
<1>9. QED
  BY <1>8

LEMMA InitTypes == Init => Types /\ Control
<1> SUFFICES ASSUME Init PROVE Types /\ Control
  OBVIOUS
<1>1. <<>> \in Seq(Ticks) /\ <<>> \in Seq(Event)
  BY EmptySeq
<1>2. bar_ \in [Frames -> Bar]
  BY DEF Init, NoBar, Bar
<1>3. lookback_minutes_ \in Nat /\ run \in 1..Runs /\ faults \in 0..MaxFaults
  BY Constants DEF Init
<1>4. QED
  BY <1>1, <1>2, <1>3 DEF Init, Types, Control

LEMMA TypesStep == Types /\ Control /\ Candles /\ NoCandle /\ [Next]_vars => Types'
<1> USE DEF Types, config, enginevars, feedervars, history
<1> SUFFICES ASSUME Types, Control, Candles, NoCandle, [Next]_vars PROVE Types'
  OBVIOUS
<1>0. <<>> \in Seq(Ticks) /\ <<>> \in Seq(Event)
  BY EmptySeq
<1>1. CASE Feed
  <2>1. PICK tick, e : Fed(tick, e)
    BY <1>1, FeedFeeds
  <2>2. \A tf \in Frames : PutTick(tf, tick) \in Bar
    BY <2>1, CandleOfTick DEF Fed
  <2>3. bar_' \in [Frames -> Bar]
    BY <2>1, <2>2 DEF Fed
  <2>4. QED
    BY <2>1, <2>3 DEF Fed
<1>2. CASE EndFeed
  BY <1>2, Constants DEF EndFeed
<1>3. CASE Take
  <2>1. data_events_ # <<>> /\ data_events_ \in Seq(Event)
    BY <1>3 DEF Take
  <2>2. PICK x \in Event : x = Head(data_events_)
    BY <2>1, HeadTailProperties
  <2>3. <<x>> \in Seq(Event) /\ Tail(data_events_) \in Seq(Event)
    BY <2>1, <2>2, HeadTailProperties
  <2>4. QED
    BY <1>3, <2>2, <2>3 DEF Take
<1>4. CASE Handle
  <2>1. handled \o handling \in Seq(Event)
    BY ConcatProperties
  <2>2. QED
    BY <1>0, <1>4, <2>1 DEF Handle
<1>5. CASE CreateEngine
  BY <1>0, <1>5 DEF CreateEngine, Goes
<1>6. CASE StartFeeder
  BY <1>6, Constants DEF StartFeeder, Goes
<1>7. CASE StartFails
  BY <1>7, Constants DEF StartFails, Goes
<1>8. CASE WaitForStop
  <2>1. faults' = faults \/ (faults < MaxFaults /\ faults' = faults + 1)
    BY <1>8 DEF WaitForStop
  <2>2. faults' \in 0..MaxFaults
    BY <2>1, Constants
  <2>3. QED
    BY <1>8, <2>2 DEF WaitForStop, Goes
<1>9. CASE StopFeeder
  BY <1>9 DEF StopFeeder, Goes
<1>10. CASE JoinFeeder
  BY <1>10 DEF JoinFeeder, Goes
<1>11. CASE CalcStats
  BY <1>11, LenProperties DEF CalcStats, Goes
<1>12. CASE RemoveCallback
  BY <1>12 DEF RemoveCallback, Goes
<1>13. CASE DestroyMembers
  BY <1>13 DEF DestroyMembers, Goes
<1>14. CASE ShutDownQueue
  BY <1>0, <1>14 DEF ShutDownQueue, Goes
<1>15. CASE JoinWorker
  <2>1. LastRun \in {1, Runs} /\ run' = IF run < LastRun THEN run + 1 ELSE run
    BY <1>15 DEF JoinWorker, LastRun
  <2>2. run' \in 1..Runs
    BY <2>1, Constants
  <2>3. QED
    BY <1>15, <2>2 DEF JoinWorker, Goes
<1>16. CASE UNCHANGED vars
  BY <1>16 DEF vars
<1>17. QED
  BY <1>1, <1>2, <1>3, <1>4, <1>5, <1>6, <1>7, <1>8, <1>9, <1>10, <1>11, <1>12, <1>13, <1>14,
     <1>15, <1>16 DEF Next, Optimizer

LEMMA ControlStep == Types /\ Control /\ [Next]_vars => Control'
<1> USE DEF Control, config, enginevars, feedervars, history
<1> SUFFICES ASSUME Types, Control, [Next]_vars PROVE Control'
  OBVIOUS
<1>1. CASE Feed
  BY <1>1 DEF Feed
<1>2. CASE EndFeed
  BY <1>2 DEF EndFeed
<1>3. CASE Take
  BY <1>3 DEF Take
<1>4. CASE Handle
  BY <1>4 DEF Handle
<1>5. CASE CreateEngine
  BY <1>5 DEF CreateEngine, Goes
<1>6. CASE StartFeeder
  BY <1>6 DEF StartFeeder, Goes
<1>7. CASE StartFails
  BY <1>7 DEF StartFails, Goes
<1>8. CASE WaitForStop
  BY <1>8 DEF WaitForStop, Goes
<1>9. CASE StopFeeder
  BY <1>9 DEF StopFeeder, Goes
<1>10. CASE JoinFeeder
  BY <1>10 DEF JoinFeeder, Goes
<1>11. CASE CalcStats
  BY <1>11 DEF CalcStats, Goes
<1>12. CASE RemoveCallback
  BY <1>12 DEF RemoveCallback, Goes
<1>13. CASE DestroyMembers
  BY <1>13 DEF DestroyMembers, Goes
<1>14. CASE ShutDownQueue
  BY <1>14 DEF ShutDownQueue, Goes
<1>15. CASE JoinWorker
  <2>0. run \in 1..Runs /\ Runs \in Nat
    BY Constants DEF Types
  <2>1. run' = IF run < LastRun THEN run + 1 ELSE run
    BY <1>15 DEF JoinWorker
  <2>2. lookback_minutes_ > 0 => run = 1 /\ LastRun = 1
    BY DEF LastRun
  <2>3. lookback_minutes_ > 0 => run' = 1
    BY <2>1, <2>2
  <2>4. owner' \in {"create", "end"} /\ owner = "join" /\ handling = <<>>
    BY <1>15 DEF JoinWorker, Goes
  <2>5. /\ running_' = running_ /\ feeder' = feeder /\ lookback_minutes_' = lookback_minutes_
        /\ listening' = listening /\ open' = open /\ handling' = handling
    BY <1>15 DEF JoinWorker
  <2>6. QED
    BY <2>3, <2>4, <2>5
<1>16. CASE UNCHANGED vars
  BY <1>16 DEF vars
<1>17. QED
  BY <1>1, <1>2, <1>3, <1>4, <1>5, <1>6, <1>7, <1>8, <1>9, <1>10, <1>11, <1>12, <1>13, <1>14,
     <1>15, <1>16 DEF Next, Optimizer

------------------------------------------------------------------------------
(* No event is lost and none is handled that was not fed                   *)

\* Appending to a queue and taking its first event, seen behind what was taken before.
LEMMA QueueBehind ==
  ASSUME NEW S, NEW h \in Seq(S), NEW g \in Seq(S), NEW q \in Seq(S), NEW e \in Seq(S)
  PROVE  /\ (h \o g \o q) \o e = h \o g \o (q \o e)
         /\ g = <<>> /\ q # <<>> => h \o g \o q = h \o <<Head(q)>> \o Tail(q)
         /\ h \o g \o q = (h \o g) \o <<>> \o q
<1>1. h \o g \in Seq(S) /\ <<>> \in Seq(S)
  BY ConcatProperties, EmptySeq
<1>2. (h \o g \o q) \o e = h \o g \o (q \o e)
  BY <1>1, ConcatAssociative, SMTT(30)
<1>3. h \o g \o q = (h \o g) \o <<>> \o q
  BY <1>1, ConcatEmptySeq
<1>4. ASSUME g = <<>>, q # <<>>
      PROVE  h \o g \o q = h \o <<Head(q)>> \o Tail(q)
  <2>1. PICK x \in S : x = Head(q)
    BY <1>4, HeadTailProperties
  <2>2. PICK t \in Seq(S) : t = Tail(q)
    BY <1>4, HeadTailProperties
  <2>3. <<x>> \in Seq(S) /\ q = <<x>> \o t
    BY <1>4, <2>1, <2>2
  <2>4. h \o <<x>> \o t = h \o (<<x>> \o t)
    BY <2>2, <2>3, ConcatAssociative
  <2>5. h \o g = h
    BY <1>4, ConcatEmptySeq
  <2>6. QED
    BY <2>1, <2>2, <2>3, <2>4, <2>5
<1>5. QED
  BY <1>2, <1>3, <1>4

LEMMA InitAccounted == Init => Accounted
<1> SUFFICES ASSUME Init PROVE Accounted
  OBVIOUS
<1>1. <<>> \in Seq(Event) /\ Len(<<>>) = 0
  BY EmptySeq
<1>2. QED
  BY <1>1 DEF Init, Accounted

LEMMA AccountedStep == Types /\ Types' /\ Control /\ Accounted /\ [Next]_vars => Accounted'
<1> USE DEF Accounted, config, enginevars, feedervars, history
<1> SUFFICES ASSUME Types, Types', Control, Accounted, [Next]_vars PROVE Accounted'
  OBVIOUS
<1>0. /\ fed \in Seq(Event) /\ handled \in Seq(Event)
      /\ handling \in Seq(Event) /\ data_events_ \in Seq(Event)
      /\ Len(fed) \in Nat /\ Len(handled) \in Nat /\ Len(handling) \in Nat
      /\ Len(data_events_) \in Nat /\ seen \in Nat
      /\ <<>> \in Seq(Event) /\ Len(<<>>) = 0
  BY LenProperties, EmptySeq DEF Types
<1>1. CASE Feed
  <2>1. PICK tick, e : Fed(tick, e)
    BY <1>1, FeedFeeds
  <2>2. fed' = fed \o e /\ e \in Seq(Event) /\ Len(fed') = Len(fed) + Len(e) /\ Len(e) \in Nat
    BY <1>0, <2>1, ConcatProperties, LenProperties DEF Fed
  <2>3. open => fed' = handled \o handling \o (data_events_ \o e)
    <3>1. (handled \o handling \o data_events_) \o e = handled \o handling \o (data_events_ \o e)
      <4>1. PICK h, g, q : h = handled /\ g = handling /\ q = data_events_
        OBVIOUS
      <4>2. (h \o g \o q) \o e = h \o g \o (q \o e)
        BY <1>0, <2>2, <4>1, QueueBehind, SMTT(30)
      <4>3. QED
        BY <4>1, <4>2
    <3>2. QED
      BY <2>2, <3>1
  <2>4. /\ open' = open /\ handled' = handled /\ handling' = handling /\ seen' = seen
        /\ data_events_' = data_events_ \o e
    BY <2>1 DEF Fed
  <2>5. Len(handled') + Len(handling') <= Len(fed') /\ seen' <= Len(handled')
    BY <1>0, <2>2, <2>4
  <2>6. open' => fed' = handled' \o handling' \o data_events_'
    BY <2>3, <2>4
  <2>7. QED
    BY <2>5, <2>6
<1>2. CASE EndFeed
  BY <1>2 DEF EndFeed
<1>3. CASE Take
  <2>1. /\ open /\ open' /\ handling = <<>> /\ data_events_ # <<>>
        /\ handling' = <<Head(data_events_)>> /\ data_events_' = Tail(data_events_)
        /\ fed' = fed /\ handled' = handled /\ seen' = seen
    BY <1>3 DEF Take
  <2>2. fed' = handled \o handling' \o data_events_'
    <3>1. handled \o handling \o data_events_ = handled \o <<Head(data_events_)>> \o Tail(data_events_)
      <4>1. PICK h, g, q : h = handled /\ g = handling /\ q = data_events_
        OBVIOUS
      <4>2. h \o g \o q = h \o <<Head(q)>> \o Tail(q)
        BY <1>0, <2>1, <4>1, QueueBehind
      <4>3. QED
        BY <4>1, <4>2
    <3>2. QED
      BY <2>1, <3>1
  <2>3. /\ Len(handling') = 1 /\ Len(data_events_) >= 1
        /\ Len(fed) = Len(handled) + Len(handling) + Len(data_events_)
    <3>1. Len(data_events_) # 0
      BY <1>0, <2>1, EmptySeq
    <3>2. Len(handled \o handling \o data_events_) = Len(handled) + Len(handling) + Len(data_events_)
      BY <1>0, ConcatProperties
    <3>3. QED
      BY <1>0, <2>1, <3>1, <3>2
  <2>4. QED
    BY <1>0, <2>1, <2>2, <2>3
<1>4. CASE Handle
  <2>1. /\ handled' = handled \o handling /\ handling' = <<>>
        /\ data_events_' = data_events_ /\ fed' = fed /\ seen' = seen /\ open' = open
    BY <1>4 DEF Handle
  <2>2. handled \o handling \o data_events_ = (handled \o handling) \o <<>> \o data_events_
    BY <1>0, QueueBehind
  <2>3. Len(handled') = Len(handled) + Len(handling)
    BY <1>0, <2>1, ConcatProperties
  <2>4. QED
    BY <1>0, <2>1, <2>2, <2>3
<1>5. CASE CreateEngine
  <2>1. /\ fed' = <<>> /\ handled' = <<>> /\ handling' = <<>> /\ data_events_' = <<>> /\ seen' = 0
    BY <1>5 DEF CreateEngine
  <2>2. <<>> \o <<>> \o <<>> = <<>>
    BY <1>0, ConcatEmptySeq
  <2>3. QED
    BY <1>0, <2>1, <2>2
<1>6. CASE CalcStats
  BY <1>0, <1>6 DEF CalcStats
<1>7. CASE ShutDownQueue
  BY <1>0, <1>7 DEF ShutDownQueue
<1>8. CASE StartFeeder \/ StartFails \/ WaitForStop \/ StopFeeder \/ JoinFeeder
            \/ RemoveCallback \/ DestroyMembers \/ JoinWorker \/ UNCHANGED vars
  <2>1. UNCHANGED <<fed, handled, handling, data_events_, seen, open>>
    BY <1>8 DEF StartFeeder, StartFails, WaitForStop, StopFeeder, JoinFeeder, RemoveCallback,
       DestroyMembers, JoinWorker, vars
  <2>2. QED
    BY <2>1
<1>9. QED
  BY <1>1, <1>2, <1>3, <1>4, <1>5, <1>6, <1>7, <1>8 DEF Next, Optimizer

------------------------------------------------------------------------------
(* The cache, the source and the candles                                   *)

\* The tick that is fed is the next one of the data.
LEMMA NextTick ==
  ASSUME Types, Streams, NEW tick, NEW e, Fed(tick, e)
  PROVE  /\ Passed \in Nat /\ Passed + 1 \in DOMAIN Data /\ tick = Data[Passed + 1]
         /\ Len(source) \in Nat /\ Len(source') = Len(source) - 1
         /\ \A i \in DOMAIN source' : i + 1 \in DOMAIN source /\ source'[i] = source[i + 1]
         /\ Len(Loop) \in Nat /\ Len(Loop) <= Len(Data)
<1>1. /\ source \in Seq(Ticks) /\ source # <<>> /\ cache_ \in Seq(Ticks)
      /\ tick = Head(source) /\ source' = Tail(source)
  BY DEF Fed, Types
<1>2. /\ Len(source) \in Nat /\ Len(source) # 0 /\ DOMAIN source = 1..Len(source)
      /\ Len(cache_) \in Nat /\ DOMAIN cache_ = 1..Len(cache_)
  BY <1>1, LenProperties, EmptySeq
<1>3. /\ Len(source') = Len(source) - 1
      /\ DOMAIN source' = 1..Len(source')
      /\ \A i \in 1..Len(source') : source'[i] = source[i + 1]
  BY <1>1, HeadTailProperties, LenProperties
<1>4. /\ Len(Loop) \in Nat /\ Len(Loop) <= Len(Data)
      /\ \A i \in 1..Len(Loop) : Loop[i] = Data[i]
  BY <1>2, Constants DEF Loop, Streams
<1>5. Passed \in Nat /\ Passed + 1 \in 1..Len(Loop) /\ source[1] = Loop[Passed + 1]
  BY <1>2, <1>4, SMTT(30) DEF Streams, Passed
<1>6. Passed + 1 \in DOMAIN Data /\ source[1] = Data[Passed + 1]
  BY <1>4, <1>5, Constants
<1>7. tick = source[1]
  BY <1>1
<1>8. QED
  BY <1>2, <1>3, <1>4, <1>5, <1>6, <1>7

LEMMA InitStreams == Init => Streams /\ Candles /\ NoCandle
<1> SUFFICES ASSUME Init PROVE Streams /\ Candles /\ NoCandle
  OBVIOUS
<1>1. /\ cache_ = <<>> /\ source = <<>> /\ feeder = "off"
      /\ Len(<<>>) = 0 /\ DOMAIN <<>> = {}
  BY EmptySeq DEF Init
<1>2. Streams
  BY <1>1, Constants DEF Streams, Loop, Init
<1>3. \A tf \in Frames : bar_[tf] = NoBar
  BY DEF Init
<1>4. QED
  BY <1>2, <1>3 DEF Candles, NoCandle, NoBar

LEMMA CandlesStep ==
  Types /\ Candles /\ NoCandle /\ [Next]_vars => Candles' /\ NoCandle'
<1> SUFFICES ASSUME Types, Candles, NoCandle, [Next]_vars PROVE Candles' /\ NoCandle'
  OBVIOUS
<1>1. CASE Feed
  <2>1. PICK tick, e : Fed(tick, e)
    BY <1>1, FeedFeeds
  <2>2. \A tf \in Frames : /\ bar_'[tf] = PutTick(tf, tick)
                           /\ bar_'[tf].t = Start(tf, tick) /\ Start(tf, tick) > 0
                           /\ {bar_'[tf].o, bar_'[tf].h, bar_'[tf].l, bar_'[tf].c} \subseteq Prices
                           /\ Start(tf, tick) \in Nat
    BY <2>1, CandleOfTick, StartIsTime DEF Fed
  <2>3. QED
    BY <2>2 DEF Candles, NoCandle
<1>2. CASE UNCHANGED bar_
  BY <1>2 DEF Candles, NoCandle
<1>3. QED
  BY <1>1, <1>2 DEF Next, Optimizer, EndFeed, Take, Handle, CreateEngine, StartFeeder, StartFails,
     WaitForStop, StopFeeder, JoinFeeder, CalcStats, RemoveCallback, DestroyMembers,
     ShutDownQueue, JoinWorker, feedervars, vars

LEMMA StreamsStep == Types /\ Types' /\ Control /\ Streams /\ [Next]_vars => Streams'
<1> USE DEF config, enginevars, feedervars, history
<1> SUFFICES ASSUME Types, Types', Control, Streams, [Next]_vars PROVE Streams'
  OBVIOUS
<1>0. /\ Len(source) \in Nat /\ DOMAIN source = 1..Len(source)
      /\ Len(cache_) \in Nat /\ DOMAIN cache_ = 1..Len(cache_)
  BY LenProperties DEF Types
<1>1. CASE Feed
  <2>1. PICK tick, e : Fed(tick, e)
    BY <1>1, FeedFeeds
  <2>2. /\ Passed \in Nat /\ Passed + 1 \in DOMAIN Data /\ tick = Data[Passed + 1]
        /\ Len(source') = Len(source) - 1
        /\ \A i \in DOMAIN source' : i + 1 \in DOMAIN source /\ source'[i] = source[i + 1]
        /\ Len(Loop) \in Nat /\ Len(Loop) <= Len(Data)
    BY <2>1, NextTick
  <2>3. /\ tick \in Ticks /\ cache_' = Cached(tick)
        /\ UNCHANGED <<use_cache_, from_cache, feeder>>
    BY <2>1 DEF Fed
  <2>4. Loop' = Loop
    BY <2>3 DEF Loop, Cached
  <2>5. Passed' = Passed + 1
    BY <1>0, <2>2, <2>4 DEF Passed
  <2>9. /\ Len(source') <= Len(Loop') /\ \A i \in DOMAIN source' : source'[i] = Loop'[Passed' + i]
    <3>1. Len(source) <= Len(Loop) /\ \A i \in DOMAIN source : source[i] = Loop[Passed + i]
      BY DEF Streams
    <3>2. \A i \in DOMAIN source' : i \in Int /\ (Passed + 1) + i = Passed + (i + 1)
      <4>1. DOMAIN source' = 1..Len(source')
        BY LenProperties DEF Types
      <4>2. QED
        BY <2>2, <4>1
    <3>3. \A i \in DOMAIN source' : source'[i] = Loop[(Passed + 1) + i]
      BY <2>2, <3>1, <3>2
    <3>4. Len(source') <= Len(Loop)
      BY <1>0, <2>2, <3>1
    <3>5. QED
      BY <2>4, <2>5, <3>3, <3>4
  <2>6. CASE use_cache_ /\ ~from_cache
    <3>1. cache_' = Append(cache_, tick) /\ Len(cache_) = Passed
      BY <2>1, <2>3, <2>6 DEF Cached, Streams, Fed
    <3>2. /\ Len(cache_') = Len(cache_) + 1 /\ DOMAIN cache_' = 1..(Len(cache_) + 1)
          /\ \A i \in 1..Len(cache_) : cache_'[i] = cache_[i]
          /\ cache_'[Len(cache_) + 1] = tick
      <4>1. cache_ \in Seq(Ticks) /\ tick \in Ticks
        BY <2>3 DEF Types
      <4>2. QED
        BY <1>0, <3>1, <4>1, AppendProperties
    <3>3. /\ Len(cache_') <= Len(Data) /\ \A i \in DOMAIN cache_' : cache_'[i] = Data[i]
      BY <1>0, <2>2, <3>1, <3>2, Constants DEF Streams
    <3>4. QED
      BY <2>3, <2>5, <2>6, <2>9, <3>1, <3>2, <3>3 DEF Streams
  <2>7. CASE ~(use_cache_ /\ ~from_cache)
    <3>1. cache_' = cache_
      BY <2>3, <2>7 DEF Cached
    <3>2. QED
      BY <2>3, <2>7, <2>9, <3>1 DEF Streams
  <2>8. QED
    BY <2>6, <2>7
<1>2. CASE StartFeeder
  <2>1. /\ from_cache' <=> cache_ # <<>>
        /\ cache_' = cache_ /\ use_cache_' = use_cache_
        /\ source' = IF cache_ # <<>> THEN cache_ ELSE Data
    BY <1>2 DEF StartFeeder
  <2>2. source' = Loop'
    BY <2>1 DEF Loop
  <2>3. Len(source') \in Nat /\ Passed' = 0
    BY <1>0, <2>1, <2>2, Constants DEF Passed
  <2>4. cache_ = <<>> => Len(cache_) = 0
    BY EmptySeq
  <2>5. \A i \in DOMAIN source' : i \in Nat /\ 0 + i = i
    <3>1. source' \in Seq(Ticks)
      BY DEF Types
    <3>2. DOMAIN source' = 1..Len(source')
      BY <3>1, LenProperties
    <3>3. QED
      BY <2>3, <3>2
  <2>6. \A i \in DOMAIN source' : source'[i] = Loop'[Passed' + i]
    BY <2>2, <2>3, <2>5
  <2>7. Len(cache_') <= Len(Data) /\ \A i \in DOMAIN cache_' : cache_'[i] = Data[i]
    BY <2>1 DEF Streams
  <2>8. QED
    BY <2>1, <2>2, <2>3, <2>4, <2>6, <2>7 DEF Streams
<1>3. CASE UNCHANGED <<use_cache_, cache_, source, from_cache>> /\ (feeder' = feeder \/ feeder # "off")
  <2>1. Loop' = Loop /\ Passed' = Passed
    BY <1>3 DEF Loop, Passed
  <2>2. QED
    BY <1>3, <2>1 DEF Streams
<1>4. QED
  BY <1>1, <1>2, <1>3 DEF Next, Optimizer, EndFeed, Take, Handle, CreateEngine, StartFails,
     WaitForStop, StopFeeder, JoinFeeder, CalcStats, RemoveCallback, DestroyMembers,
     ShutDownQueue, JoinWorker, feedervars, vars

------------------------------------------------------------------------------
(* A run without a failure                                                 *)

LEMMA InitUndisturbed == Init => Undisturbed
BY DEF Init, Undisturbed

LEMMA UndisturbedStep ==
  Types /\ Types' /\ Control /\ Streams /\ Undisturbed /\ [Next]_vars => Undisturbed'
<1> USE DEF Control, Undisturbed, config, enginevars, feedervars, history
<1> SUFFICES ASSUME Types, Types', Control, Streams, Undisturbed, [Next]_vars PROVE Undisturbed'
  OBVIOUS
<1>0. faults \in Nat
  BY Constants DEF Types
<1>1. CASE Feed
  <2>1. PICK tick, e : Fed(tick, e)
    BY <1>1, FeedFeeds
  <2>2. /\ feeder = "run" /\ from_cache' = from_cache /\ faults' = faults
        /\ from_cache => cache_' = cache_
        /\ stop_event_' = stop_event_ /\ owner' = owner /\ feeder' = feeder
    BY <2>1 DEF Fed, Cached
  <2>3. QED
    BY <2>2
<1>2. CASE EndFeed
  <2>1. /\ feeder = "run" /\ feeder' = "done" /\ stop_event_' = TRUE
        /\ UNCHANGED <<owner, source, from_cache, cache_, use_cache_>>
        /\ faults' = 0 => faults = 0 /\ (source = <<>> \/ ~running_)
    BY <1>0, <1>2 DEF EndFeed
  <2>2. QED
    BY <2>1
<1>3. CASE StartFeeder
  <2>1. /\ owner = "start" /\ owner' = "wait" /\ feeder' = "run" /\ faults' = faults
        /\ cache_' = cache_ /\ stop_event_' = stop_event_
        /\ from_cache' <=> cache_ # <<>>
    BY <1>3 DEF StartFeeder, Goes
  <2>2. QED
    BY <2>1
<1>4. CASE StartFails
  BY <1>0, <1>4 DEF StartFails
<1>5. CASE WaitForStop
  <2>1. /\ owner = "wait" /\ owner' = "stop" /\ stop_event_' = FALSE
        /\ UNCHANGED <<feeder, source, cache_, from_cache>>
        /\ faults' = 0 => faults = 0 /\ stop_event_
    BY <1>0, <1>5 DEF WaitForStop, Goes
  <2>2. QED
    BY <2>1
<1>6. CASE StopFeeder
  BY <1>6 DEF StopFeeder, Goes
<1>7. CASE JoinFeeder
  <2>1. /\ owner = "join_feeder" /\ owner' = "stats" /\ feeder = "done" /\ feeder' = "off"
        /\ UNCHANGED <<source, cache_, from_cache, stop_event_, faults>>
    BY <1>7 DEF JoinFeeder, Goes
  <2>2. ASSUME faults = 0
        PROVE  cache_ = <<>> \/ Len(cache_) = Len(Data)
    <3>1. source = <<>> /\ Len(<<>>) = 0
      BY <2>1, <2>2, EmptySeq
    <3>2. CASE from_cache
      BY <2>1, <2>2, <3>2
    <3>3. CASE ~from_cache /\ use_cache_
      BY <2>1, <3>1, <3>3, Constants DEF Streams, Passed, Loop
    <3>4. CASE ~use_cache_
      BY <3>4 DEF Streams
    <3>5. QED
      BY <3>2, <3>3, <3>4 DEF Types
  <2>3. QED
    BY <2>1, <2>2
<1>8. CASE UNCHANGED <<faults, stop_event_, feeder, source, from_cache, cache_>> /\
           (owner' = owner \/ (owner' \notin {"wait", "stop", "join_feeder"} /\ owner # "wait"))
  BY <1>8
<1>9. CASE Take \/ Handle \/ UNCHANGED vars
  BY <1>8, <1>9 DEF Take, Handle, vars
<1>10. CASE CreateEngine \/ CalcStats \/ RemoveCallback \/ DestroyMembers \/ ShutDownQueue \/ JoinWorker
  <2>1. UNCHANGED <<faults, stop_event_, feeder, source, from_cache, cache_>>
    BY <1>10 DEF CreateEngine, CalcStats, RemoveCallback, DestroyMembers, ShutDownQueue, JoinWorker
  <2>2. owner' \notin {"wait", "stop", "join_feeder"} /\ owner # "wait"
    BY <1>10 DEF CreateEngine, CalcStats, RemoveCallback, DestroyMembers, ShutDownQueue, JoinWorker,
       Goes
  <2>3. QED
    BY <1>8, <2>1, <2>2
<1>11. QED
  BY <1>1, <1>2, <1>3, <1>4, <1>5, <1>6, <1>7, <1>9, <1>10 DEF Next, Optimizer

------------------------------------------------------------------------------
(* Counting what was fed                                                   *)

LEMMA PartOfInterval ==
  ASSUME NEW n \in Nat, NEW T \in SUBSET (1..n)
  PROVE  IsFiniteSet(T) /\ Cardinality(T) \in Nat
<1>1. IsFiniteSet(1..n)
  BY FS_Interval
<1>2. IsFiniteSet(T)
  BY <1>1, FS_Subset
<1>3. QED
  BY <1>2, FS_CardinalityType

LEMMA Counts ==
  ASSUME NEW n \in Nat
  PROVE  TicksUpTo(n) \in Nat /\ MinuteBars(n + 1) \in Nat
<1>1. PICK T : T = {j \in 1..n : IsTick(fed[j])}
  OBVIOUS
<1>2. PICK B : B = {j \in 1..n : fed[j].kind = "bar" /\ fed[j].tf = 1}
  OBVIOUS
<1>3. Cardinality(T) \in Nat /\ Cardinality(B) \in Nat
  BY <1>1, <1>2, PartOfInterval
<1>4. (n + 1) - 1 = n
  OBVIOUS
<1>5. QED
  BY <1>1, <1>2, <1>3, <1>4 DEF TicksUpTo, MinuteBars

\* Where the events of a tick are: behind those fed before, first the bars.
LEMMA FedPlaces ==
  ASSUME Types, NEW tick, NEW e, Fed(tick, e), listening
  PROVE  LET n == Len(fed)
             m == Len(BarEvents(tick))
         IN /\ n \in Nat /\ m \in Nat
            /\ DOMAIN fed = 1..n /\ DOMAIN fed' = 1..Len(fed') /\ DOMAIN BarEvents(tick) = 1..m
            /\ Len(fed') = IF IsWarmingUp THEN n + m ELSE n + m + 1
            /\ \A j \in 1..n : fed'[j] = fed[j]
            /\ \A j \in 1..m : fed'[n + j] = BarEvents(tick)[j]
            /\ ~IsWarmingUp => fed'[n + m + 1] = [kind |-> "tick", tick |-> tick]
<1>1. PICK b : b = BarEvents(tick)
  OBVIOUS
<1>2. PICK x : x = [kind |-> "tick", tick |-> tick]
  OBVIOUS
<1>3. /\ fed \in Seq(Event) /\ b \in Seq(Event) /\ x \in Event /\ <<x>> \in Seq(Event)
      /\ Len(fed) \in Nat /\ Len(b) \in Nat
  <2>1. tick \in Ticks
    BY DEF Fed
  <2>2. b \in Seq(Event) /\ fed \in Seq(Event)
    BY <1>1, <2>1, BarsOfTick DEF Types
  <2>3. x \in Event
    BY <1>2, <2>1 DEF Event
  <2>4. QED
    BY <2>2, <2>3, LenProperties
<1>4. fed' = fed \o (b \o IF IsWarmingUp THEN <<>> ELSE <<x>>)
  BY <1>1, <1>2 DEF Fed, EventsOf
<1>5. /\ fed \o b \in Seq(Event) /\ Len(fed \o b) = Len(fed) + Len(b)
      /\ \A j \in 1..Len(fed) : (fed \o b)[j] = fed[j]
      /\ \A j \in 1..Len(b) : (fed \o b)[Len(fed) + j] = b[j]
      /\ DOMAIN fed = 1..Len(fed) /\ DOMAIN b = 1..Len(b)
      /\ DOMAIN fed' = 1..Len(fed')
  BY <1>3, ConcatParts, LenProperties DEF Fed
<1>6. CASE IsWarmingUp
  <2>1. fed' = fed \o b
    BY <1>3, <1>4, <1>6, ConcatEmptySeq
  <2>2. QED
    BY <1>1, <1>3, <1>5, <1>6, <2>1
<1>7. CASE ~IsWarmingUp
  <2>1. fed' = fed \o (b \o <<x>>)
    BY <1>4, <1>7
  <2>2. fed' = Append(fed \o b, x)
    BY <1>3, <1>5, <2>1, ConcatAssociative, AppendIsConcat
  <2>3. PICK q : q = fed \o b
    OBVIOUS
  <2>4. /\ Len(fed') = Len(q) + 1 /\ fed'[Len(q) + 1] = x
        /\ \A j \in 1..Len(q) : fed'[j] = q[j]
    BY <1>3, <1>5, <2>2, <2>3, AppendProperties
  <2>5. /\ \A j \in 1..Len(fed) : j \in 1..Len(q)
        /\ \A j \in 1..Len(b) : Len(fed) + j \in 1..Len(q)
    BY <1>3, <1>5, <2>3
  <2>6. QED
    BY <1>1, <1>2, <1>3, <1>5, <1>7, <2>3, <2>4, <2>5
<1>8. QED
  BY <1>6, <1>7

\* What a tick adds to the numbers of ticks and of one-minute bars.
LEMMA FedCounts ==
  ASSUME Types, Types', NEW tick, NEW e, Fed(tick, e), listening
  PROVE  /\ \A i \in 0..Len(fed) : /\ TicksUpTo(i)' = TicksUpTo(i)
                                   /\ MinuteBars(i + 1)' = MinuteBars(i + 1)
         /\ TicksFed' = IF IsWarmingUp THEN TicksFed ELSE TicksFed + 1
         /\ BarsFed' >= BarsFed + (IF EndsBar(1, tick) THEN 1 ELSE 0)
         /\ ~IsWarmingUp => (MinuteBars(Len(fed)))' >= BarsFed
         /\ \A i \in DOMAIN fed' : IsTick(fed'[i]) =>
              \/ i \in DOMAIN fed /\ fed'[i] = fed[i]
              \/ ~IsWarmingUp /\ i = Len(fed') /\ fed'[i].tick = tick
<1> DEFINE n == Len(fed)
           b == BarEvents(tick)
           m == Len(b)
           M(f, k) == {j \in 1..k : f[j].kind = "bar" /\ f[j].tf = 1}
           T(f, k) == {j \in 1..k : IsTick(f[j])}
<1>1. /\ n \in Nat /\ m \in Nat /\ Len(fed') \in Nat
      /\ DOMAIN fed = 1..n /\ DOMAIN fed' = 1..Len(fed') /\ DOMAIN b = 1..m
      /\ Len(fed') = IF IsWarmingUp THEN n + m ELSE n + m + 1
      /\ \A j \in 1..n : fed'[j] = fed[j]
      /\ \A j \in 1..m : fed'[n + j] = b[j]
      /\ ~IsWarmingUp => fed'[n + m + 1] = [kind |-> "tick", tick |-> tick]
  <2>1. Len(fed') \in Nat
    BY LenProperties DEF Types
  <2>2. QED
    BY <2>1, FedPlaces
<1>2. /\ \A j \in 1..m : b[j].kind = "bar"
      /\ EndsBar(1, tick) => \E j \in 1..m : b[j].tf = 1
  <2>1. tick \in Ticks
    BY DEF Fed
  <2>2. /\ \A j \in DOMAIN b : b[j].kind = "bar"
        /\ EndsBar(1, tick) => \E j \in DOMAIN b : b[j].tf = 1
    BY <2>1, BarsOfTick
  <2>3. QED
    BY <1>1, <2>2
<1>3. \A f, k : (IsFiniteSet(T(f, k)) /\ IsFiniteSet(M(f, k))) \/ k \notin Nat
  <2>1. ASSUME NEW f, NEW k \in Nat PROVE IsFiniteSet(T(f, k)) /\ IsFiniteSet(M(f, k))
    <3>1. T(f, k) \in SUBSET (1..k) /\ M(f, k) \in SUBSET (1..k)
      OBVIOUS
    <3>2. QED
      BY <3>1, PartOfInterval
  <2>2. QED
    BY <2>1
<1>4. \A j \in (n + 1)..(n + m) : ~IsTick(fed'[j]) /\ fed'[j].kind = "bar"
  <2>1. TAKE j \in (n + 1)..(n + m)
  <2>2. PICK k \in 1..m : j = n + k
    <3>1. j - n \in 1..m /\ j = n + (j - n)
      BY <1>1
    <3>2. QED
      BY <3>1
  <2>3. fed'[j] = b[k]
    BY <1>1, <2>2
  <2>4. QED
    BY <1>2, <2>3 DEF IsTick
<1>5. \A i \in 0..n : TicksUpTo(i)' = TicksUpTo(i) /\ MinuteBars(i + 1)' = MinuteBars(i + 1)
  <2>1. TAKE i \in 0..n
  <2>2. \A j \in 1..i : j \in 1..n
    BY <1>1
  <2>3. T(fed', i) = T(fed, i) /\ M(fed', i) = M(fed, i)
    BY <1>1, <2>2
  <2>4. (i + 1) - 1 = i
    BY <1>1
  <2>5. QED
    BY <2>3, <2>4 DEF TicksUpTo, MinuteBars
<1>6. TicksFed' = IF IsWarmingUp THEN TicksFed ELSE TicksFed + 1
  <2>1. T(fed', n + m) = T(fed, n)
    <3>1. \A j \in 1..(n + m) : j \in 1..n \/ j \in (n + 1)..(n + m)
      BY <1>1
    <3>2. \A j \in 1..n : j \in 1..(n + m)
      BY <1>1
    <3>3. QED
      BY <1>1, <1>4, <3>1, <3>2
  <2>2. CASE IsWarmingUp
    BY <1>1, <2>1, <2>2 DEF TicksFed, TicksUpTo
  <2>3. CASE ~IsWarmingUp
    <3>1. PICK S : S = T(fed, n)
      OBVIOUS
    <3>2. T(fed', n + m + 1) = S \cup {n + m + 1} /\ n + m + 1 \notin S
      <4>1. IsTick(fed'[n + m + 1])
        BY <1>1, <2>3 DEF IsTick
      <4>2. 1..(n + m + 1) = 1..(n + m) \cup {n + m + 1}
        <5>1. \A k \in Nat : 1..(k + 1) = 1..k \cup {k + 1}
          OBVIOUS
        <5>2. n + m \in Nat
          BY <1>1
        <5>3. QED
          BY <5>1, <5>2
      <4>3. n + m + 1 \notin 1..n
        BY <1>1
      <4>4. QED
        BY <2>1, <3>1, <4>1, <4>2, <4>3
    <3>3. Cardinality(S \cup {n + m + 1}) = Cardinality(S) + 1
      <4>1. IsFiniteSet(S)
        BY <1>1, <1>3, <3>1
      <4>2. QED
        BY <3>2, <4>1, FS_AddElement
    <3>4. TicksFed = Cardinality(S) /\ TicksFed' = Cardinality(T(fed', n + m + 1))
      BY <1>1, <2>3, <3>1 DEF TicksFed, TicksUpTo
    <3>5. QED
      BY <2>3, <3>2, <3>3, <3>4
  <2>4. QED
    BY <2>2, <2>3
<1>7. PICK S : S = M(fed, n)
  OBVIOUS
<1>8. IsFiniteSet(S) /\ Cardinality(S) \in Nat /\ BarsFed = Cardinality(S)
  <2>1. (n + 1) - 1 = n
    BY <1>1
  <2>2. QED
    BY <1>1, <1>3, <1>7, <2>1, FS_CardinalityType DEF BarsFed, MinuteBars
<1>9. ASSUME NEW k \in Nat, n <= k
      PROVE  S \subseteq M(fed', k) /\ IsFiniteSet(M(fed', k)) /\ Cardinality(S) <= Cardinality(M(fed', k))
  <2>1. \A j \in 1..n : j \in 1..k
    BY <1>1, <1>9
  <2>2. S \subseteq M(fed', k)
    BY <1>1, <1>7, <2>1
  <2>3. IsFiniteSet(M(fed', k))
    BY <1>3
  <2>4. PICK U : U = M(fed', k)
    OBVIOUS
  <2>5. Cardinality(S) <= Cardinality(U)
    BY <2>2, <2>3, <2>4, FS_Subset
  <2>6. QED
    BY <2>2, <2>3, <2>4, <2>5
<1>10. ~IsWarmingUp => (MinuteBars(Len(fed)))' >= BarsFed
  <2>1. ~IsWarmingUp => Len(fed') - 1 = n + m
    BY <1>1
  <2>2. (MinuteBars(Len(fed)))' = Cardinality(M(fed', Len(fed') - 1))
    BY DEF MinuteBars
  <2>3. n + m \in Nat /\ n <= n + m
    BY <1>1
  <2>4. Cardinality(S) <= Cardinality(M(fed', n + m)) /\ Cardinality(M(fed', n + m)) \in Nat
    BY <1>9, <2>3, FS_CardinalityType
  <2>5. QED
    BY <1>8, <2>1, <2>2, <2>4
<1>11. BarsFed' >= BarsFed + (IF EndsBar(1, tick) THEN 1 ELSE 0)
  <2>1. PICK U : U = M(fed', Len(fed'))
    OBVIOUS
  <2>2. BarsFed' = Cardinality(U)
    <3>1. (Len(fed') + 1) - 1 = Len(fed')
      BY <1>1
    <3>2. QED
      BY <2>1, <3>1 DEF BarsFed, MinuteBars
  <2>3. /\ S \subseteq U /\ IsFiniteSet(U) /\ Cardinality(S) <= Cardinality(U)
        /\ Cardinality(U) \in Nat
    <3>1. n <= Len(fed')
      BY <1>1
    <3>2. QED
      BY <1>1, <1>9, <2>1, <3>1, FS_CardinalityType
  <2>4. CASE EndsBar(1, tick)
    <3>1. PICK j \in 1..m : b[j].tf = 1 /\ b[j].kind = "bar"
      BY <1>2, <2>4
    <3>2. n + j \in 1..Len(fed') /\ n + j \notin 1..n
      BY <1>1
    <3>3. n + j \in U /\ n + j \notin S
      BY <1>1, <1>7, <2>1, <3>1, <3>2
    <3>4. S # U
      BY <3>3
    <3>5. Cardinality(S) # Cardinality(U)
      BY <2>3, <3>4, FS_Subset
    <3>6. QED
      BY <1>8, <2>2, <2>3, <2>4, <3>5
  <2>5. CASE ~EndsBar(1, tick)
    BY <1>8, <2>2, <2>3, <2>5
  <2>6. QED
    BY <2>4, <2>5
<1>12. \A i \in DOMAIN fed' : IsTick(fed'[i]) =>
         \/ i \in DOMAIN fed /\ fed'[i] = fed[i]
         \/ ~IsWarmingUp /\ i = Len(fed') /\ fed'[i].tick = tick
  <2>1. SUFFICES ASSUME NEW i \in 1..Len(fed'), IsTick(fed'[i])
                 PROVE  \/ i \in DOMAIN fed /\ fed'[i] = fed[i]
                        \/ ~IsWarmingUp /\ i = Len(fed') /\ fed'[i].tick = tick
    BY <1>1
  <2>2. i \notin (n + 1)..(n + m)
    BY <1>4, <2>1
  <2>3. i \in 1..n \/ (~IsWarmingUp /\ i = n + m + 1)
    BY <1>1, <2>2
  <2>4. QED
    BY <1>1, <2>3
<1>13. QED
  BY <1>5, <1>6, <1>10, <1>11, <1>12

------------------------------------------------------------------------------
(* What the strategy is fed                                                *)

LEMMA NothingFed == fed = <<>> => TicksFed = 0 /\ BarsFed = 0
<1> SUFFICES ASSUME fed = <<>> PROVE TicksFed = 0 /\ BarsFed = 0
  OBVIOUS
<1>1. Len(fed) = 0
  BY EmptySeq
<1>2. {j \in 1..0 : IsTick(fed[j])} = {} /\ {j \in 1..0 : fed[j].kind = "bar" /\ fed[j].tf = 1} = {}
  OBVIOUS
<1>3. (0 + 1) - 1 = 0
  OBVIOUS
<1>4. QED
  BY <1>1, <1>2, <1>3, FS_EmptySet DEF TicksFed, BarsFed, TicksUpTo, MinuteBars

\* When no tick was fed, none was fed before any event.
LEMMA NoTickFed ==
  ASSUME Types, TicksFed = 0
  PROVE  \A i \in DOMAIN fed : ~IsTick(fed[i])
<1>1. Len(fed) \in Nat /\ DOMAIN fed = 1..Len(fed)
  BY LenProperties DEF Types
<1>2. PICK T : T = {j \in 1..Len(fed) : IsTick(fed[j])}
  OBVIOUS
<1>3. IsFiniteSet(T) /\ Cardinality(T) = 0
  BY <1>1, <1>2, PartOfInterval DEF TicksFed, TicksUpTo
<1>4. T = {}
  BY <1>3, FS_EmptySet
<1>5. QED
  BY <1>1, <1>2, <1>4

LEMMA InitDelivered == Init => Delivered
<1> SUFFICES ASSUME Init PROVE Delivered
  OBVIOUS
<1>1. /\ fed = <<>> /\ feeder = "off" /\ owner = "create" /\ bar_count_ = 0
      /\ TicksFed = 0 /\ DOMAIN fed = {} /\ Len(Data) \in Nat
  BY NothingFed, Constants, EmptySeq DEF Init
<1>2. FedFrom(0)
  BY <1>1 DEF FedFrom
<1>3. WarmUp
  BY <1>1 DEF WarmUp
<1>4. QED
  BY <1>1, <1>2, <1>3 DEF Delivered

\* A tick of the feeder: it is fed as the next one, or it warms the candles up.
LEMMA DeliveredFeed ==
  ASSUME Types, Types', Control, Streams, Delivered, NEW tick, NEW e, Fed(tick, e)
  PROVE  Delivered'
<1>1. /\ feeder = "run" /\ feeder' = feeder /\ owner \in {"wait", "stop", "join_feeder"}
      /\ owner' = owner /\ listening /\ lookback_minutes_' = lookback_minutes_
      /\ bar_count_' = bar_count_ + (IF EndsBar(1, tick) THEN 1 ELSE 0)
      /\ UNCHANGED <<use_cache_, from_cache>>
  BY DEF Fed, Control
<1>2. /\ Passed \in Nat /\ Passed + 1 \in DOMAIN Data /\ tick = Data[Passed + 1]
      /\ Passed' = Passed + 1 /\ Passed + 1 \in 0..Len(Data)
  <2>1. /\ Passed \in Nat /\ Passed + 1 \in DOMAIN Data /\ tick = Data[Passed + 1]
        /\ Len(source) \in Nat /\ Len(source') = Len(source) - 1 /\ Len(Loop) \in Nat
    BY NextTick
  <2>2. Loop' = Loop
    BY <1>1 DEF Loop, Fed, Cached
  <2>3. QED
    BY <2>1, <2>2, Constants DEF Passed
<1>3. /\ lookback_minutes_ \in Nat /\ bar_count_ \in Nat /\ Len(fed) \in Nat
      /\ DOMAIN fed = 1..Len(fed)
      /\ TicksFed \in Nat /\ BarsFed \in Nat
      /\ BarsFed' \in Nat
      /\ (MinuteBars(Len(fed)))' \in Nat \/ Len(fed') = 0
  <2>1. Len(fed) \in Nat /\ Len(fed') \in Nat /\ DOMAIN fed = 1..Len(fed)
    BY LenProperties DEF Types
  <2>2. TicksFed \in Nat /\ BarsFed \in Nat
    BY <2>1, Counts DEF TicksFed, BarsFed
  <2>3. \A n \in Nat : MinuteBars(n + 1) \in Nat
    BY Counts
  <2>4. \A n \in Nat : MinuteBars(n + 1)' \in Nat
    <3>1. TAKE n \in Nat
    <3>2. PICK B : B = {j \in 1..n : fed'[j].kind = "bar" /\ fed'[j].tf = 1}
      OBVIOUS
    <3>5. B \in SUBSET (1..n) /\ (n + 1) - 1 = n
      BY <3>2
    <3>3. Cardinality(B) \in Nat /\ (n + 1) - 1 = n
      BY <3>5, PartOfInterval
    <3>4. QED
      BY <3>2, <3>3 DEF MinuteBars
  <2>5. BarsFed' \in Nat
    BY <2>1, <2>4 DEF BarsFed
  <2>6. (MinuteBars(Len(fed)))' \in Nat \/ Len(fed') = 0
    <3>1. Len(fed') # 0 => Len(fed') - 1 \in Nat /\ (Len(fed') - 1) + 1 = Len(fed')
      BY <2>1
    <3>2. QED
      BY <2>4, <3>1
  <2>7. QED
    BY <2>1, <2>2, <2>5, <2>6 DEF Types
<1>4. /\ \A i \in 0..Len(fed) : /\ TicksUpTo(i)' = TicksUpTo(i)
                                /\ MinuteBars(i + 1)' = MinuteBars(i + 1)
      /\ TicksFed' = IF IsWarmingUp THEN TicksFed ELSE TicksFed + 1
      /\ BarsFed' >= BarsFed + (IF EndsBar(1, tick) THEN 1 ELSE 0)
      /\ ~IsWarmingUp => (MinuteBars(Len(fed)))' >= BarsFed
      /\ \A i \in DOMAIN fed' : IsTick(fed'[i]) =>
           \/ i \in DOMAIN fed /\ fed'[i] = fed[i]
           \/ ~IsWarmingUp /\ i = Len(fed') /\ fed'[i].tick = tick
  BY <1>1, FedCounts
<1>5. \A i \in DOMAIN fed : /\ TicksUpTo(i)' = TicksUpTo(i)
                            /\ MinuteBars(i)' = MinuteBars(i)
  <2>1. TAKE i \in DOMAIN fed
  <2>2. i \in 0..Len(fed) /\ i - 1 \in 0..Len(fed) /\ (i - 1) + 1 = i
    BY <1>3
  <2>3. QED
    BY <1>4, <2>2
<1>6. WarmUp'
  <2>1. lookback_minutes_ > 0 => BarsFed >= bar_count_
    BY <1>1 DEF Delivered, WarmUp
  <2>2. lookback_minutes_ > 0 => BarsFed' >= bar_count_'
    BY <1>1, <1>3, <1>4, <2>1
  <2>3. IsWarmingUp' => IsWarmingUp
    BY <1>1, <1>3 DEF IsWarmingUp
  <2>4. IsWarmingUp => TicksFed = 0
    BY <1>1 DEF Delivered, WarmUp
  <2>5. IsWarmingUp' => TicksFed' = 0
    BY <1>4, <2>3, <2>4
  <2>6. QED
    BY <1>1, <2>2, <2>5 DEF WarmUp
<1>7. CASE IsWarmingUp
  <2>1. TicksFed = 0 /\ TicksFed' = 0 /\ lookback_minutes_ # 0
    BY <1>1, <1>3, <1>4, <1>7 DEF Delivered, WarmUp, IsWarmingUp
  <2>2. \A i \in DOMAIN fed' : ~IsTick(fed'[i])
    BY <1>4, <1>7, <2>1, NoTickFed
  <2>3. PICK k \in 0..Len(Data) : k = Passed + 1
    BY <1>2
  <2>4. FedFrom(k)'
    <3>1. k + TicksFed' <= Len(Data) /\ k + TicksFed' = Passed'
      BY <1>2, <2>1, <2>3, Constants
    <3>2. lookback_minutes_' # 0 /\ owner' # "stats"
      BY <1>1, <2>1
    <3>3. QED
      BY <2>2, <3>1, <3>2 DEF FedFrom
  <2>5. QED
    BY <1>6, <2>4 DEF Delivered
<1>8. CASE ~IsWarmingUp
  <2>1. PICK k \in 0..Len(Data) : FedFrom(k)
    BY DEF Delivered
  <2>2. TicksFed' = TicksFed + 1 /\ k + TicksFed = Passed /\ k + TicksFed' = Passed + 1
    <3>1. k + TicksFed = Passed
      BY <1>1, <2>1 DEF FedFrom
    <3>2. k \in Int
      BY <2>1, Constants
    <3>3. QED
      BY <1>2, <1>3, <1>4, <1>8, <3>1, <3>2
  <2>3. (MinuteBars(Len(fed)))' >= lookback_minutes_ \/ Len(fed') = 0
    <3>1. lookback_minutes_ > 0 => BarsFed >= lookback_minutes_
      BY <1>1, <1>3, <1>8 DEF Delivered, WarmUp, IsWarmingUp
    <3>2. QED
      BY <1>3, <1>4, <1>8, <3>1
  <2>4. ASSUME NEW i \in DOMAIN fed', IsTick(fed'[i])
        PROVE  /\ fed'[i].tick = Data[k + TicksUpTo(i)']
               /\ MinuteBars(i)' >= lookback_minutes_
    <3>1. CASE i \in DOMAIN fed /\ fed'[i] = fed[i]
      BY <1>5, <2>1, <2>4, <3>1 DEF FedFrom
    <3>2. CASE ~IsWarmingUp /\ i = Len(fed') /\ fed'[i].tick = tick
      <4>1. TicksUpTo(i)' = TicksFed' /\ MinuteBars(i)' = (MinuteBars(Len(fed)))'
        BY <3>2 DEF TicksFed
      <4>2. Len(fed') # 0
        <5>1. DOMAIN fed' = 1..Len(fed')
          BY LenProperties DEF Types
        <5>2. QED
          BY <5>1
      <4>3. QED
        BY <1>2, <2>2, <2>3, <3>2, <4>1, <4>2
    <3>3. QED
      BY <1>4, <2>4, <3>1, <3>2
  <2>5. k + TicksFed' <= Len(Data) /\ k + TicksFed' = Passed' /\ owner' # "stats"
    BY <1>1, <1>2, <2>2, Constants
  <2>6. FedFrom(k)'
    BY <1>1, <2>1, <2>4, <2>5 DEF FedFrom
  <2>7. QED
    BY <1>6, <2>6 DEF Delivered
<1>9. QED
  BY <1>7, <1>8

LEMMA DeliveredStep ==
  ASSUME Types, Types', Control, Control', Streams, Undisturbed, Undisturbed', Delivered,
         [Next]_vars
  PROVE  Delivered'
<1> USE DEF config, enginevars, feedervars, history
<1>0. PICK k \in 0..Len(Data) : FedFrom(k)
  BY DEF Delivered
<1>1. CASE Feed
  BY <1>1, FeedFeeds, DeliveredFeed
<1>2. CASE CreateEngine
  <2>1. /\ fed' = <<>> /\ owner = "create" /\ owner' = "start" /\ feeder' = "off"
        /\ UNCHANGED <<lookback_minutes_, bar_count_>>
    BY <1>2 DEF CreateEngine, Goes, Control
  <2>2. TicksFed' = 0 /\ BarsFed' = 0 /\ DOMAIN fed' = {}
    <3>1. (fed = <<>> => TicksFed = 0 /\ BarsFed = 0)'
      <4>1. Len(fed') = 0
        BY <2>1, EmptySeq
      <4>2. /\ {j \in 1..0 : IsTick(fed'[j])} = {}
            /\ {j \in 1..0 : fed'[j].kind = "bar" /\ fed'[j].tf = 1} = {}
        OBVIOUS
      <4>3. (0 + 1) - 1 = 0
        OBVIOUS
      <4>4. QED
        BY <4>1, <4>2, <4>3, FS_EmptySet DEF TicksFed, BarsFed, TicksUpTo, MinuteBars
    <3>2. DOMAIN fed' = {}
      BY <2>1, EmptySeq
    <3>3. QED
      BY <2>1, <3>1, <3>2
  <2>3. FedFrom(0)' /\ 0 \in 0..Len(Data)
    BY <2>1, <2>2, Constants DEF FedFrom
  <2>4. WarmUp'
    BY <2>1, <2>2 DEF WarmUp, Delivered
  <2>5. QED
    BY <2>3, <2>4 DEF Delivered
<1>3. CASE StartFeeder
  <2>1. /\ owner = "start" /\ owner' = "wait" /\ feeder' = "run"
        /\ UNCHANGED <<fed, lookback_minutes_, bar_count_, cache_>>
        /\ source' = Loop'
    BY <1>3 DEF StartFeeder, Goes, Loop
  <2>2. fed = <<>> /\ DOMAIN fed' = {}
    BY <2>1, EmptySeq DEF Delivered, WarmUp
  <2>3. TicksFed' = 0 /\ BarsFed' = 0
    BY <2>1, <2>2, NothingFed DEF TicksFed, BarsFed, TicksUpTo, MinuteBars
  <2>4. Passed' = 0
    <3>1. Len(source') \in Nat
      BY LenProperties DEF Types
    <3>2. QED
      BY <2>1, <3>1 DEF Passed
  <2>5. FedFrom(0)' /\ 0 \in 0..Len(Data)
    BY <2>1, <2>2, <2>3, <2>4, Constants DEF FedFrom
  <2>6. WarmUp'
    BY <2>1, <2>2, <2>3 DEF WarmUp, Delivered
  <2>7. QED
    BY <2>5, <2>6 DEF Delivered
<1>4. ASSUME UNCHANGED <<fed, lookback_minutes_, bar_count_>>,
             feeder' # "off" => feeder # "off" /\ UNCHANGED <<source, cache_, from_cache>>,
             owner' \in {"create", "start"} => lookback_minutes_ = 0 \/ owner' = owner,
             owner' = "start" => owner' = owner,
             owner' = "stats" /\ faults' = 0 => k + TicksFed = Len(Data)
      PROVE  Delivered'
  <2>1. /\ TicksFed' = TicksFed /\ BarsFed' = BarsFed /\ (IsWarmingUp' <=> IsWarmingUp)
        /\ \A i : TicksUpTo(i)' = TicksUpTo(i) /\ MinuteBars(i)' = MinuteBars(i)
        /\ feeder' # "off" => Passed' = Passed
    BY <1>4 DEF TicksFed, BarsFed, TicksUpTo, MinuteBars, IsWarmingUp, Passed, Loop
  <2>2. FedFrom(k)'
    BY <1>0, <1>4, <2>1 DEF FedFrom
  <2>3. WarmUp'
    <3>1. WarmUp /\ lookback_minutes_ \in Nat
      BY DEF Delivered, Types
    <3>2. \/ lookback_minutes_ = 0 /\ ~(lookback_minutes_ > 0)
          \/ owner' \in {"create", "start"} => owner' = owner
      BY <1>4, <3>1
    <3>3. QED
      BY <1>4, <2>1, <3>1, <3>2 DEF WarmUp
  <2>4. QED
    BY <2>2, <2>3 DEF Delivered
<1>5. CASE JoinFeeder
  <2>1. /\ owner = "join_feeder" /\ owner' = "stats" /\ feeder = "done" /\ feeder' = "off"
        /\ faults' = faults /\ UNCHANGED <<fed, lookback_minutes_, bar_count_>>
    BY <1>5 DEF JoinFeeder, Goes
  <2>2. ASSUME faults = 0
        PROVE  k + TicksFed = Len(Data)
    <3>1. k + TicksFed = Passed
      BY <1>0, <2>1 DEF FedFrom
    <3>2. source = <<>> /\ Len(<<>>) = 0 /\ Len(Loop) = Len(Data) /\ Len(Data) \in Nat
      BY <2>1, <2>2, EmptySeq, Constants DEF Undisturbed, Loop
    <3>3. QED
      BY <3>1, <3>2 DEF Passed
  <2>3. QED
    BY <1>4, <2>1, <2>2
<1>6. CASE StopFeeder
  <2>1. /\ owner = "stop" /\ owner' \in {"join_feeder", "stats"}
        /\ owner' = "stats" => ~running_
        /\ UNCHANGED <<fed, lookback_minutes_, bar_count_, feeder, source, cache_, from_cache, faults>>
    BY <1>6 DEF StopFeeder, Goes
  <2>2. owner' = "stats" => faults' # 0
    BY <2>1 DEF Undisturbed, Control
  <2>3. QED
    BY <1>4, <2>1, <2>2
<1>7. CASE JoinWorker
  <2>1. /\ owner = "join" /\ owner' = (IF run < LastRun THEN "create" ELSE "end")
        /\ UNCHANGED <<fed, lookback_minutes_, bar_count_, feeder, source, cache_, from_cache>>
    BY <1>7 DEF JoinWorker, Goes
  <2>2. lookback_minutes_ # 0 => ~(run < LastRun)
    BY DEF LastRun, Control, Types
  <2>3. QED
    BY <1>4, <2>1, <2>2
<1>8. CASE EndFeed
  <2>1. /\ feeder = "run" /\ feeder' = "done" /\ owner' = owner
        /\ UNCHANGED <<fed, lookback_minutes_, bar_count_, source, cache_, from_cache>>
    BY <1>8 DEF EndFeed
  <2>2. owner # "stats"
    BY <2>1 DEF Control
  <2>3. QED
    BY <1>4, <2>1, <2>2
<1>9. CASE StartFails \/ WaitForStop \/ CalcStats \/ RemoveCallback \/ DestroyMembers \/ ShutDownQueue
  <2>1. /\ UNCHANGED <<fed, lookback_minutes_, bar_count_, feeder, source, cache_, from_cache>>
        /\ owner' \notin {"create", "start", "stats"}
    BY <1>9 DEF StartFails, WaitForStop, CalcStats, RemoveCallback, DestroyMembers, ShutDownQueue, Goes
  <2>2. QED
    BY <1>4, <2>1
<1>10. CASE Take \/ Handle \/ UNCHANGED vars
  <2>1. UNCHANGED <<fed, lookback_minutes_, bar_count_, feeder, source, cache_, from_cache, owner,
                    faults>>
    BY <1>10 DEF Take, Handle, vars
  <2>2. QED
    BY <1>0, <1>4, <2>1 DEF FedFrom
<1>11. QED
  BY <1>1, <1>2, <1>3, <1>5, <1>6, <1>7, <1>8, <1>9, <1>10 DEF Next, Optimizer

------------------------------------------------------------------------------
(* The candles and the bars                                                *)

\* A later tick is of the same candle or of a later one.
LEMMA StartMonotone ==
  ASSUME NEW tf \in Frames, NEW i \in DOMAIN Data, NEW j \in DOMAIN Data, i <= j
  PROVE  Start(tf, Data[i]) <= Start(tf, Data[j])
<1>1. PICK a, b, m : a = Data[i].time /\ b = Data[j].time /\ m = tf
  OBVIOUS
<1>2. a \in Nat /\ b \in Nat /\ m \in Nat \ {0} /\ a <= b
  <2>1. Data[i] \in Ticks /\ Data[j] \in Ticks
    BY DEF Ticks, Range
  <2>2. a \in Nat /\ b \in Nat /\ m \in Nat \ {0}
    BY <1>1, <2>1, Constants
  <2>3. i < j => a <= b
    BY <1>1, DataAssumption
  <2>4. i \in Int /\ j \in Int
    BY Constants
  <2>5. QED
    BY <1>1, <2>2, <2>3, <2>4
<1>3. PICK q, r : q = a \div m /\ r = b \div m
  OBVIOUS
<1>4. q \in Nat /\ r \in Nat /\ q * m <= a /\ b < r * m + m
  BY <1>2, <1>3, Division
<1>5. q <= r
  <2>1. SUFFICES ASSUME r + 1 <= q PROVE FALSE
    BY <1>4
  <2>2. (r + 1) * m <= q * m
    BY <1>2, <1>4, <2>1
  <2>3. (r + 1) * m = r * m + m
    BY <1>2, <1>4
  <2>4. r * m \in Nat /\ q * m \in Nat
    BY <1>2, <1>4
  <2>5. QED
    BY <1>2, <1>4, <2>2, <2>3, <2>4
<1>6. q * m <= r * m
  BY <1>2, <1>4, <1>5
<1>7. QED
  BY <1>1, <1>3, <1>6 DEF Start


\* A candle that a tick begins sums up that tick.
LEMMA CandleBegun ==
  ASSUME NEW tf \in Frames, NEW n \in DOMAIN Data, NEW bar,
         bar = [o |-> Data[n].bid, h |-> Data[n].bid, l |-> Data[n].bid, c |-> Data[n].bid,
                t |-> Start(tf, Data[n])],
         \A i \in 1..(n - 1) : Start(tf, Data[i]) # Start(tf, Data[n])
  PROVE  SumsUp(bar, tf, n)
<1>1. n \in Nat \ {0} /\ Data[n].bid \in Nat
  <2>1. Data[n] \in Ticks
    BY DEF Ticks, Range
  <2>2. QED
    BY <2>1, Constants
<1>2. PICK P : P = {i \in 1..n : Start(tf, Data[i]) = bar.t}
  OBVIOUS
<1>3. P = {n}
  <2>1. n \in P
    BY <1>1, <1>2
  <2>2. \A i \in P : i = n
    <3>1. \A i \in 1..n : i \in 1..(n - 1) \/ i = n
      BY <1>1
    <3>2. QED
      BY <1>2, <3>1
  <2>3. QED
    BY <2>1, <2>2
<1>4. QED
  BY <1>1, <1>2, <1>3 DEF SumsUp

\* A candle that sums up the ticks before sums up the next tick after it was put in.
LEMMA CandleContinued ==
  ASSUME NEW tf \in Frames, NEW n \in Nat \ {0}, n + 1 \in DOMAIN Data, NEW bar \in Bar, NEW bid,
         bid = Data[n + 1].bid, bar.t = Start(tf, Data[n + 1]),
         SumsUp(bar, tf, n), NEW new \in Bar, new.t = bar.t, new.o = bar.o, new.c = bid,
         new.h = IF bid > bar.h THEN bid ELSE bar.h,
         new.l = IF bid < bar.l THEN bid ELSE bar.l
  PROVE  SumsUp(new, tf, n + 1)
<1>1. /\ bid \in Nat /\ DOMAIN Data = 1..Len(Data) /\ Len(Data) \in Nat
      /\ \A i \in 1..(n + 1) : i \in DOMAIN Data /\ Data[i].bid \in Nat
  <2>1. DOMAIN Data = 1..Len(Data) /\ Len(Data) \in Nat
    BY Constants
  <2>2. \A i \in 1..(n + 1) : i \in DOMAIN Data
    BY <2>1
  <2>3. \A i \in DOMAIN Data : Data[i] \in Ticks
    BY DEF Ticks, Range
  <2>4. QED
    BY <2>1, <2>2, <2>3, Constants
<1>2. PICK P : P = {i \in 1..n : Start(tf, Data[i]) = bar.t}
  OBVIOUS
<1>3. PICK Q : Q = {i \in 1..(n + 1) : Start(tf, Data[i]) = new.t}
  OBVIOUS
<1>4. Q = P \cup {n + 1} /\ \A i \in P : i \in 1..n
  <2>1. 1..(n + 1) = 1..n \cup {n + 1}
    OBVIOUS
  <2>2. QED
    BY <1>2, <1>3, <2>1
<1>5. /\ \E i \in P : bar.o = Data[i].bid /\ \A j \in P : i <= j
      /\ \E i \in P : bar.h = Data[i].bid /\ \A j \in P : Data[j].bid <= bar.h
      /\ \E i \in P : bar.l = Data[i].bid /\ \A j \in P : bar.l <= Data[j].bid
  BY <1>2 DEF SumsUp
<1>6. \E i \in Q : new.o = Data[i].bid /\ \A j \in Q : i <= j
  BY <1>4, <1>5
<1>7. \E i \in Q : new.c = Data[i].bid /\ \A j \in Q : j <= i
  BY <1>4
<1>8. bar.h \in Nat /\ bar.l \in Nat
  BY DEF Bar
<1>9. \E i \in Q : new.h = Data[i].bid /\ \A j \in Q : Data[j].bid <= new.h
  <2>1. PICK i \in P : bar.h = Data[i].bid /\ \A j \in P : Data[j].bid <= bar.h
    BY <1>5
  <2>2. CASE bid > bar.h
    <3>1. \A j \in Q : Data[j].bid <= bid
      BY <1>1, <1>4, <1>8, <2>1, <2>2
    <3>2. n + 1 \in Q /\ new.h = Data[n + 1].bid
      BY <1>4, <2>2
    <3>3. QED
      BY <3>1, <3>2
  <2>3. CASE ~(bid > bar.h)
    <3>1. new.h = bar.h
      BY <2>3
    <3>2. \A j \in Q : Data[j].bid <= bar.h
      BY <1>1, <1>4, <1>8, <2>1, <2>3
    <3>3. QED
      BY <1>4, <2>1, <3>1, <3>2
  <2>4. QED
    BY <2>2, <2>3
<1>10. \E i \in Q : new.l = Data[i].bid /\ \A j \in Q : new.l <= Data[j].bid
  <2>1. PICK i \in P : bar.l = Data[i].bid /\ \A j \in P : bar.l <= Data[j].bid
    BY <1>5
  <2>2. CASE bid < bar.l
    <3>1. \A j \in Q : bid <= Data[j].bid
      BY <1>1, <1>4, <1>8, <2>1, <2>2
    <3>2. n + 1 \in Q /\ new.l = Data[n + 1].bid
      BY <1>4, <2>2
    <3>3. QED
      BY <3>1, <3>2
  <2>3. CASE ~(bid < bar.l)
    <3>1. new.l = bar.l
      BY <2>3
    <3>2. \A j \in Q : bar.l <= Data[j].bid
      BY <1>1, <1>4, <1>8, <2>1, <2>3
    <3>3. QED
      BY <1>4, <2>1, <3>1, <3>2
  <2>4. QED
    BY <2>2, <2>3
<1>11. QED
  BY <1>3, <1>6, <1>7, <1>9, <1>10 DEF SumsUp

\* A bar that sums up the ticks so far sums up all of them when the next is later.
LEMMA CandleEnded ==
  ASSUME NEW tf \in Frames, NEW n \in Nat \ {0}, n + 1 \in DOMAIN Data, NEW bar \in Bar,
         bar.t < Start(tf, Data[n + 1]), SumsUp(bar, tf, n)
  PROVE  SumsUp(bar, tf, Len(Data))
<1>1. DOMAIN Data = 1..Len(Data) /\ Len(Data) \in Nat /\ bar.t \in Nat
  BY Constants DEF Bar
<1>2. ASSUME NEW i \in 1..Len(Data), i \notin 1..n
      PROVE  Start(tf, Data[i]) # bar.t
  <2>1. n + 1 <= i /\ i \in DOMAIN Data
    BY <1>1, <1>2
  <2>2. Start(tf, Data[n + 1]) <= Start(tf, Data[i])
    BY <2>1, StartMonotone
  <2>3. Start(tf, Data[n + 1]) \in Nat /\ Start(tf, Data[i]) \in Nat
    <3>1. Data[n + 1] \in Ticks /\ Data[i] \in Ticks
      BY <2>1 DEF Ticks, Range
    <3>2. QED
      BY <3>1, StartIsTime
  <2>4. QED
    BY <1>1, <2>2, <2>3
<1>3. \A i \in 1..n : i \in 1..Len(Data)
  BY <1>1
<1>4. {i \in 1..n : Start(tf, Data[i]) = bar.t} = {i \in 1..Len(Data) : Start(tf, Data[i]) = bar.t}
  BY <1>2, <1>3
<1>5. QED
  BY <1>4 DEF SumsUp

Exact == UnderConstruction /\ Past /\ Unbegun /\ BarsExact

LEMMA InitExact == Init => Exact
<1> SUFFICES ASSUME Init PROVE Exact
  OBVIOUS
<1>1. DOMAIN fed = {} /\ feeder = "off" /\ \A tf \in Frames : bar_[tf].t = 0
  BY EmptySeq DEF Init, NoBar
<1>2. QED
  BY <1>1 DEF Exact, UnderConstruction, Past, Unbegun, BarsExact

\* The bars that one tick ends are of different time frames.
LEMMA BarsDiffer ==
  ASSUME NEW tick, NEW i \in DOMAIN BarEvents(tick), NEW j \in DOMAIN BarEvents(tick),
         BarEvents(tick)[i].tf = BarEvents(tick)[j].tf
  PROVE  i = j
<1>1. PICK S : S = {tf \in Frames : EndsBar(tf, tick)}
  OBVIOUS
<1>2. PICK ended : ended = Filter(TimeFrames, S)
  OBVIOUS
<1>3. IsInjective(ended)
  BY <1>2, Constants, FilterProperties
<1>4. BarEvents(tick) = [k \in DOMAIN ended |-> [kind |-> "bar", tf |-> ended[k],
                                                 bar |-> bar_[ended[k]]]]
  BY <1>1, <1>2 DEF BarEvents
<1>5. QED
  BY <1>3, <1>4 DEF IsInjective

\* The candle of a time frame after a tick of the feeder.
LEMMA ConstructionFeed ==
  ASSUME Types, Control, Streams, Candles, NoCandle, Exact, NEW tick, NEW e, Fed(tick, e),
         NEW tf \in Frames
  PROVE  /\ bar_'[tf].t = Start(tf, tick)
         /\ run = 1 \/ BarFed(tf) \/ EndsBar(tf, tick) => SumsUp(bar_'[tf], tf, Passed + 1)
<1>1. /\ Passed \in Nat /\ Passed + 1 \in DOMAIN Data /\ tick = Data[Passed + 1]
  BY NextTick DEF Fed
<1>2. PICK n \in Nat : n = Passed
  BY <1>1
<1>3. PICK bar, new : bar = bar_[tf] /\ new = PutTick(tf, tick)
  OBVIOUS
<1>4. /\ tick \in Ticks /\ bar \in Bar /\ new \in Bar /\ new.t = Start(tf, tick) /\ bar_'[tf] = new
      /\ tick.bid \in Nat /\ Start(tf, tick) \in Nat /\ Start(tf, tick) > 0
  <2>1. tick \in Ticks /\ bar_' = [f \in Frames |-> PutTick(f, tick)]
    BY DEF Fed
  <2>2. PutTick(tf, tick) \in Bar /\ PutTick(tf, tick).t = Start(tf, tick)
    BY <2>1, CandleOfTick
  <2>3. QED
    BY <1>3, <2>1, <2>2, Constants, StartIsTime DEF Types
<1>5. feeder # "off" /\ n + 1 \in DOMAIN Data /\ tick = Data[n + 1]
  BY <1>1, <1>2 DEF Fed
<1>6. /\ n = 0 => fed = <<>> /\ (run = 1 => bar.t = 0)
      /\ n > 0 => /\ bar.t = Start(tf, Data[n])
                  /\ run = 1 \/ BarFed(tf) => SumsUp(bar, tf, n)
  BY <1>2, <1>3, <1>5 DEF Exact, UnderConstruction
<1>7. n = 0 => ~BarFed(tf)
  BY <1>6, EmptySeq DEF BarFed
<1>8. SUFFICES ASSUME run = 1 \/ BarFed(tf) \/ EndsBar(tf, tick)
               PROVE  SumsUp(new, tf, n + 1)
  BY <1>2, <1>4
<1>9. CASE Start(tf, tick) # bar.t
  <2>1. new = [o |-> tick.bid, h |-> tick.bid, l |-> tick.bid, c |-> tick.bid,
               t |-> Start(tf, tick)]
    BY <1>3, <1>9 DEF PutTick
  <2>2. (n + 1) - 1 = n
    OBVIOUS
  <2>3. ASSUME NEW i \in 1..n
        PROVE  Start(tf, Data[i]) # Start(tf, Data[n + 1])
    <3>1. i \in DOMAIN Data /\ n \in DOMAIN Data /\ i <= n /\ n <= n + 1 /\ n > 0
      BY <1>5, Constants
    <3>2. /\ Start(tf, Data[i]) <= Start(tf, Data[n])
          /\ Start(tf, Data[n]) <= Start(tf, Data[n + 1])
      BY <1>5, <3>1, StartMonotone
    <3>3. /\ Start(tf, Data[i]) \in Nat /\ Start(tf, Data[n]) \in Nat
          /\ Start(tf, Data[n + 1]) \in Nat
      <4>1. Data[i] \in Ticks /\ Data[n] \in Ticks /\ Data[n + 1] \in Ticks
        BY <1>5, <3>1 DEF Ticks, Range
      <4>2. QED
        BY <4>1, StartIsTime
    <3>4. Start(tf, Data[n]) # Start(tf, Data[n + 1])
      BY <1>5, <1>6, <1>9, <3>1
    <3>5. QED
      BY <3>2, <3>3, <3>4
  <2>4. QED
    BY <1>5, <2>1, <2>2, <2>3, CandleBegun
<1>10. CASE Start(tf, tick) = bar.t
  <2>1. new = [bar EXCEPT !.c = tick.bid, !.h = IF tick.bid > @ THEN tick.bid ELSE @,
                          !.l = IF tick.bid < @ THEN tick.bid ELSE @]
    BY <1>3, <1>10 DEF PutTick
  <2>2. ~EndsBar(tf, tick)
    BY <1>3, <1>10 DEF EndsBar
  <2>3. n # 0
    BY <1>4, <1>6, <1>7, <1>8, <1>10, <2>2
  <2>4. SumsUp(bar, tf, n)
    BY <1>6, <1>8, <2>2, <2>3
  <2>5. /\ new.t = bar.t /\ new.o = bar.o /\ new.c = tick.bid
        /\ new.h = IF tick.bid > bar.h THEN tick.bid ELSE bar.h
        /\ new.l = IF tick.bid < bar.l THEN tick.bid ELSE bar.l
    BY <1>4, <2>1 DEF Bar
  <2>6. QED
    BY <1>4, <1>5, <1>10, <2>3, <2>4, <2>5, CandleContinued
<1>11. QED
  BY <1>9, <1>10

\* Starts of candles as numbers: they do not decrease.
LEMMA Starts ==
  ASSUME NEW tf \in Frames
  PROVE  /\ \A i \in DOMAIN Data : Start(tf, Data[i]) \in Nat
         /\ \A i, j \in DOMAIN Data : i <= j => Start(tf, Data[i]) <= Start(tf, Data[j])
<1>1. \A i \in DOMAIN Data : Data[i] \in Ticks
  BY DEF Ticks, Range
<1>2. QED
  BY <1>1, StartIsTime, StartMonotone

\* A candle that a tick ends and that is not left over has all the ticks of its period
\* and none of them comes later.
LEMMA EndedExact ==
  ASSUME Types, Control, Streams, Exact, NEW tick, NEW e, Fed(tick, e),
         NEW tf \in Frames, EndsBar(tf, tick), run = 1 \/ BarFed(tf)
  PROVE  /\ Passed > 0 /\ bar_[tf].t < Start(tf, tick)
         /\ SumsUp(bar_[tf], tf, Len(Data))
         /\ \A i \in 1..Passed : Start(tf, Data[i]) <= bar_[tf].t
<1>1. /\ Passed \in Nat /\ Passed + 1 \in DOMAIN Data /\ tick = Data[Passed + 1]
  BY NextTick DEF Fed
<1>2. PICK n \in Nat : n = Passed
  BY <1>1
<1>3. PICK bar \in Bar : bar = bar_[tf]
  BY DEF Types
<1>4. feeder # "off" /\ n + 1 \in DOMAIN Data /\ tick = Data[n + 1]
  BY <1>1, <1>2 DEF Fed
<1>5. /\ n = 0 => fed = <<>> /\ (run = 1 => bar.t = 0)
      /\ n > 0 => /\ bar.t = Start(tf, Data[n])
                  /\ run = 1 \/ BarFed(tf) => SumsUp(bar, tf, n)
  BY <1>2, <1>3, <1>4 DEF Exact, UnderConstruction
<1>6. bar.t > 0 /\ Start(tf, tick) # bar.t
  BY <1>3 DEF EndsBar
<1>7. n # 0
  <2>1. n = 0 => ~BarFed(tf)
    BY <1>5, EmptySeq DEF BarFed
  <2>2. QED
    BY <1>5, <1>6, <2>1
<1>8. n > 0 /\ n \in DOMAIN Data /\ \A i \in 1..n : i \in DOMAIN Data /\ i <= n
  BY <1>4, <1>7, Constants
<1>9. n <= n + 1
  OBVIOUS
<1>10. bar.t < Start(tf, Data[n + 1]) /\ \A i \in 1..n : Start(tf, Data[i]) <= bar.t
  BY <1>4, <1>5, <1>6, <1>8, <1>9, Starts
<1>11. SumsUp(bar, tf, Len(Data))
  BY <1>4, <1>5, <1>8, <1>10, CandleEnded
<1>12. QED
  BY <1>2, <1>3, <1>4, <1>8, <1>10, <1>11

\* The events after a tick: those before it, the bars that it ends, and the tick.
LEMMA EventsAfter ==
  ASSUME Types, Types', NEW tick, NEW e, Fed(tick, e), listening
  PROVE  \A i \in DOMAIN fed' :
           \/ i \in DOMAIN fed /\ fed'[i] = fed[i]
           \/ /\ i \notin DOMAIN fed
              /\ fed'[i].kind = "bar" /\ fed'[i].tf \in Frames /\ EndsBar(fed'[i].tf, tick)
              /\ fed'[i].bar = bar_[fed'[i].tf]
              /\ \A j \in DOMAIN fed' : /\ j \in DOMAIN fed => j < i
                                        /\ fed'[j] = [kind |-> "tick", tick |-> tick] => j \in DOMAIN fed \/ i < j
                                        /\ j \notin DOMAIN fed /\ fed'[j].kind = "bar" /\ fed'[j].tf = fed'[i].tf
                                             => j = i
           \/ /\ i \notin DOMAIN fed
              /\ fed'[i] = [kind |-> "tick", tick |-> tick]
              /\ \A j \in DOMAIN fed' : j <= i
<1>1. PICK n, b, m : n = Len(fed) /\ b = BarEvents(tick) /\ m = Len(b)
  OBVIOUS
<1>2. /\ n \in Nat /\ m \in Nat /\ DOMAIN fed = 1..n /\ DOMAIN fed' = 1..Len(fed') /\ DOMAIN b = 1..m
      /\ Len(fed') = IF IsWarmingUp THEN n + m ELSE n + m + 1
      /\ \A j \in 1..n : fed'[j] = fed[j]
      /\ \A j \in 1..m : fed'[n + j] = b[j]
      /\ ~IsWarmingUp => fed'[n + m + 1] = [kind |-> "tick", tick |-> tick]
  BY <1>1, FedPlaces
<1>3. /\ \A j \in 1..m : /\ b[j].kind = "bar" /\ b[j].tf \in Frames /\ EndsBar(b[j].tf, tick)
                         /\ b[j].bar = bar_[b[j].tf]
      /\ \A j, k \in 1..m : b[j].tf = b[k].tf => j = k
  <2>1. tick \in Ticks
    BY DEF Fed
  <2>2. \A j \in DOMAIN b : /\ b[j].kind = "bar" /\ b[j].tf \in Frames /\ EndsBar(b[j].tf, tick)
                            /\ b[j].bar = bar_[b[j].tf]
    BY <1>1, <2>1, BarsOfTick
  <2>3. \A j, k \in DOMAIN b : b[j].tf = b[k].tf => j = k
    BY <1>1, BarsDiffer
  <2>4. QED
    BY <1>2, <2>2, <2>3
<1>4. \A i \in 1..Len(fed') : \/ i \in 1..n
                              \/ i - n \in 1..m /\ i = n + (i - n)
                              \/ ~IsWarmingUp /\ i = n + m + 1
  BY <1>2
<1>5. ASSUME NEW i \in DOMAIN fed', i \notin DOMAIN fed, i - n \in 1..m, i = n + (i - n)
      PROVE  /\ fed'[i].kind = "bar" /\ fed'[i].tf \in Frames /\ EndsBar(fed'[i].tf, tick)
             /\ fed'[i].bar = bar_[fed'[i].tf]
             /\ \A j \in DOMAIN fed' :
                  /\ j \in DOMAIN fed => j < i
                  /\ fed'[j] = [kind |-> "tick", tick |-> tick] => j \in DOMAIN fed \/ i < j
                  /\ j \notin DOMAIN fed /\ fed'[j].kind = "bar" /\ fed'[j].tf = fed'[i].tf => j = i
  <2>1. PICK k \in 1..m : k = i - n
    BY <1>5
  <2>2. fed'[i] = b[k] /\ i = n + k
    BY <1>2, <1>5, <2>1
  <2>3. /\ fed'[i].kind = "bar" /\ fed'[i].tf \in Frames /\ EndsBar(fed'[i].tf, tick)
        /\ fed'[i].bar = bar_[fed'[i].tf]
    BY <1>3, <2>2
  <2>4. ASSUME NEW j \in DOMAIN fed'
        PROVE  /\ j \in DOMAIN fed => j < i
               /\ fed'[j] = [kind |-> "tick", tick |-> tick] => j \in DOMAIN fed \/ i < j
               /\ j \notin DOMAIN fed /\ fed'[j].kind = "bar" /\ fed'[j].tf = fed'[i].tf => j = i
    <3>1. CASE j \in 1..n
      BY <1>2, <1>5, <3>1
    <3>2. CASE j - n \in 1..m /\ j = n + (j - n)
      <4>1. PICK l \in 1..m : l = j - n
        BY <3>2
      <4>2. fed'[j] = b[l] /\ j = n + l /\ j \notin 1..n
        BY <1>2, <3>2, <4>1
      <4>3. fed'[j].kind = "bar"
        BY <1>3, <4>2
      <4>4. fed'[j] # [kind |-> "tick", tick |-> tick]
        BY <4>3
      <4>5. fed'[j].tf = fed'[i].tf => j = i
        BY <1>3, <2>2, <4>2
      <4>6. QED
        BY <1>2, <4>2, <4>4, <4>5
    <3>3. CASE ~IsWarmingUp /\ j = n + m + 1
      BY <1>2, <2>2, <3>3
    <3>4. QED
      BY <1>2, <1>4, <3>1, <3>2, <3>3
  <2>5. QED
    BY <2>3, <2>4
<1>6. ASSUME NEW i \in DOMAIN fed', ~IsWarmingUp, i = n + m + 1
      PROVE  /\ i \notin DOMAIN fed /\ fed'[i] = [kind |-> "tick", tick |-> tick]
             /\ \A j \in DOMAIN fed' : j <= i
  BY <1>2, <1>6
<1>7. QED
  BY <1>2, <1>4, <1>5, <1>6

\* What an event fed is made of.
LEMMA EventParts ==
  ASSUME Types, NEW i \in DOMAIN fed
  PROVE  /\ IsTick(fed[i]) => fed[i].tick \in Ticks /\ fed[i].kind # "bar"
         /\ fed[i].kind = "bar" => fed[i].tf \in Frames /\ fed[i].bar \in Bar /\ ~IsTick(fed[i])
<1>1. fed[i] \in Event
  BY ElementOfSeq DEF Types
<1>2. QED
  BY <1>1 DEF Event, IsTick

\* A bar that was fed and is not left over stays so, and a new one is of a candle that
\* this run began.
LEMMA LeftOverAfter ==
  ASSUME Types, Types', NEW tick, NEW e, Fed(tick, e), listening,
         NEW i \in DOMAIN fed', fed'[i].kind = "bar", ~LeftOver(i)'
  PROVE  /\ i \in DOMAIN fed => ~LeftOver(i)
         /\ i \notin DOMAIN fed => run = 1 \/ BarFed(fed'[i].tf)
<1>1. /\ DOMAIN fed = 1..Len(fed) /\ Len(fed) \in Nat
      /\ DOMAIN fed' = 1..Len(fed') /\ Len(fed') \in Nat /\ run' = run /\ run \in Nat /\ run >= 1
  BY LenProperties, Constants DEF Types, Fed
<1>2. \A j \in DOMAIN fed : fed'[j] = fed[j]
  BY FedPlaces
<1>3. run = 1 \/ \E j \in 1..(i - 1) : fed'[j].kind = "bar" /\ fed'[j].tf = fed'[i].tf
  BY <1>1 DEF LeftOver
<1>4. ASSUME i \in DOMAIN fed
      PROVE  ~LeftOver(i)
  <2>1. \A j \in 1..(i - 1) : j \in DOMAIN fed
    BY <1>1, <1>4
  <2>2. run = 1 \/ \E j \in 1..(i - 1) : fed[j].kind = "bar" /\ fed[j].tf = fed[i].tf
    BY <1>2, <1>3, <1>4, <2>1
  <2>3. QED
    BY <2>2 DEF LeftOver
<1>5. ASSUME i \notin DOMAIN fed, run # 1
      PROVE  BarFed(fed'[i].tf)
  <2>1. PICK j \in 1..(i - 1) : fed'[j].kind = "bar" /\ fed'[j].tf = fed'[i].tf
    BY <1>3, <1>5
  <2>2. j \in DOMAIN fed' /\ j # i
    BY <1>1
  <2>3. fed'[i] # [kind |-> "tick", tick |-> tick]
    OBVIOUS
  <2>4. j \in DOMAIN fed
    <3>1. j \notin DOMAIN fed => j = i
      BY <1>5, <2>1, <2>2, <2>3, EventsAfter
    <3>2. QED
      BY <2>2, <3>1
  <2>5. fed[j].kind = "bar" /\ fed[j].tf = fed'[i].tf
    BY <1>2, <2>1, <2>4
  <2>6. QED
    BY <2>4, <2>5 DEF BarFed
<1>6. QED
  BY <1>4, <1>5

LEMMA ExactFeed ==
  ASSUME Types, Types', Control, Streams, Candles, NoCandle, Exact, NEW tick, NEW e, Fed(tick, e)
  PROVE  Exact'
<1>0. /\ feeder = "run" /\ listening /\ UNCHANGED <<feeder, run, owner>>
      /\ owner \notin {"create", "start"}
  BY DEF Fed, Control
<1>1. /\ Passed \in Nat /\ Passed + 1 \in DOMAIN Data /\ tick = Data[Passed + 1]
      /\ Passed' = Passed + 1
  <2>1. /\ Passed \in Nat /\ Passed + 1 \in DOMAIN Data /\ tick = Data[Passed + 1]
        /\ Len(source) \in Nat /\ Len(source') = Len(source) - 1 /\ Len(Loop) \in Nat
    BY <1>0, NextTick
  <2>2. Loop' = Loop
    BY DEF Loop, Fed, Cached
  <2>3. QED
    BY <2>1, <2>2 DEF Passed
<1>2. PICK n \in Nat : n = Passed
  BY <1>1
<1>3. /\ n + 1 \in DOMAIN Data /\ tick = Data[n + 1] /\ Passed' = n + 1
      /\ DOMAIN Data = 1..Len(Data) /\ \A k \in 1..n : k \in DOMAIN Data /\ k <= n + 1
  BY <1>1, <1>2, Constants
<1>4. \A tf \in Frames : /\ Start(tf, tick) \in Nat
                         /\ \A k \in 1..n : Start(tf, Data[k]) <= Start(tf, tick)
  BY <1>3, Starts
<1>5. \A tf \in Frames : bar_[tf] \in Bar /\ bar_[tf].t \in Nat
  BY DEF Types, Bar
\* the events so far
<1>6. \A i \in DOMAIN fed : IsTick(fed[i]) => \E k \in 1..n : fed[i].tick = Data[k]
  BY <1>0, <1>2 DEF Exact, Past
<1>7. \A i \in DOMAIN fed : fed[i].kind = "bar" /\ ~LeftOver(i) =>
        n > 0 /\ fed[i].bar.t < Start(fed[i].tf, Data[n])
  BY <1>0, <1>2 DEF Exact, Past
<1>8. \A i \in DOMAIN fed : fed[i].kind = "bar" /\ ~LeftOver(i) =>
        fed[i].bar.t < Start(fed[i].tf, tick)
  <2>1. SUFFICES ASSUME NEW i \in DOMAIN fed, fed[i].kind = "bar", ~LeftOver(i)
                 PROVE  fed[i].bar.t < Start(fed[i].tf, tick)
    OBVIOUS
  <2>2. n > 0 /\ fed[i].bar.t < Start(fed[i].tf, Data[n])
    BY <1>7, <2>1
  <2>3. PICK tf \in Frames : tf = fed[i].tf
    BY <2>1, EventParts
  <2>4. fed[i].bar \in Bar /\ fed[i].bar.t \in Nat
    BY <2>1, EventParts DEF Bar
  <2>5. n \in 1..n /\ n \in DOMAIN Data
    BY <1>3, <2>2
  <2>6. Start(tf, Data[n]) <= Start(tf, tick) /\ Start(tf, Data[n]) \in Nat /\ Start(tf, tick) \in Nat
    BY <1>4, <2>5, Starts
  <2>7. QED
    BY <2>2, <2>3, <2>4, <2>6
\* the bars of this tick
<1>9. ASSUME NEW i \in DOMAIN fed', i \notin DOMAIN fed, fed'[i].kind = "bar", ~LeftOver(i)'
      PROVE  /\ fed'[i].tf \in Frames /\ fed'[i].bar \in Bar
             /\ n > 0 /\ fed'[i].bar.t < Start(fed'[i].tf, tick)
             /\ SumsUp(fed'[i].bar, fed'[i].tf, Len(Data))
             /\ \A k \in 1..n : Start(fed'[i].tf, Data[k]) <= fed'[i].bar.t
  <2>1. fed'[i] # [kind |-> "tick", tick |-> tick]
    BY <1>9
  <2>2. /\ fed'[i].tf \in Frames /\ EndsBar(fed'[i].tf, tick)
        /\ fed'[i].bar = bar_[fed'[i].tf]
    BY <1>0, <1>9, <2>1, EventsAfter
  <2>3. PICK tf \in Frames : tf = fed'[i].tf
    BY <2>2
  <2>4. run = 1 \/ BarFed(tf)
    BY <1>0, <1>9, <2>3, LeftOverAfter
  <2>5. /\ Passed > 0 /\ bar_[tf].t < Start(tf, tick)
        /\ SumsUp(bar_[tf], tf, Len(Data))
        /\ \A k \in 1..Passed : Start(tf, Data[k]) <= bar_[tf].t
    BY <2>2, <2>3, <2>4, EndedExact
  <2>6. QED
    BY <1>2, <1>5, <2>2, <2>3, <2>5
<1>10. UnderConstruction'
  <2>1. ASSUME NEW tf \in Frames
        PROVE  /\ bar_'[tf].t = Start(tf, Data[n + 1])
               /\ run' = 1 \/ BarFed(tf)' => SumsUp(bar_'[tf], tf, n + 1)
    <3>1. /\ bar_'[tf].t = Start(tf, tick)
          /\ run = 1 \/ BarFed(tf) \/ EndsBar(tf, tick) => SumsUp(bar_'[tf], tf, n + 1)
      BY <1>2, ConstructionFeed
    <3>2. BarFed(tf)' => BarFed(tf) \/ EndsBar(tf, tick)
      <4>1. SUFFICES ASSUME NEW j \in DOMAIN fed', fed'[j].kind = "bar", fed'[j].tf = tf
                     PROVE  BarFed(tf) \/ EndsBar(tf, tick)
        BY DEF BarFed
      <4>2. fed'[j] # [kind |-> "tick", tick |-> tick]
        BY <4>1
      <4>3. (j \in DOMAIN fed /\ fed'[j] = fed[j]) \/ EndsBar(fed'[j].tf, tick)
        BY <1>0, <4>2, EventsAfter
      <4>4. QED
        BY <4>1, <4>3 DEF BarFed
    <3>3. QED
      BY <1>0, <1>3, <3>1, <3>2
  <2>2. n + 1 > 0 /\ n + 1 # 0
    OBVIOUS
  <2>3. QED
    BY <1>3, <2>1, <2>2 DEF UnderConstruction
<1>11. Past'
  <2>1. ASSUME NEW i \in DOMAIN fed'
        PROVE  /\ IsTick(fed'[i]) => \E k \in 1..(n + 1) : fed'[i].tick = Data[k]
               /\ fed'[i].kind = "bar" /\ ~LeftOver(i)' =>
                    fed'[i].bar.t < Start(fed'[i].tf, Data[n + 1])
    <3>1. \A k \in 1..n : k \in 1..(n + 1)
      OBVIOUS
    <3>2. CASE i \in DOMAIN fed /\ fed'[i] = fed[i]
      BY <1>0, <1>3, <1>6, <1>8, <3>1, <3>2, LeftOverAfter
    <3>3. CASE i \notin DOMAIN fed /\ fed'[i].kind = "bar"
      BY <1>3, <1>9, <3>3 DEF IsTick
    <3>4. CASE fed'[i] = [kind |-> "tick", tick |-> tick]
      <4>1. n + 1 \in 1..(n + 1)
        OBVIOUS
      <4>2. fed'[i].kind # "bar" /\ fed'[i].tick = tick
        BY <3>4
      <4>3. QED
        BY <1>3, <4>1, <4>2
    <3>5. QED
      BY <1>0, <3>2, <3>3, <3>4, EventsAfter
  <2>2. n + 1 > 0
    OBVIOUS
  <2>3. QED
    BY <1>3, <2>1, <2>2 DEF Past
<1>12. BarsExact'
  <2>1. SUFFICES ASSUME NEW i \in DOMAIN fed', fed'[i].kind = "bar", ~LeftOver(i)'
                 PROVE  /\ SumsUp(fed'[i].bar, fed'[i].tf, Len(Data))
                        /\ \A j \in DOMAIN fed' : IsTick(fed'[j]) =>
                             (j < i <=> Start(fed'[i].tf, fed'[j].tick) <= fed'[i].bar.t)
    BY DEF BarsExact
  <2>2. DOMAIN fed' = 1..Len(fed') /\ DOMAIN fed = 1..Len(fed) /\ Len(fed) \in Nat /\ Len(fed') \in Nat
    BY LenProperties DEF Types
  <2>3. \A j \in DOMAIN fed' : IsTick(fed'[j]) =>
          \/ j \in DOMAIN fed /\ fed'[j] = fed[j]
          \/ /\ j \notin DOMAIN fed /\ fed'[j] = [kind |-> "tick", tick |-> tick]
             /\ i <= j /\ i # j
    BY <1>0, <2>1, EventsAfter DEF IsTick
  <2>4. CASE i \in DOMAIN fed
    <3>1. fed'[i] = fed[i] /\ ~LeftOver(i)
      BY <1>0, <2>1, <2>4, EventsAfter, LeftOverAfter
    <3>2. /\ SumsUp(fed[i].bar, fed[i].tf, Len(Data))
          /\ \A j \in DOMAIN fed : IsTick(fed[j]) =>
               (j < i <=> Start(fed[i].tf, fed[j].tick) <= fed[i].bar.t)
      BY <2>1, <2>4, <3>1 DEF Exact, BarsExact
    <3>3. fed[i].bar.t < Start(fed[i].tf, tick)
      BY <1>8, <2>1, <2>4, <3>1
    <3>4. fed[i].tf \in Frames /\ fed[i].bar.t \in Nat
      BY <2>1, <2>4, <3>1, EventParts DEF Bar
    <3>5. ~(Start(fed[i].tf, tick) <= fed[i].bar.t)
      <4>1. PICK tf \in Frames : tf = fed[i].tf
        BY <3>4
      <4>2. Start(tf, tick) \in Nat
        BY <1>4
      <4>3. QED
        BY <3>3, <3>4, <4>1, <4>2
    <3>6. ASSUME NEW j \in DOMAIN fed', j \notin DOMAIN fed, fed'[j] = [kind |-> "tick", tick |-> tick]
          PROVE  (j < i <=> Start(fed'[i].tf, fed'[j].tick) <= fed'[i].bar.t)
      <4>1. ~(j < i) /\ fed'[j].tick = tick
        BY <2>2, <2>4, <3>6
      <4>2. QED
        BY <3>1, <3>5, <4>1
    <3>7. QED
      BY <2>3, <3>1, <3>2, <3>6
  <2>5. CASE i \notin DOMAIN fed
    <3>1. /\ fed'[i].tf \in Frames /\ fed'[i].bar \in Bar
          /\ n > 0 /\ fed'[i].bar.t < Start(fed'[i].tf, tick)
          /\ SumsUp(fed'[i].bar, fed'[i].tf, Len(Data))
          /\ \A k \in 1..n : Start(fed'[i].tf, Data[k]) <= fed'[i].bar.t
      BY <1>9, <2>1, <2>5
    <3>2. ~(Start(fed'[i].tf, tick) <= fed'[i].bar.t)
      <4>1. PICK tf \in Frames : tf = fed'[i].tf
        BY <3>1
      <4>2. Start(tf, tick) \in Nat /\ fed'[i].bar.t \in Nat
        BY <1>4, <3>1 DEF Bar
      <4>3. QED
        BY <3>1, <4>1, <4>2
    <3>3. ASSUME NEW j \in DOMAIN fed, IsTick(fed[j]), fed'[j] = fed[j]
          PROVE  j < i /\ Start(fed'[i].tf, fed'[j].tick) <= fed'[i].bar.t
      <4>1. j < i
        BY <2>2, <2>5
      <4>2. QED
        BY <1>6, <3>1, <3>3, <4>1
    <3>4. ASSUME NEW j \in DOMAIN fed', i <= j, i # j, fed'[j] = [kind |-> "tick", tick |-> tick]
          PROVE  (j < i <=> Start(fed'[i].tf, fed'[j].tick) <= fed'[i].bar.t)
      <4>1. ~(j < i) /\ fed'[j].tick = tick
        BY <2>2, <3>4
      <4>2. QED
        BY <3>2, <4>1
    <3>5. QED
      BY <2>3, <3>1, <3>3, <3>4
  <2>6. QED
    BY <2>4, <2>5
<1>13. Unbegun'
  BY <1>0 DEF Unbegun
<1>14. QED
  BY <1>10, <1>11, <1>12, <1>13 DEF Exact

LEMMA ExactStep ==
  ASSUME Types, Types', Control, Streams, Candles, NoCandle, Delivered, Exact, [Next]_vars
  PROVE  Exact'
<1> USE DEF config, enginevars, feedervars, history
<1>1. CASE Feed
  BY <1>1, FeedFeeds, ExactFeed
<1>2. CASE CreateEngine
  <2>1. /\ fed' = <<>> /\ owner = "create" /\ feeder' = "off" /\ UNCHANGED <<run, bar_>>
    BY <1>2 DEF CreateEngine, Goes, Control
  <2>2. DOMAIN fed' = {}
    BY <2>1, EmptySeq
  <2>3. UnderConstruction' /\ Past' /\ BarsExact'
    BY <2>1, <2>2 DEF UnderConstruction, Past, BarsExact
  <2>4. Unbegun'
    BY <2>1 DEF Exact, Unbegun
  <2>5. QED
    BY <2>3, <2>4 DEF Exact
<1>3. CASE StartFeeder
  <2>1. /\ owner = "start" /\ owner' = "wait" /\ UNCHANGED <<fed, run, bar_, cache_>>
        /\ source' = Loop'
    BY <1>3 DEF StartFeeder, Goes, Loop
  <2>2. fed = <<>> /\ DOMAIN fed' = {}
    BY <2>1, EmptySeq DEF Delivered, WarmUp
  <2>3. Passed' = 0
    <3>1. Len(source') \in Nat
      BY LenProperties DEF Types
    <3>2. QED
      BY <2>1, <3>1 DEF Passed
  <2>4. run = 1 => \A tf \in Frames : bar_[tf].t = 0
    BY <2>1 DEF Exact, Unbegun
  <2>5. UnderConstruction'
    BY <2>1, <2>2, <2>3, <2>4 DEF UnderConstruction
  <2>6. Past' /\ BarsExact' /\ Unbegun'
    BY <2>1, <2>2 DEF Past, BarsExact, Unbegun
  <2>7. QED
    BY <2>5, <2>6 DEF Exact
<1>4. ASSUME UNCHANGED <<fed, bar_>>, run' = run \/ run' = run + 1,
             feeder' # "off" => feeder # "off" /\ UNCHANGED <<source, cache_, from_cache, run>>,
             owner' \in {"create", "start"} => run' = run + 1 \/ (owner' = owner /\ run' = run)
      PROVE  Exact'
  <2>1. run \in Nat /\ run >= 1
    BY Constants DEF Types
  <2>2. \A i \in DOMAIN fed : LeftOver(i) => LeftOver(i)'
    BY <1>4, <2>1 DEF LeftOver
  <2>3. BarsExact'
    BY <1>4, <2>2 DEF Exact, BarsExact
  <2>4. ASSUME feeder' # "off"
        PROVE  /\ Passed' = Passed /\ feeder # "off" /\ run' = run
               /\ \A i \in DOMAIN fed : LeftOver(i)' <=> LeftOver(i)
               /\ \A tf \in Frames : BarFed(tf)' <=> BarFed(tf)
    BY <1>4, <2>4 DEF Passed, Loop, LeftOver, BarFed
  <2>5. UnderConstruction'
    BY <1>4, <2>4 DEF Exact, UnderConstruction
  <2>6. Past'
    BY <1>4, <2>4 DEF Exact, Past
  <2>7. Unbegun'
    BY <1>4, <2>1 DEF Exact, Unbegun
  <2>8. QED
    BY <2>3, <2>5, <2>6, <2>7 DEF Exact
<1>5. CASE JoinWorker
  <2>1. /\ owner = "join" /\ feeder' = feeder /\ UNCHANGED <<fed, bar_>>
        /\ owner' = (IF run < LastRun THEN "create" ELSE "end")
        /\ run' = (IF run < LastRun THEN run + 1 ELSE run)
    BY <1>5 DEF JoinWorker, Goes
  <2>2. feeder' = "off"
    BY <2>1 DEF Control
  <2>3. QED
    BY <1>4, <2>1, <2>2
<1>6. CASE EndFeed \/ Take \/ Handle \/ UNCHANGED vars
  <2>1. /\ UNCHANGED <<fed, bar_, run, source, cache_, from_cache, owner>>
        /\ feeder' # "off" => feeder # "off"
    BY <1>6 DEF EndFeed, Take, Handle, vars
  <2>2. QED
    BY <1>4, <2>1
<1>7. CASE \/ StartFails \/ WaitForStop \/ StopFeeder \/ JoinFeeder \/ CalcStats
           \/ RemoveCallback \/ DestroyMembers \/ ShutDownQueue
  <2>1. /\ UNCHANGED <<fed, bar_, run, source, cache_, from_cache>>
        /\ feeder' # "off" => feeder # "off"
    BY <1>7 DEF StartFails, WaitForStop, StopFeeder, JoinFeeder, CalcStats, RemoveCallback,
       DestroyMembers, ShutDownQueue
  <2>2. owner' \notin {"create", "start"}
    BY <1>7 DEF StartFails, WaitForStop, StopFeeder, JoinFeeder, CalcStats, RemoveCallback,
       DestroyMembers, ShutDownQueue, Goes
  <2>3. QED
    BY <1>4, <2>1, <2>2
<1>8. QED
  BY <1>1, <1>2, <1>3, <1>5, <1>6, <1>7 DEF Next, Optimizer

------------------------------------------------------------------------------
(* The theorems                                                            *)

Inv == /\ Types /\ Control /\ Accounted /\ Streams /\ Candles /\ NoCandle
       /\ Undisturbed /\ Delivered /\ Exact

THEOREM Invariance == Spec => []Inv
<1>1. Init => Inv
  BY InitTypes, InitAccounted, InitStreams, InitUndisturbed, InitDelivered, InitExact DEF Inv
<1>2. Inv /\ [Next]_vars => Inv'
  <2> SUFFICES ASSUME Inv, [Next]_vars PROVE Inv'
    OBVIOUS
  <2>1. Types' /\ Control' /\ Candles' /\ NoCandle'
    BY TypesStep, ControlStep, CandlesStep DEF Inv
  <2>2. Accounted' /\ Streams' /\ Undisturbed'
    BY <2>1, AccountedStep, StreamsStep, UndisturbedStep DEF Inv
  <2>3. Delivered'
    BY <2>1, <2>2, DeliveredStep DEF Inv
  <2>4. Exact'
    BY <2>1, ExactStep DEF Inv
  <2>5. QED
    BY <2>1, <2>2, <2>3, <2>4 DEF Inv
<1>3. QED
  BY <1>1, <1>2, PTL DEF Spec

\* The feeder runs between start() and stop() and is at one place of its ticks, what it
\* keeps is what the database delivered, and no event is lost while the queue is there.
THEOREM TypeCorrect == Spec => []TypeOK
<1>1. Inv => TypeOK
  <2> SUFFICES ASSUME Inv PROVE TypeOK
    OBVIOUS
  <2>1. running_ = (feeder # "off" /\ owner # "join_feeder")
    BY DEF Inv, Types, Control
  <2>2. Passed >= 0
    <3>1. Len(source) \in Nat /\ Len(cache_) \in Nat /\ Len(Data) \in Nat
      BY LenProperties, Constants DEF Inv, Types
    <3>2. QED
      BY <3>1 DEF Inv, Streams, Passed, Loop
  <2>3. \A tf \in Frames : bar_[tf] # NoBar =>
          {bar_[tf].o, bar_[tf].h, bar_[tf].l, bar_[tf].c} \subseteq Prices
    <3>1. \A tf \in Frames : bar_[tf] \in Bar
      BY DEF Inv, Types
    <3>2. \A tf \in Frames : bar_[tf].t \in Nat
      BY <3>1 DEF Bar
    <3>3. QED
      BY <3>2 DEF Inv, Candles, NoCandle
  <2>4. seen \in 0..Len(handled)
    <3>1. Len(handled) \in Nat /\ seen \in Nat
      BY LenProperties DEF Inv, Types
    <3>2. QED
      BY <3>1 DEF Inv, Accounted
  <2>5. QED
    BY <2>1, <2>2, <2>3, <2>4 DEF Inv, Types, Accounted, Streams, TypeOK
<1>2. QED
  BY <1>1, Invariance, PTL

\* The worker of data_events_ never handles an event when bars_ or latest_tick_ is
\* destroyed, and handles one when other members are only if its run was not finished
\* when its statistics were made.
THEOREM SafeTeardown == Spec => []TeardownSafe
<1>1. Inv => TeardownSafe
  <2> SUFFICES ASSUME Inv, handling # <<>>
               PROVE  /\ {"bars_", "latest_tick_"} \cap destroyed = {}
                      /\ destroyed # {} => seen < Len(fed)
    BY DEF TeardownSafe
  <2>1. /\ Len(handled) \in Nat /\ Len(handling) \in Nat /\ Len(handling) # 0
        /\ Len(fed) \in Nat /\ seen \in Nat
    BY LenProperties, EmptySeq DEF Inv, Types
  <2>2. Len(handled) + Len(handling) <= Len(fed) /\ seen <= Len(handled)
    BY DEF Inv, Accounted
  <2>3. seen < Len(fed)
    BY <2>1, <2>2
  <2>4. destroyed \in {{}, {"lock_", "info_data_", "order_events_"}}
    BY DEF Inv, Types, Control
  <2>5. {"bars_", "latest_tick_"} \cap destroyed = {}
    BY <2>4
  <2>6. QED
    BY <2>3, <2>5
<1>2. QED
  BY <1>1, Invariance, PTL

\* In every run, whatever failed before, the strategy is fed the ticks of the data in
\* their order, none left out and none twice; from the first one on and, when nothing
\* failed, to the last one, and with a look-back none before its one-minute bars.
THEOREM AllTicksInOrder == Spec => []TicksInOrder
<1>1. Inv => TicksInOrder
  BY DEF Inv, Delivered, FedFrom, TicksInOrder, TicksFed
<1>2. QED
  BY <1>1, Invariance, PTL

\* A bar that the strategy is given sums up exactly the ticks of its period, however many
\* and of whatever prices; it comes after the last of them and before the first later one.
\* Only the first bar of a time frame in a later run is excepted, which may be left over
\* from the run before.
THEOREM AllBarsExact == Spec => []BarsExact
<1>1. Inv => BarsExact
  BY DEF Inv, Exact
<1>2. QED
  BY <1>1, Invariance, PTL
===============================================================================
