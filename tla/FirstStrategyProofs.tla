--------------------------- MODULE FirstStrategyProofs ---------------------------
(***************************************************************************)
(* Theorems about FirstStrategy for any prices, spread and parameters and  *)
(* any number of ticks.                                                    *)
(***************************************************************************)
EXTENDS FirstStrategy, SequenceLemmas, FiniteSetTheorems

Quotes == {Tick(b, b + Spread) : b \in Bids}
Order  == [side : Sides, kind : Kinds, order_price : Int, stop_loss : Int,
           take_profit : Int, open_price : Int, close_price : Int]
Entry  == [id : Nat, minute : Nat, order : Order]
Candle == [o : Nat, h : Nat, l : Nat]

Types ==
  /\ buy_line_ \in Int /\ sell_line_ \in Int /\ trade_opens_in_current_bar_ \in Nat
  /\ opened_orders_ \in Seq(Entry) /\ closed_orders_ \in Seq(Entry)
  /\ latest_tick_ \in [bid : Nat, ask : Nat]
  /\ bars \in Seq(Candle) /\ candle \in Candle \cup {NoBar}
  /\ minute \in Nat /\ ticks \in 0..MaxTicks

\* One order is open at a time; ids count the orders as they were sent, and an order is
\* in the list that its prices say.
Lists1 ==
  /\ Len(opened_orders_) <= 1
  /\ Len(opened_orders_) + Len(closed_orders_) <= ticks
  /\ \A i \in DOMAIN opened_orders_ :
       /\ opened_orders_[i].id = Len(closed_orders_) + 1
       /\ opened_orders_[i].order.open_price # Undefined
       /\ opened_orders_[i].order.close_price = Undefined
  /\ \A i \in DOMAIN closed_orders_ :
       /\ closed_orders_[i].id = i
       /\ closed_orders_[i].order.open_price # Undefined
       /\ closed_orders_[i].order.close_price # Undefined

\* the orders sent in a minute
Of(m) == {p \in Held \cup Done : p.minute = m}

\* While a candle is under construction the counter covers the orders of its minute.
Counter ==
  /\ IsFiniteSet(Held \cup Done)
  /\ \A p \in Held \cup Done : p.minute <= minute
  /\ candle # NoBar => Cardinality(Of(minute)) <= trade_opens_in_current_bar_
  /\ TradesPerCandle

------------------------------------------------------------------------------
(* What a tick does                                                        *)

LEMMA FilterOne ==
  ASSUME NEW T, NEW s \in Seq(T), NEW S
  PROVE  Len(s) = 1 => Filter(s, S) = IF s[1] \in S THEN <<s[1]>> ELSE <<>>
<1> DEFINE N == Len(s)
<1>1. PICK g \in [0..N -> Seq(T)] :
        /\ g[0] = <<>> /\ Filter(s, S) = g[N]
        /\ \A n \in 1..N : g[n] = IF s[n] \in S THEN Append(g[n - 1], s[n]) ELSE g[n - 1]
  BY FilterSteps, SMTT(30)
<1>2. ASSUME N = 1
      PROVE  g[1] = IF s[1] \in S THEN Append(g[0], s[1]) ELSE g[0]
  <2>1. 1 \in 1..N /\ 1 - 1 = 0
    BY <1>2
  <2>2. QED
    BY <1>1, <2>1
<1>3. Append(<<>>, s[1]) = <<s[1]>>
  OBVIOUS
<1>4. QED
  BY <1>1, <1>2, <1>3

LEMMA Constants ==
  /\ \A q \in Quotes : q.bid \in Nat \ {0} /\ q.ask \in Nat \ {0} /\ q.ask = q.bid + Spread
                       /\ q \in [bid : Nat, ask : Nat]
  /\ Spread \in Nat /\ StopDistance \in Nat /\ LinesDist \in Nat /\ MaxTrades \in Nat /\ MaxTicks \in Nat
<1>1. \A b \in Bids : b \in Nat \ {0} /\ b + Spread \in Nat \ {0}
  BY ParamsAssumption
<1>2. LinesDist \in Nat /\ LinesDist \div 2 \in Nat
  BY ParamsAssumption
<1>3. QED
  BY <1>1, <1>2, ParamsAssumption DEF Quotes, Tick, StopDistance

\* the stop loss and the take profit of a new order
Brackets(o, t) ==
  \/ o.side = "buy" /\ o.stop_loss = t.ask - StopDistance /\ o.take_profit = t.ask + StopDistance
  \/ o.side = "sell" /\ o.stop_loss = t.bid + StopDistance /\ o.take_profit = t.bid - StopDistance

\* A new order is not past them, unless the stop distance is within the spread.
LEMMA NotHit ==
  ASSUME NEW t \in Quotes, NEW o, Brackets(o, t), Spread < StopDistance
  PROVE  ~Hit(o, t)
<1>1. /\ t.bid \in Nat /\ t.ask = t.bid + Spread /\ Spread \in Nat \ {0} /\ StopDistance \in Nat
  BY Constants, ParamsAssumption
<1>2. CASE o.side = "buy" /\ o.stop_loss = t.ask - StopDistance /\ o.take_profit = t.ask + StopDistance
  <2>1. ~(t.bid <= o.stop_loss) /\ ~(t.bid >= o.take_profit)
    BY <1>1, <1>2
  <2>2. QED
    BY <1>2, <2>1 DEF Hit
<1>3. CASE o.side = "sell" /\ o.stop_loss = t.bid + StopDistance /\ o.take_profit = t.bid - StopDistance
  <2>1. ~(t.ask >= o.stop_loss) /\ ~(t.ask <= o.take_profit)
    BY <1>1, <1>3
  <2>2. QED
    BY <1>3, <2>1 DEF Hit
<1>4. QED
  BY <1>2, <1>3 DEF Brackets

\* The three things that a tick may do with the orders.
Stays == UNCHANGED <<opened_orders_, closed_orders_, trade_opens_in_current_bar_>>

Sends(t, o) ==
  /\ buy_line_ > 0 /\ sell_line_ > 0
  /\ opened_orders_ = <<>> /\ trade_opens_in_current_bar_ < MaxTrades
  /\ o \in Order /\ o.open_price = OpenSide(o, t) /\ o.close_price = Undefined
  /\ Spread < StopDistance => ~Hit(o, t)
  /\ opened_orders_' = <<[id |-> Len(closed_orders_) + 1, minute |-> minute', order |-> o]>>
  /\ trade_opens_in_current_bar_' = trade_opens_in_current_bar_ + 1
  /\ UNCHANGED closed_orders_

Closes(t, p) ==
  /\ buy_line_ > 0 /\ sell_line_ > 0
  /\ p \in Entry /\ opened_orders_ = <<p>> /\ CheckClose(p.order, t)
  /\ opened_orders_' = <<>>
  /\ closed_orders_' = Append(closed_orders_, [p EXCEPT !.order = Close(@, t)])
  /\ UNCHANGED trade_opens_in_current_bar_

\* With lines, an order that stays is not due.
Watched(t) == Stays => \/ buy_line_ <= 0 \/ sell_line_ <= 0
                       \/ \A p \in Range(opened_orders_) : ~CheckClose(p.order, t)

LEMMA Outcome ==
  ASSUME Types, Lists1, NEW t \in Quotes, on_tick(t)
  PROVE  /\ Stays \/ (\E o : Sends(t, o)) \/ (\E p : Closes(t, p))
         /\ Watched(t)
         /\ minute' = minute + (IF candle = NoBar THEN 1 ELSE 0) /\ minute' \in Nat
         /\ ticks' = ticks + 1 /\ ticks' \in 1..MaxTicks /\ latest_tick_' = t /\ candle' \in Candle
         /\ UNCHANGED <<buy_line_, sell_line_, bars>>
<1>1. /\ ticks < MaxTicks /\ ticks' = ticks + 1 /\ latest_tick_' = t /\ candle' = PutTick(t)
      /\ minute' = minute + (IF candle = NoBar THEN 1 ELSE 0)
      /\ UNCHANGED <<buy_line_, sell_line_, bars>>
      /\ HandleTick(t)
  BY DEF on_tick
<1>2. /\ ticks' \in 1..MaxTicks /\ minute' \in Nat /\ minute \in Nat
      /\ trade_opens_in_current_bar_ \in Nat
  BY <1>1, Constants DEF Types
<1>3. candle' \in Candle
  <2>1. t.bid \in Nat
    BY Constants
  <2>2. CASE candle = NoBar
    BY <1>1, <2>1, <2>2 DEF PutTick, Candle
  <2>3. CASE candle # NoBar
    <3>1. PICK c \in Candle : c = candle
      BY <2>3 DEF Types
    <3>2. PICK d : d = candle'
      OBVIOUS
    <3>3. d = [c EXCEPT !.h = IF t.bid > @ THEN t.bid ELSE @, !.l = IF t.bid < @ THEN t.bid ELSE @]
      BY <1>1, <2>3, <3>1, <3>2 DEF PutTick
    <3>4. d \in Candle
      BY <2>1, <3>1, <3>3 DEF Candle
    <3>5. QED
      BY <3>2, <3>4
  <2>4. QED
    BY <2>2, <2>3
<1>4. CASE ~(buy_line_ > 0 /\ sell_line_ > 0)
  <2>1. buy_line_ <= 0 \/ sell_line_ <= 0
    BY <1>4 DEF Types
  <2>2. Idle
    BY <1>1, <2>1 DEF HandleTick
  <2>3. QED
    BY <1>1, <1>2, <1>3, <2>1, <2>2 DEF Idle, Stays, Watched
<1>5. CASE buy_line_ > 0 /\ sell_line_ > 0 /\ opened_orders_ # <<>>
  <2>1. CheckOrdersClosing(t) /\ ~(buy_line_ <= 0 \/ sell_line_ <= 0)
    BY <1>1, <1>5 DEF HandleTick, Types
  <2>2. PICK p \in Entry : opened_orders_ = <<p>>
    <3>1. opened_orders_ \in Seq(Entry) /\ Len(opened_orders_) <= 1 /\ opened_orders_ # <<>>
      BY <1>5 DEF Types, Lists1
    <3>2. PICK s : s = opened_orders_
      OBVIOUS
    <3>3. s \in Seq(Entry) /\ Len(s) = 1
      <4>1. s \in Seq(Entry) /\ Len(s) <= 1 /\ s # <<>>
        BY <3>1, <3>2
      <4>2. PICK n \in Nat : n = Len(s)
        BY <4>1, LenProperties
      <4>3. n # 0 /\ n <= 1
        BY <4>1, <4>2, EmptySeq
      <4>4. n = 1
        BY <4>3
      <4>5. QED
        BY <4>1, <4>2, <4>4
    <3>4. s[1] \in Entry
      BY <3>3, ElementOfSeq
    <3>5. s = <<s[1]>>
      BY <3>3
    <3>6. QED
      BY <3>2, <3>4, <3>5
  <2>3. PICK D : D = DueToClose(t)
    OBVIOUS
  <2>4. Range(opened_orders_) = {p} /\ (p \in D <=> CheckClose(p.order, t)) /\ D \subseteq {p}
    <3>1. Range(opened_orders_) = {p}
      <4>1. PICK s : s = <<p>>
        OBVIOUS
      <4>2. DOMAIN s = {1} /\ s[1] = p
        BY <4>1
      <4>3. QED
        BY <2>2, <4>1, <4>2 DEF Range
    <3>2. QED
      BY <2>3, <3>1 DEF DueToClose
  <2>5. /\ Filter(opened_orders_, D) = IF p \in D THEN <<p>> ELSE <<>>
        /\ Filter(opened_orders_, {p} \ D) = IF p \in D THEN <<>> ELSE <<p>>
    <3>1. <<p>> \in Seq(Entry) /\ Len(<<p>>) = 1 /\ <<p>>[1] = p
      OBVIOUS
    <3>2. PICK s \in Seq(Entry) : s = <<p>>
      BY <3>1
    <3>3. \A S : Filter(s, S) = IF s[1] \in S THEN <<s[1]>> ELSE <<>>
      <4>1. Len(s) = 1
        BY <3>1, <3>2
      <4>2. QED
        BY <4>1, FilterOne
    <3>4. s = opened_orders_ /\ s[1] = p
      BY <2>2, <3>1, <3>2
    <3>5. QED
      BY <3>3, <3>4
  <2>6. /\ opened_orders_' = Filter(opened_orders_, {p} \ D)
        /\ IF Filter(opened_orders_, D) # <<>>
             THEN closed_orders_' = Append(closed_orders_,
                    [Filter(opened_orders_, D)[1] EXCEPT !.order = Close(@, t)])
             ELSE UNCHANGED closed_orders_
        /\ UNCHANGED trade_opens_in_current_bar_
    BY <2>1, <2>3, <2>4 DEF CheckOrdersClosing
  <2>7. <<p>> # <<>> /\ <<p>>[1] = p
    OBVIOUS
  <2>8. CASE p \in D
    <3>1. CheckClose(p.order, t) /\ Filter(opened_orders_, D) = <<p>> /\ opened_orders_' = <<>>
      BY <2>4, <2>5, <2>6, <2>8
    <3>2. closed_orders_' = Append(closed_orders_, [p EXCEPT !.order = Close(@, t)])
      BY <2>6, <2>7, <3>1
    <3>3. Closes(t, p)
      BY <1>5, <2>2, <2>6, <3>1, <3>2 DEF Closes
    <3>4. ~Stays
      BY <2>2, <2>7, <3>1 DEF Stays
    <3>5. QED
      BY <1>1, <1>2, <1>3, <3>3, <3>4 DEF Watched
  <2>9. CASE p \notin D
    <3>1. Stays /\ \A q \in Range(opened_orders_) : ~CheckClose(q.order, t)
      BY <2>2, <2>4, <2>5, <2>6, <2>9 DEF Stays
    <3>2. QED
      BY <1>1, <1>2, <1>3, <3>1 DEF Watched
  <2>10. QED
    BY <2>8, <2>9
<1>6. CASE buy_line_ > 0 /\ sell_line_ > 0 /\ opened_orders_ = <<>>
  <2>1. ~(buy_line_ <= 0 \/ sell_line_ <= 0)
    BY <1>6 DEF Types
  <2>2. Watched(t)
    BY <1>6, EmptySeq DEF Watched, Range
  <2>3. CASE trade_opens_in_current_bar_ >= MaxTrades
    <3>1. Stays
      BY <1>1, <1>6, <2>1, <2>3 DEF HandleTick, Idle, Stays
    <3>2. QED
      BY <1>1, <1>2, <1>3, <2>2, <3>1
  <2>4. CASE ~(trade_opens_in_current_bar_ >= MaxTrades)
    <3>1. OrderSend(t) /\ trade_opens_in_current_bar_ < MaxTrades
      BY <1>1, <1>2, <1>6, <2>1, <2>4, Constants DEF HandleTick
    <3>2. CASE \E i \in DOMAIN Wanted(t) : IsValid(Wanted(t)[i])
      <4>1. NextId = Len(closed_orders_) + 1
        <5>1. Len(opened_orders_) = 0 /\ Len(closed_orders_) \in Nat
          BY <1>6, LenProperties, EmptySeq DEF Types
        <5>2. QED
          BY <5>1 DEF NextId
      <4>2. PICK w \in Order : Wanted(t) = <<w>> /\ w.open_price = Undefined /\ w.close_price = Undefined
                               /\ Brackets(w, t)
        <5>1. Wanted(t) # <<>>
          BY <3>2, EmptySeq
        <5>2. /\ t.bid \in Int /\ t.ask \in Int /\ t.ask - StopDistance \in Int
              /\ t.ask + StopDistance \in Int /\ t.bid - StopDistance \in Int
              /\ t.bid + StopDistance \in Int /\ Undefined \in Int
          BY Constants DEF Undefined
        <5>3. \A s \in Sides, x, y, z \in Int :
                LET w == NewOrder(s, "market", x, y, z)
                IN /\ w \in Order /\ w.open_price = Undefined /\ w.close_price = Undefined
                   /\ w.side = s /\ w.stop_loss = y /\ w.take_profit = z
          BY <5>2 DEF NewOrder, Order, Kinds
        <5>4. "buy" \in Sides /\ "sell" \in Sides
          BY DEF Sides
        <5>5. QED
          BY <5>1, <5>2, <5>3, <5>4 DEF Wanted, Brackets
      <4>3. PICK o : o = Open(w, t)
        OBVIOUS
      <4>4. o \in Order /\ o.open_price = OpenSide(o, t) /\ o.close_price = Undefined
            /\ Brackets(o, t)
        <5>1. t.bid \in Int /\ t.ask \in Int
          BY Constants
        <5>2. OpenSide(w, t) \in Int
          BY <5>1 DEF OpenSide
        <5>3. o = [w EXCEPT !.open_price = OpenSide(w, t)]
          BY <4>3 DEF Open
        <5>4. /\ o \in Order /\ o.side = w.side /\ o.open_price = OpenSide(w, t) /\ o.close_price = Undefined
              /\ o.stop_loss = w.stop_loss /\ o.take_profit = w.take_profit
          BY <4>2, <5>2, <5>3 DEF Order
        <5>5. QED
          BY <4>2, <5>4 DEF OpenSide, Brackets
      <4>5. /\ opened_orders_' = Append(<<>>, [id |-> Len(closed_orders_) + 1, minute |-> minute', order |-> o])
            /\ trade_opens_in_current_bar_' = trade_opens_in_current_bar_ + 1
            /\ UNCHANGED closed_orders_
        <5>1. Wanted(t)[1] = w
          BY <4>2
        <5>2. QED
          BY <1>6, <3>1, <3>2, <4>1, <4>3, <5>1 DEF OrderSend
      <4>6. \A x : Append(<<>>, x) = <<x>>
        OBVIOUS
      <4>7. Spread < StopDistance => ~Hit(o, t)
        BY <4>4, NotHit
      <4>8. Sends(t, o)
        BY <1>6, <3>1, <4>4, <4>5, <4>6, <4>7 DEF Sends
      <4>9. QED
        BY <1>1, <1>2, <1>3, <2>2, <4>8
    <3>3. CASE ~ \E i \in DOMAIN Wanted(t) : IsValid(Wanted(t)[i])
      <4>1. Stays
        BY <3>1, <3>3 DEF OrderSend, Stays
      <4>2. QED
        BY <1>1, <1>2, <1>3, <2>2, <4>1
    <3>4. QED
      BY <3>2, <3>3
  <2>5. QED
    BY <2>3, <2>4
<1>7. QED
  BY <1>4, <1>5, <1>6

------------------------------------------------------------------------------
(* The lists and the counter                                               *)

LEMMA InitInv == Init => Types /\ Lists1 /\ Counter
<1> SUFFICES ASSUME Init PROVE Types /\ Lists1 /\ Counter
  OBVIOUS
<1>1. /\ <<>> \in Seq(Entry) /\ <<>> \in Seq(Candle) /\ Len(<<>>) = 0 /\ DOMAIN <<>> = {}
  BY EmptySeq
<1>2. Types
  BY <1>1, Constants DEF Init, Types, Tick
<1>3. Lists1
  BY <1>1 DEF Init, Lists1
<1>4. Held = {} /\ Done = {}
  BY <1>1 DEF Init, Held, Done, Range
<1>5. \A m : {p \in Held \cup Done : p.minute = m} = {}
  BY <1>4
<1>6. TradesPerCandle
  BY <1>5, Constants, FS_EmptySet DEF TradesPerCandle
<1>7. Counter
  <2>1. Held \cup Done = {}
    BY <1>4
  <2>2. QED
    BY <1>4, <1>6, <2>1, FS_EmptySet DEF Init, Counter
<1>8. QED
  BY <1>2, <1>3, <1>7

\* The three forms of a step.
LEMMA Steps ==
  ASSUME Next
  PROVE  on_bar \/ \E t \in Quotes : on_tick(t)
BY DEF Next, Quotes

LEMMA TypesStep == Types /\ Lists1 /\ [Next]_vars => Types'
<1> SUFFICES ASSUME Types, Lists1, [Next]_vars PROVE Types'
  OBVIOUS
<1>1. CASE on_bar
  <2>1. PICK c \in Candle : c = candle
    BY <1>1 DEF on_bar, Types
  <2>2. PICK last : last = Append(bars, candle)
    OBVIOUS
  <2>3. PICK two : two = IF Len(last) > 2 THEN Tail(last) ELSE last
    OBVIOUS
  <2>4. last \in Seq(Candle)
    BY <2>1, <2>2, AppendProperties DEF Types
  <2>5. two \in Seq(Candle)
    <3>1. Len(last) > 2 => last # <<>>
      BY <2>4, EmptySeq
    <3>2. QED
      BY <2>3, <2>4, <3>1, HeadTailProperties
  <2>6. /\ bars' = two
        /\ IF Len(two) < 2 THEN UNCHANGED strategyvars
           ELSE IF IsBarLegal(two[2])
             THEN /\ buy_line_' = 0 /\ sell_line_' = 0
                  /\ UNCHANGED trade_opens_in_current_bar_
             ELSE /\ buy_line_' = 2 * two[1].o + LinesDist
                  /\ sell_line_' = 2 * two[1].o - LinesDist
                  /\ trade_opens_in_current_bar_' = 0
        /\ candle' = NoBar
        /\ UNCHANGED <<opened_orders_, closed_orders_, latest_tick_, minute, ticks>>
    BY <1>1, <2>2, <2>3 DEF on_bar
  <2>7. ~(Len(two) < 2) => two[1].o \in Nat
    <3>1. Len(two) \in Nat /\ \A i \in 1..Len(two) : two[i] \in Candle
      BY <2>5, LenProperties, ElementOfSeq
    <3>2. ~(Len(two) < 2) => 1 \in 1..Len(two)
      BY <3>1
    <3>3. QED
      BY <3>1, <3>2 DEF Candle
  <2>8. /\ buy_line_' \in Int /\ sell_line_' \in Int /\ trade_opens_in_current_bar_' \in Nat
    BY <2>6, <2>7, Constants, SMTT(30) DEF Types, strategyvars
  <2>9. QED
    BY <2>5, <2>6, <2>8 DEF Types
<1>2. ASSUME NEW t \in Quotes, on_tick(t)
      PROVE  Types'
  <2>1. /\ Stays \/ (\E o : Sends(t, o)) \/ (\E p : Closes(t, p))
        /\ minute' \in Nat /\ ticks' \in 0..MaxTicks /\ latest_tick_' = t /\ candle' \in Candle
        /\ UNCHANGED <<buy_line_, sell_line_, bars>>
    BY <1>2, Outcome
  <2>2. latest_tick_' \in [bid : Nat, ask : Nat]
    BY <2>1, Constants
  <2>3. /\ opened_orders_' \in Seq(Entry) /\ closed_orders_' \in Seq(Entry)
        /\ trade_opens_in_current_bar_' \in Nat
    <3>1. CASE Stays
      BY <3>1 DEF Stays, Types
    <3>2. ASSUME NEW o, Sends(t, o)
          PROVE  /\ opened_orders_' \in Seq(Entry) /\ closed_orders_' \in Seq(Entry)
                 /\ trade_opens_in_current_bar_' \in Nat
      <4>1. PICK e : e = [id |-> Len(closed_orders_) + 1, minute |-> minute', order |-> o]
        OBVIOUS
      <4>2. Len(closed_orders_) \in Nat
        BY LenProperties DEF Types
      <4>3. e \in Entry
        BY <2>1, <3>2, <4>1, <4>2 DEF Sends, Entry
      <4>4. <<e>> \in Seq(Entry)
        BY <4>3
      <4>5. QED
        BY <3>2, <4>1, <4>4 DEF Sends, Types
    <3>3. ASSUME NEW p, Closes(t, p)
          PROVE  /\ opened_orders_' \in Seq(Entry) /\ closed_orders_' \in Seq(Entry)
                 /\ trade_opens_in_current_bar_' \in Nat
      <4>1. p \in Entry /\ closed_orders_' = Append(closed_orders_, [p EXCEPT !.order = Close(@, t)])
            /\ opened_orders_' = <<>> /\ UNCHANGED trade_opens_in_current_bar_
        BY <3>3 DEF Closes
      <4>2. p.order \in Order /\ t.bid \in Int /\ t.ask \in Int
        BY <4>1, Constants DEF Entry
      <4>3. CloseSide(p.order, t) \in Int
        BY <4>2 DEF CloseSide
      <4>4. Close(p.order, t) \in Order
        BY <4>2, <4>3 DEF Close, Order
      <4>5. [p EXCEPT !.order = Close(@, t)] \in Entry
        BY <4>1, <4>4 DEF Entry
      <4>6. QED
        BY <4>1, <4>5, AppendProperties, EmptySeq DEF Types
    <3>4. QED
      BY <2>1, <3>1, <3>2, <3>3
  <2>4. QED
    BY <2>1, <2>2, <2>3 DEF Types
<1>3. CASE UNCHANGED vars
  BY <1>3 DEF vars, strategyvars, Types
<1>4. QED
  BY <1>1, <1>2, <1>3, Steps

\* The order that a tick closes, with its prices.
LEMMA ClosedEntry ==
  ASSUME Types, NEW t \in Quotes, NEW p, Closes(t, p)
  PROVE  LET q == [p EXCEPT !.order = Close(@, t)]
         IN /\ q.id = p.id /\ q.minute = p.minute
            /\ q.order.side = p.order.side /\ q.order.open_price = p.order.open_price
            /\ q.order.close_price = CloseSide(p.order, t)
            /\ q.order.close_price # Undefined
<1>1. p \in Entry
  BY DEF Closes
<1>2. p.order \in Order
  BY <1>1 DEF Entry
<1>3. PICK o \in Order : o = p.order
  BY <1>2
<1>4. PICK c : c = [o EXCEPT !.close_price = CloseSide(o, t)]
  OBVIOUS
<1>5. c.side = o.side /\ c.open_price = o.open_price /\ c.close_price = CloseSide(o, t)
  BY <1>4 DEF Order
<1>6. c = Close(p.order, t)
  BY <1>3, <1>4 DEF Close
<1>7. PICK q : q = [p EXCEPT !.order = Close(@, t)]
  OBVIOUS
<1>8. q.id = p.id /\ q.minute = p.minute /\ q.order = c
  BY <1>1, <1>6, <1>7 DEF Entry
<1>9. CloseSide(p.order, t) # Undefined
  <2>1. t.bid \in Nat /\ t.ask \in Nat
    BY Constants
  <2>2. QED
    BY <2>1 DEF CloseSide, Undefined
<1>10. QED
  BY <1>3, <1>5, <1>7, <1>8, <1>9

\* What a tick does to the sets of open and of closed orders.
LEMMA SetsAfterTick ==
  ASSUME Types, Lists1, Types', NEW t \in Quotes
  PROVE  /\ Stays => Held' = Held /\ Done' = Done
         /\ \A o : Sends(t, o) =>
              /\ Held = {} /\ Done' = Done
              /\ Held' = {[id |-> Len(closed_orders_) + 1, minute |-> minute', order |-> o]}
         /\ \A p : Closes(t, p) =>
              /\ Held = {p} /\ Held' = {} /\ p \notin Done
              /\ Done' = Done \cup {[p EXCEPT !.order = Close(@, t)]}
<1>1. Stays => Held' = Held /\ Done' = Done
  BY DEF Stays, Held, Done
<1>2. \A x : Range(<<x>>) = {x}
  <2>1. TAKE x
  <2>2. PICK s : s = <<x>>
    OBVIOUS
  <2>3. DOMAIN s = {1} /\ s[1] = x
    BY <2>2
  <2>4. QED
    BY <2>2, <2>3 DEF Range
<1>3. Range(<<>>) = {}
  BY EmptySeq DEF Range
<1>4. ASSUME NEW o, Sends(t, o)
      PROVE  /\ Held = {} /\ Done' = Done
             /\ Held' = {[id |-> Len(closed_orders_) + 1, minute |-> minute', order |-> o]}
  <2>1. /\ opened_orders_ = <<>> /\ UNCHANGED closed_orders_
        /\ opened_orders_' = <<[id |-> Len(closed_orders_) + 1, minute |-> minute', order |-> o]>>
    BY <1>4 DEF Sends
  <2>2. QED
    BY <1>2, <1>3, <2>1 DEF Held, Done
<1>5. ASSUME NEW p, Closes(t, p)
      PROVE  /\ Held = {p} /\ Held' = {} /\ p \notin Done
             /\ Done' = Done \cup {[p EXCEPT !.order = Close(@, t)]}
  <2>1. /\ p \in Entry /\ opened_orders_ = <<p>> /\ opened_orders_' = <<>>
        /\ closed_orders_' = Append(closed_orders_, [p EXCEPT !.order = Close(@, t)])
    BY <1>5 DEF Closes
  <2>2. Held = {p} /\ Held' = {}
    BY <1>2, <1>3, <2>1 DEF Held
  <2>3. p \notin Done
    <3>1. PICK s : s = opened_orders_
      OBVIOUS
    <3>2. 1 \in DOMAIN s /\ s[1] = p
      BY <2>1, <3>1
    <3>3. p.order.close_price = Undefined
      BY <3>1, <3>2 DEF Lists1
    <3>4. \A d \in Done : d.order.close_price # Undefined
      BY DEF Lists1, Done, Range
    <3>5. QED
      BY <3>3, <3>4
  <2>4. Done' = Done \cup {[p EXCEPT !.order = Close(@, t)]}
    <3>1. PICK q : q = [p EXCEPT !.order = Close(@, t)]
      OBVIOUS
    <3>2. q \in Entry
      <4>1. p.order \in Order /\ t.bid \in Int /\ t.ask \in Int
        BY <2>1, Constants DEF Entry
      <4>2. CloseSide(p.order, t) \in Int
        BY <4>1 DEF CloseSide
      <4>3. Close(p.order, t) \in Order
        BY <4>1, <4>2 DEF Close, Order
      <4>4. QED
        BY <2>1, <3>1, <4>3 DEF Entry
    <3>3. Range(Append(closed_orders_, q)) = Range(closed_orders_) \cup {q}
      BY <3>2, RangeOfAppend, SMTT(30) DEF Types
    <3>4. QED
      BY <2>1, <3>1, <3>3 DEF Done
  <2>5. QED
    BY <2>2, <2>3, <2>4
<1>6. QED
  BY <1>1, <1>4, <1>5

LEMMA Lists1Step == Types /\ Lists1 /\ Types' /\ [Next]_vars => Lists1'
<1> SUFFICES ASSUME Types, Lists1, Types', [Next]_vars PROVE Lists1'
  OBVIOUS
<1>1. CASE on_bar
  BY <1>1 DEF on_bar, Lists1
<1>2. ASSUME NEW t \in Quotes, on_tick(t)
      PROVE  Lists1'
  <2>1. /\ Stays \/ (\E o : Sends(t, o)) \/ (\E p : Closes(t, p))
        /\ ticks' = ticks + 1
    BY <1>2, Outcome
  <2>2. /\ ticks \in Nat /\ Len(closed_orders_) \in Nat
        /\ DOMAIN closed_orders_ = 1..Len(closed_orders_)
    BY LenProperties DEF Types
  <2>3. CASE Stays
    <3>1. PICK n : n = Len(opened_orders_) + Len(closed_orders_)
      OBVIOUS
    <3>2. n \in Nat /\ n <= ticks
      BY <2>2, <3>1, LenProperties DEF Lists1, Types
    <3>3. n <= ticks + 1
      BY <2>2, <3>2
    <3>4. QED
      BY <2>1, <2>3, <3>1, <3>3 DEF Stays, Lists1
  <2>4. ASSUME NEW o, Sends(t, o)
        PROVE  Lists1'
    <3>1. PICK e : e = [id |-> Len(closed_orders_) + 1, minute |-> minute', order |-> o]
      OBVIOUS
    <3>2. PICK s : s = <<e>>
      OBVIOUS
    <3>3. opened_orders_' = s /\ closed_orders_' = closed_orders_ /\ opened_orders_ = <<>>
      BY <2>4, <3>1, <3>2 DEF Sends
    <3>4. DOMAIN s = {1} /\ s[1] = e /\ Len(s) = 1
      BY <3>2
    <3>5. e.id = Len(closed_orders_) + 1 /\ e.order.open_price # Undefined
          /\ e.order.close_price = Undefined
      <4>1. o \in Order /\ o.open_price = OpenSide(o, t) /\ o.close_price = Undefined
        BY <2>4 DEF Sends
      <4>2. OpenSide(o, t) # Undefined
        <5>1. t.bid \in Nat /\ t.ask \in Nat
          BY Constants
        <5>2. QED
          BY <5>1 DEF OpenSide, Undefined
      <4>3. QED
        BY <3>1, <4>1, <4>2
    <3>6. 1 + Len(closed_orders_) <= ticks + 1
      <4>1. Len(closed_orders_) <= ticks
        BY <2>2, <3>3, EmptySeq DEF Lists1
      <4>2. QED
        BY <2>2, <4>1
    <3>7. QED
      BY <2>1, <3>3, <3>4, <3>5, <3>6 DEF Lists1
  <2>5. ASSUME NEW p, Closes(t, p)
        PROVE  Lists1'
    <3>1. PICK q : q = [p EXCEPT !.order = Close(@, t)]
      OBVIOUS
    <3>2. PICK s : s = closed_orders_
      OBVIOUS
    <3>3. PICK u : u = Append(s, q)
      OBVIOUS
    <3>4. closed_orders_' = u /\ opened_orders_' = <<>> /\ opened_orders_ = <<p>> /\ p \in Entry
      BY <2>5, <3>1, <3>2, <3>3 DEF Closes
    <3>5. /\ Len(s) \in Nat /\ DOMAIN s = 1..Len(s) /\ Len(u) = Len(s) + 1
          /\ DOMAIN u = 1..(Len(s) + 1) /\ \A i \in 1..Len(s) : u[i] = s[i]
          /\ u[Len(s) + 1] = q
      <4>1. s \in Seq(Entry)
        BY <3>2 DEF Types
      <4>2. q \in Entry
        <5>1. p.order \in Order /\ t.bid \in Int /\ t.ask \in Int
          BY <3>4, Constants DEF Entry
        <5>2. CloseSide(p.order, t) \in Int
          BY <5>1 DEF CloseSide
        <5>3. Close(p.order, t) \in Order
          BY <5>1, <5>2 DEF Close, Order
        <5>4. QED
          BY <3>1, <3>4, <5>3 DEF Entry
      <4>3. QED
        BY <3>3, <4>1, <4>2, LenProperties, AppendProperties
    <3>6. PICK v : v = opened_orders_
      OBVIOUS
    <3>7. 1 \in DOMAIN v /\ v[1] = p /\ Len(v) = 1
      BY <3>4, <3>6
    <3>8. /\ p.id = Len(s) + 1 /\ p.order.open_price # Undefined
          /\ 1 + Len(s) <= ticks
      BY <3>2, <3>6, <3>7 DEF Lists1
    <3>9. /\ q.id = Len(s) + 1 /\ q.order.open_price # Undefined /\ q.order.close_price # Undefined
      BY <2>5, <3>1, <3>8, ClosedEntry
    <3>10. \A i \in 1..Len(s) : s[i].id = i /\ s[i].order.open_price # Undefined
                                /\ s[i].order.close_price # Undefined
      BY <3>2, <3>5 DEF Lists1
    <3>11. \A i \in DOMAIN u : u[i].id = i /\ u[i].order.open_price # Undefined
                               /\ u[i].order.close_price # Undefined
      <4>1. TAKE i \in DOMAIN u
      <4>2. i \in 1..Len(s) \/ i = Len(s) + 1
        BY <3>5
      <4>3. QED
        BY <3>5, <3>9, <3>10, <4>2
    <3>12. Len(<<>>) = 0 /\ DOMAIN <<>> = {} /\ 0 + Len(u) <= ticks + 1
      BY <2>2, <3>5, <3>8, EmptySeq
    <3>13. QED
      BY <2>1, <3>4, <3>11, <3>12 DEF Lists1
  <2>6. QED
    BY <2>1, <2>3, <2>4, <2>5
<1>3. CASE UNCHANGED vars
  BY <1>3 DEF vars, Lists1
<1>4. QED
  BY <1>1, <1>2, <1>3, Steps

\* What a step may do to the orders of each minute keeps the limit.
LEMMA CounterStep == Types /\ Lists1 /\ Counter /\ Types' /\ [Next]_vars => Counter'
<1> SUFFICES ASSUME Types, Lists1, Counter, Types', [Next]_vars PROVE Counter'
  OBVIOUS
<1>1. CASE on_bar
  <2>1. candle' = NoBar /\ Held' = Held /\ Done' = Done /\ minute' = minute
    BY <1>1 DEF on_bar, Held, Done
  <2>2. QED
    BY <2>1 DEF Counter, TradesPerCandle
<1>2. ASSUME NEW t \in Quotes, on_tick(t)
      PROVE  Counter'
  <2>1. /\ Stays \/ (\E o : Sends(t, o)) \/ (\E p : Closes(t, p))
        /\ minute' = minute + (IF candle = NoBar THEN 1 ELSE 0) /\ minute' \in Nat
        /\ minute \in Nat /\ trade_opens_in_current_bar_ \in Nat
    BY <1>2, Outcome DEF Types
  <2>2. /\ minute <= minute' /\ (candle # NoBar => minute' = minute)
        /\ (candle = NoBar => minute' = minute + 1)
    BY <2>1
  <2>3. /\ IsFiniteSet(Held \cup Done) /\ \A p \in Held \cup Done : p.minute \in Nat /\ p.minute <= minute
        /\ \A m : IsFiniteSet(Of(m)) /\ Cardinality(Of(m)) \in Nat
    <3>1. \A p \in Held \cup Done : p \in Entry
      BY ElementOfSeq, SMTT(30) DEF Types, Held, Done, Range
    <3>2. IsFiniteSet(Held \cup Done)
      BY DEF Counter
    <3>3. ASSUME NEW m
          PROVE  IsFiniteSet(Of(m)) /\ Cardinality(Of(m)) \in Nat
      <4>1. Of(m) \in SUBSET (Held \cup Done)
        BY DEF Of
      <4>2. QED
        BY <3>2, <4>1, FS_Subset, FS_CardinalityType
    <3>4. QED
      BY <3>1, <3>2, <3>3 DEF Counter, Entry
  <2>4. \A m : m \in Int /\ m > minute => Of(m) = {} /\ Cardinality(Of(m)) = 0
    <3>1. TAKE m
    <3>2. HAVE m \in Int /\ m > minute
    <3>3. \A p \in Held \cup Done : p.minute # m
      BY <2>1, <2>3, <3>2
    <3>4. QED
      BY <3>3, FS_EmptySet DEF Of
  <2>5. \A m \in 0..minute' : Cardinality(Of(m)) <= MaxTrades
    <3>1. TAKE m \in 0..minute'
    <3>2. CASE m \in 0..minute
      BY <3>2 DEF Counter, TradesPerCandle, Of
    <3>3. CASE m > minute
      BY <2>4, <3>3, Constants
    <3>4. QED
      BY <2>1, <3>2, <3>3
  <2>6. Cardinality(Of(minute')) <= trade_opens_in_current_bar_
    BY <2>1, <2>2, <2>4 DEF Counter
  <2>7. CASE Stays
    <3>1. Held' = Held /\ Done' = Done /\ trade_opens_in_current_bar_' = trade_opens_in_current_bar_
      BY <2>7, SetsAfterTick DEF Stays
    <3>2. \A m : {p \in (Held \cup Done)' : p.minute = m} = Of(m)
      BY <3>1 DEF Of
    <3>3. \A p \in Held \cup Done : p.minute <= minute'
      BY <2>1, <2>2, <2>3
    <3>4. QED
      BY <2>3, <2>5, <2>6, <3>1, <3>2, <3>3 DEF Counter, TradesPerCandle, Of
  <2>8. ASSUME NEW o, Sends(t, o)
        PROVE  Counter'
    <3>1. PICK e : e = [id |-> Len(closed_orders_) + 1, minute |-> minute', order |-> o]
      OBVIOUS
    <3>2. /\ Held = {} /\ Held' = {e} /\ Done' = Done /\ e.minute = minute'
          /\ trade_opens_in_current_bar_' = trade_opens_in_current_bar_ + 1
          /\ trade_opens_in_current_bar_ < MaxTrades
      BY <2>8, <3>1, SetsAfterTick DEF Sends
    <3>3. (Held \cup Done)' = (Held \cup Done) \cup {e}
      BY <3>2
    <3>4. \A m : Of(m)' = IF m = minute' THEN Of(m) \cup {e} ELSE Of(m)
      BY <3>2, <3>3 DEF Of
    <3>5. /\ IsFiniteSet((Held \cup Done)')
          /\ Cardinality(Of(minute') \cup {e}) <= Cardinality(Of(minute')) + 1
      <4>1. PICK S : S = Of(minute')
        OBVIOUS
      <4>2. PICK A : A = Held \cup Done
        OBVIOUS
      <4>3. IsFiniteSet(A \cup {e})
        BY <2>3, <4>2, FS_AddElement
      <4>4. Cardinality(S) \in Nat /\ Cardinality(S \cup {e}) = IF e \in S THEN Cardinality(S) ELSE Cardinality(S) + 1
        BY <2>3, <4>1, FS_AddElement
      <4>5. Cardinality(S \cup {e}) <= Cardinality(S) + 1
        <5>1. \A x, y \in Nat : (y = x \/ y = x + 1) => y <= x + 1
          OBVIOUS
        <5>2. QED
          BY <4>4, <5>1
      <4>6. QED
        BY <3>3, <4>1, <4>2, <4>3, <4>5
    <3>6. Cardinality(Of(minute') \cup {e}) \in Nat
      <4>1. PICK S : S = Of(minute')
        OBVIOUS
      <4>2. IsFiniteSet(S \cup {e})
        BY <2>3, <4>1, FS_AddElement
      <4>3. QED
        BY <4>1, <4>2, FS_CardinalityType
    <3>7. /\ Cardinality(Of(minute') \cup {e}) <= trade_opens_in_current_bar_ + 1
          /\ Cardinality(Of(minute') \cup {e}) <= MaxTrades
      BY <2>1, <2>3, <2>6, <3>2, <3>5, <3>6, Constants
    <3>8. \A p \in (Held \cup Done)' : p.minute <= minute'
      BY <2>1, <2>2, <2>3, <3>2, <3>3
    <3>9. \A m \in 0..minute' : Cardinality(Of(m)') <= MaxTrades
      BY <2>5, <3>4, <3>7
    <3>10. QED
      BY <3>2, <3>4, <3>5, <3>7, <3>8, <3>9 DEF Counter, TradesPerCandle, Of
  <2>9. ASSUME NEW p, Closes(t, p)
        PROVE  Counter'
    <3>1. PICK q : q = [p EXCEPT !.order = Close(@, t)]
      OBVIOUS
    <3>2. /\ Held = {p} /\ Held' = {} /\ p \notin Done /\ Done' = Done \cup {q}
          /\ q.minute = p.minute
          /\ trade_opens_in_current_bar_' = trade_opens_in_current_bar_
      BY <2>9, <3>1, SetsAfterTick, ClosedEntry DEF Closes
    <3>3. (Held \cup Done)' = ((Held \cup Done) \ {p}) \cup {q}
      BY <3>2
    <3>4. \A m : Of(m)' = IF m = p.minute THEN (Of(m) \ {p}) \cup {q} ELSE Of(m)
      BY <3>2, <3>3 DEF Of
    <3>5. p \in Of(p.minute)
      BY <3>2 DEF Of
    <3>6. \A S : IsFiniteSet(S) /\ p \in S =>
            IsFiniteSet((S \ {p}) \cup {q}) /\ Cardinality((S \ {p}) \cup {q}) <= Cardinality(S)
      <4>1. TAKE S
      <4>2. HAVE IsFiniteSet(S) /\ p \in S
      <4>3. PICK R : R = S \ {p}
        OBVIOUS
      <4>4. IsFiniteSet(R) /\ Cardinality(R) = Cardinality(S) - 1 /\ Cardinality(S) \in Nat
        BY <4>2, <4>3, FS_RemoveElement, FS_CardinalityType
      <4>5. IsFiniteSet(R \cup {q})
            /\ Cardinality(R \cup {q}) = IF q \in R THEN Cardinality(R) ELSE Cardinality(R) + 1
        BY <4>4, FS_AddElement
      <4>6. QED
        BY <4>3, <4>4, <4>5
    <3>7. \A m : /\ Cardinality(Of(m)') \in Nat
                 /\ Cardinality(Of(m)') <= Cardinality(Of(m))
      <4>1. TAKE m
      <4>2. CASE m = p.minute
        <5>1. PICK S : S = Of(m)
          OBVIOUS
        <5>2. PICK R : R = (S \ {p}) \cup {q}
          OBVIOUS
        <5>3. IsFiniteSet(R) /\ Cardinality(R) <= Cardinality(S)
          BY <2>3, <3>5, <3>6, <4>2, <5>1, <5>2
        <5>4. Cardinality(R) \in Nat
          BY <5>3, FS_CardinalityType
        <5>5. R = Of(m)'
          BY <3>4, <4>2, <5>1, <5>2
        <5>6. QED
          BY <5>1, <5>3, <5>4, <5>5
      <4>3. CASE m # p.minute
        BY <2>3, <3>4, <4>3
      <4>4. QED
        BY <4>2, <4>3
    <3>8. IsFiniteSet((Held \cup Done)')
      <4>1. PICK A : A = Held \cup Done
        OBVIOUS
      <4>2. IsFiniteSet(A) /\ p \in A
        BY <2>3, <3>2, <4>1
      <4>3. QED
        BY <3>3, <3>6, <4>1, <4>2
    <3>9. \A x \in (Held \cup Done)' : x.minute <= minute'
      BY <2>1, <2>2, <2>3, <3>2, <3>3
    <3>10. \A m \in 0..minute' : Cardinality(Of(m)') <= MaxTrades
      BY <2>1, <2>3, <2>5, <3>7, Constants
    <3>11. \A k : k = minute' => Cardinality(Of(k)') <= trade_opens_in_current_bar_
      BY <2>1, <2>3, <2>6, <3>7
    <3>12. QED
      BY <3>2, <3>8, <3>9, <3>10, <3>11 DEF Counter, TradesPerCandle, Of
  <2>10. QED
    BY <2>1, <2>7, <2>8, <2>9
<1>3. CASE UNCHANGED vars
  BY <1>3 DEF vars, strategyvars, Counter, TradesPerCandle, Of, Held, Done
<1>4. QED
  BY <1>1, <1>2, <1>3, Steps

LEMMA Invariance == Spec => [](Types /\ Lists1 /\ Counter)
<1>1. Types /\ Lists1 /\ Counter /\ [Next]_vars => (Types /\ Lists1 /\ Counter)'
  BY TypesStep, Lists1Step, CounterStep
<1>2. QED
  BY <1>1, InitInv, PTL DEF Spec

\* No candle has more than max_trades_per_candle orders, for any limit, any prices and
\* any run of bars: the counter covers the orders of the candle under construction, and
\* an order keeps the minute it was sent in.
THEOREM LimitPerCandle == Spec => []TradesPerCandle
<1>1. Counter => TradesPerCandle
  BY DEF Counter
<1>2. QED
  BY <1>1, Invariance, PTL

\* While there are lines, no tick leaves an order open past its stop loss or take profit.
\* The stop distance must exceed the spread: otherwise a new order is past its stop loss
\* when it is opened, and waits for the next tick.
THEOREM StopsAreWatched ==
  ASSUME Spread < StopDistance
  PROVE  Spec => StopsWatched
<1> DEFINE Watch == ticks' # ticks /\ buy_line_ > 0 /\ sell_line_ > 0 =>
                      \A p \in Range(opened_orders_') : ~CheckClose(p.order, latest_tick_')
<1>1. Types /\ Lists1 /\ Types' /\ [Next]_vars => [Watch]_vars
  <2> SUFFICES ASSUME Types, Lists1, Types', [Next]_vars, ticks' # ticks, buy_line_ > 0, sell_line_ > 0
               PROVE  \A p \in Range(opened_orders_') : ~CheckClose(p.order, latest_tick_')
    OBVIOUS
  <2>1. PICK t \in Quotes : on_tick(t)
    BY Steps DEF vars, on_bar
  <2>2. /\ Stays \/ (\E o : Sends(t, o)) \/ (\E p : Closes(t, p))
        /\ Watched(t) /\ latest_tick_' = t
    BY <2>1, Outcome
  <2>3. Range(opened_orders_') = Held'
    BY DEF Held
  <2>4. CASE Stays
    <3>1. ~(buy_line_ <= 0 \/ sell_line_ <= 0)
      BY DEF Types
    <3>2. \A p \in Range(opened_orders_) : ~CheckClose(p.order, t)
      BY <2>2, <2>4, <3>1 DEF Watched
    <3>3. QED
      BY <2>2, <2>4, <3>2 DEF Stays
  <2>5. ASSUME NEW o, Sends(t, o)
        PROVE  \A p \in Range(opened_orders_') : ~CheckClose(p.order, latest_tick_')
    <3>1. PICK e : e = [id |-> Len(closed_orders_) + 1, minute |-> minute', order |-> o]
      OBVIOUS
    <3>2. Held' = {e} /\ e.order = o /\ ~Hit(o, t)
      BY <2>5, <3>1, SetsAfterTick DEF Sends
    <3>3. QED
      BY <2>2, <2>3, <3>2 DEF CheckClose
  <2>6. ASSUME NEW q, Closes(t, q)
        PROVE  \A p \in Range(opened_orders_') : ~CheckClose(p.order, latest_tick_')
    BY <2>3, <2>6, SetsAfterTick
  <2>7. QED
    BY <2>2, <2>4, <2>5, <2>6
<1>2. QED
  BY <1>1, Invariance, PTL DEF Spec, StopsWatched

\* Without any assumption: while there are lines, an order that was open before a tick
\* and is open after it is not past its stop loss or take profit at that tick's prices.
THEOREM OlderStopsAreWatched ==
  Spec => [][ticks' # ticks /\ buy_line_ > 0 /\ sell_line_ > 0 =>
               \A p \in Range(opened_orders_) \cap Range(opened_orders_') :
                  ~CheckClose(p.order, latest_tick_')]_vars
<1> DEFINE Watch == ticks' # ticks /\ buy_line_ > 0 /\ sell_line_ > 0 =>
                      \A p \in Range(opened_orders_) \cap Range(opened_orders_') :
                         ~CheckClose(p.order, latest_tick_')
<1>1. Types /\ Lists1 /\ Types' /\ [Next]_vars => [Watch]_vars
  <2> SUFFICES ASSUME Types, Lists1, Types', [Next]_vars, ticks' # ticks, buy_line_ > 0, sell_line_ > 0,
                      NEW p \in Range(opened_orders_), p \in Range(opened_orders_')
               PROVE  ~CheckClose(p.order, latest_tick_')
    OBVIOUS
  <2>1. PICK t \in Quotes : on_tick(t)
    BY Steps DEF vars, on_bar
  <2>2. /\ Stays \/ (\E o : Sends(t, o)) \/ (\E q : Closes(t, q))
        /\ Watched(t) /\ latest_tick_' = t
    BY <2>1, Outcome
  <2>3. CASE Stays
    <3>1. ~(buy_line_ <= 0 \/ sell_line_ <= 0)
      BY DEF Types
    <3>2. QED
      BY <2>2, <2>3, <3>1 DEF Watched
  <2>4. ASSUME NEW o, Sends(t, o) PROVE FALSE
    <3>1. opened_orders_ = <<>>
      BY <2>4 DEF Sends
    <3>2. QED
      BY <3>1, EmptySeq DEF Range
  <2>5. ASSUME NEW q, Closes(t, q) PROVE FALSE
    <3>1. opened_orders_' = <<>>
      BY <2>5 DEF Closes
    <3>2. QED
      BY <3>1, EmptySeq DEF Range
  <2>6. QED
    BY <2>2, <2>3, <2>4, <2>5
<1>2. QED
  BY <1>1, Invariance, PTL DEF Spec

------------------------------------------------------------------------------
(* The strategy keeps the account of OrderBook                             *)

\* the deals of a set of entries, by their ids
DealsOf(X) == [i \in Ids |-> IF \E p \in X : p.id = i
                               THEN Deal((CHOOSE p \in X : p.id = i).order) ELSE NotDealt]

IdsOf(X) == {p.id : p \in X}

Distinct(X) == \A p, q \in X : p.id = q.id => p = q

LEMMA DealsOfElements ==
  ASSUME NEW X, Distinct(X), NEW i \in Ids
  PROVE  /\ \A p \in X : p.id = i => DealsOf(X)[i] = Deal(p.order)
         /\ i \notin IdsOf(X) => DealsOf(X)[i] = NotDealt
<1>1. ASSUME NEW p \in X, p.id = i
      PROVE  DealsOf(X)[i] = Deal(p.order)
  <2>1. PICK c : c = CHOOSE q \in X : q.id = i
    OBVIOUS
  <2>2. c \in X /\ c.id = i
    BY <1>1, <2>1
  <2>3. c = p
    BY <1>1, <2>2 DEF Distinct
  <2>4. QED
    BY <1>1, <2>1, <2>3 DEF DealsOf
<1>2. i \notin IdsOf(X) => DealsOf(X)[i] = NotDealt
  BY DEF IdsOf, DealsOf
<1>3. QED
  BY <1>1, <1>2

\* Ids name the orders.
LEMMA IdsName ==
  ASSUME Types, Lists1
  PROVE  /\ Distinct(Held \cup Done)
         /\ IdsOf(Held) \subseteq Ids /\ IdsOf(Done) \subseteq Ids
         /\ \A p \in Held : p.id = Len(closed_orders_) + 1 /\ p.id \notin IdsOf(Done)
         /\ Len(closed_orders_) + 1 \notin IdsOf(Done)
<1>1. /\ ticks \in 0..MaxTicks /\ MaxTicks \in Nat
      /\ Len(opened_orders_) \in Nat /\ Len(closed_orders_) \in Nat
      /\ DOMAIN opened_orders_ = 1..Len(opened_orders_)
      /\ DOMAIN closed_orders_ = 1..Len(closed_orders_)
      /\ Len(opened_orders_) <= 1 /\ Len(opened_orders_) + Len(closed_orders_) <= ticks
  BY LenProperties, Constants DEF Types, Lists1
<1>2. \A i \in DOMAIN opened_orders_ : i = 1 /\ opened_orders_[i].id = Len(closed_orders_) + 1
                                       /\ Len(closed_orders_) + 1 \in Ids
  BY <1>1 DEF Lists1, Ids
<1>3. \A i \in DOMAIN closed_orders_ : closed_orders_[i].id = i /\ i \in Ids
                                       /\ i # Len(closed_orders_) + 1
  BY <1>1 DEF Lists1, Ids
<1>4. \A p \in Held : p = opened_orders_[1] /\ p.id = Len(closed_orders_) + 1 /\ p.id \in Ids
  BY <1>2 DEF Held, Range
<1>5. \A p \in Done : p = closed_orders_[p.id] /\ p.id \in Ids /\ p.id # Len(closed_orders_) + 1
  BY <1>3 DEF Done, Range
<1>6. QED
  BY <1>4, <1>5 DEF Distinct, IdsOf

LEMMA AccountDeals ==
  [id \in Ids |-> IF \E p \in Held \cup Done : p.id = id THEN DealOf(id) ELSE NotDealt]
    = DealsOf(Held \cup Done)
BY DEF DealsOf, DealOf

\* An id that means the same entry before and after has the same deal.
LEMMA SameDeal ==
  ASSUME NEW X, NEW Y, Distinct(X), Distinct(Y), NEW i \in Ids,
         \A p : p.id = i => (p \in X <=> p \in Y)
  PROVE  DealsOf(X)[i] = DealsOf(Y)[i]
<1>1. CASE i \in IdsOf(X)
  <2>1. PICK p \in X : p.id = i
    BY <1>1 DEF IdsOf
  <2>2. p \in Y
    BY <2>1
  <2>3. QED
    BY <2>1, <2>2, DealsOfElements
<1>2. CASE i \notin IdsOf(X)
  <2>1. i \notin IdsOf(Y)
    BY <1>2 DEF IdsOf
  <2>2. QED
    BY <1>2, <2>1, DealsOfElements
<1>3. QED
  BY <1>1, <1>2

\* Ids name the orders before and after a step.
Named == /\ Distinct(Held \cup Done)
         /\ IdsOf(Held) \subseteq Ids /\ IdsOf(Done) \subseteq Ids

LEMMA AlwaysNamed == Spec => []Named
<1>1. Types /\ Lists1 => Named
  BY IdsName DEF Named
<1>2. QED
  BY <1>1, Invariance, PTL

\* A tick is a step of the account.
LEMMA TickTrades ==
  ASSUME Types, Lists1, Named, Types', Named', NEW t \in Quotes, on_tick(t)
  PROVE  Account!Next
<1> DEFINE deals == [id \in Ids |-> IF \E p \in Held \cup Done : p.id = id
                                      THEN DealOf(id) ELSE NotDealt]
<1>1. /\ Stays \/ (\E o : Sends(t, o)) \/ (\E p : Closes(t, p))
      /\ latest_tick_' = t
  BY Outcome
<1>2. PICK d : d = DealsOf(Held \cup Done)
  OBVIOUS
<1>3. PICK e : e = DealsOf((Held \cup Done)')
  OBVIOUS
<1>4. deals = d /\ deals' = e /\ DOMAIN e = Ids
  <2>1. deals = d
    BY <1>2, AccountDeals
  <2>2. deals' = e
    BY <1>3 DEF DealsOf, DealOf
  <2>3. QED
    BY <1>3, <2>1, <2>2 DEF DealsOf
<1>5. PICK h : h = {p.id : p \in Held}
  OBVIOUS
<1>6. PICK c : c = {p.id : p \in Done}
  OBVIOUS
<1>7. PICK k : k = {p.id : p \in Held'}
  OBVIOUS
<1>8. PICK f : f = {p.id : p \in Done'}
  OBVIOUS
<1> HIDE DEF deals
<1>9. ASSUME NEW i \in Ids
      PROVE  \/ (i \in k <=> i \in h) /\ (i \in f <=> i \in c) /\ e[i] = d[i]
             \/ /\ i \notin h \cup c /\ i \in k /\ i \notin f
                /\ \E s \in {"buy", "sell"} :
                     e[i] = [side |-> s, open |-> IF s = "buy" THEN t.ask ELSE t.bid, close |-> Undefined]
             \/ /\ i \in h /\ i \notin k /\ i \in f
                /\ e[i] = [d[i] EXCEPT !.close = IF d[i].side = "buy" THEN t.bid ELSE t.ask]
  <2>1. CASE Stays
    <3>1. Held' = Held /\ Done' = Done
      BY <2>1, SetsAfterTick
    <3>2. QED
      BY <1>2, <1>3, <1>5, <1>6, <1>7, <1>8, <3>1
  <2>2. ASSUME NEW o, Sends(t, o)
        PROVE  \/ (i \in k <=> i \in h) /\ (i \in f <=> i \in c) /\ e[i] = d[i]
               \/ /\ i \notin h \cup c /\ i \in k /\ i \notin f
                  /\ \E s \in {"buy", "sell"} :
                       e[i] = [side |-> s, open |-> IF s = "buy" THEN t.ask ELSE t.bid, close |-> Undefined]
    <3>1. PICK n : n = [id |-> Len(closed_orders_) + 1, minute |-> minute', order |-> o]
      OBVIOUS
    <3>2. /\ Held = {} /\ Held' = {n} /\ Done' = Done
          /\ n.id = Len(closed_orders_) + 1 /\ n.order = o
      BY <2>2, <3>1, SetsAfterTick
    <3>3. n.id \notin c
      BY <1>6, <3>2, IdsName DEF IdsOf
    <3>4. h = {} /\ k = {n.id} /\ f = c
      BY <1>5, <1>6, <1>7, <1>8, <3>2
    <3>5. CASE i = n.id
      <4>1. e[i] = Deal(o)
        BY <1>3, <3>2, <3>5, DealsOfElements DEF Named
      <4>2. o.side \in Sides /\ o.open_price = OpenSide(o, t) /\ o.close_price = Undefined
        BY <2>2 DEF Sends, Order
      <4>3. /\ o.side \in {"buy", "sell"}
            /\ e[i] = [side |-> o.side, open |-> IF o.side = "buy" THEN t.ask ELSE t.bid,
                       close |-> Undefined]
        BY <4>1, <4>2 DEF Deal, OpenSide, Sides
      <4>4. QED
        BY <3>3, <3>4, <3>5, <4>3
    <3>6. CASE i # n.id
      <4>1. \A p : p.id = i => (p \in Held \cup Done <=> p \in (Held \cup Done)')
        BY <3>2, <3>6
      <4>2. e[i] = d[i]
        BY <1>2, <1>3, <4>1, SameDeal DEF Named
      <4>3. QED
        BY <3>4, <3>6, <4>2
    <3>7. QED
      BY <3>5, <3>6
  <2>3. ASSUME NEW p, Closes(t, p)
        PROVE  \/ (i \in k <=> i \in h) /\ (i \in f <=> i \in c) /\ e[i] = d[i]
               \/ /\ i \in h /\ i \notin k /\ i \in f
                  /\ e[i] = [d[i] EXCEPT !.close = IF d[i].side = "buy" THEN t.bid ELSE t.ask]
    <3>1. PICK q : q = [p EXCEPT !.order = Close(@, t)]
      OBVIOUS
    <3>2. Held = {p} /\ Held' = {} /\ p \notin Done /\ Done' = Done \cup {q} /\ q.id = p.id
      BY <2>3, <3>1, SetsAfterTick, ClosedEntry
    <3>3. h = {p.id} /\ k = {} /\ f = c \cup {p.id}
      BY <1>5, <1>6, <1>7, <1>8, <3>2
    <3>4. CASE i = p.id
      <4>1. d[i] = Deal(p.order) /\ e[i] = Deal(q.order)
        <5>1. p \in Held \cup Done /\ q \in (Held \cup Done)'
          BY <3>2
        <5>2. QED
          BY <1>2, <1>3, <3>2, <3>4, <5>1, DealsOfElements DEF Named
      <4>2. /\ q.order.side = p.order.side /\ q.order.open_price = p.order.open_price
            /\ q.order.close_price = CloseSide(p.order, t)
        BY <2>3, <3>1, ClosedEntry
      <4>3. e[i] = [d[i] EXCEPT !.close = IF d[i].side = "buy" THEN t.bid ELSE t.ask]
        BY <4>1, <4>2 DEF Deal, CloseSide
      <4>4. QED
        BY <3>3, <3>4, <4>3
    <3>5. CASE i # p.id
      <4>1. \A x : x.id = i => (x \in Held \cup Done <=> x \in (Held \cup Done)')
        BY <3>2, <3>5
      <4>2. e[i] = d[i]
        BY <1>2, <1>3, <4>1, SameDeal DEF Named
      <4>3. QED
        BY <3>3, <3>5, <4>2
    <3>6. QED
      BY <3>4, <3>5
  <2>4. QED
    BY <1>1, <2>1, <2>2, <2>3
<1>10. k \subseteq Ids /\ f \subseteq Ids
  BY <1>7, <1>8 DEF Named, IdsOf
<1>11. t \in {Tick(b, b + Spread) : b \in Bids}
  BY DEF Quotes
<1>12. Account!Trade(t)
  <2>1. \A i \in Ids : \/ Account!Untouched(i) \/ Account!Opens(i, t)
                       \/ Account!Closes(i, t) \/ Account!OpensAndCloses(i, t)
    BY <1>4, <1>5, <1>6, <1>7, <1>8, <1>9
       DEF deals, Account!Untouched, Account!Opens, Account!Closes, Account!Opening, Account!Closing
  <2>2. QED
    BY <1>1, <1>4, <1>7, <1>8, <1>10, <2>1 DEF deals, Account!Trade
<1>13. QED
  BY <1>11, <1>12 DEF Account!Next

LEMMA StepBook ==
  Types /\ Lists1 /\ Types' /\ Named /\ Named' /\ [Next]_vars
    => [Account!Next]_(Account!bookvars)
<1> SUFFICES ASSUME Types, Lists1, Types', Named, Named', [Next]_vars
             PROVE  [Account!Next]_(Account!bookvars)
  OBVIOUS
<1>1. CASE on_bar
  <2>1. UNCHANGED <<latest_tick_, opened_orders_, closed_orders_>>
    BY <1>1 DEF on_bar
  <2>2. QED
    BY <2>1 DEF Account!bookvars, Held, Done, DealOf
<1>2. ASSUME NEW t \in Quotes, on_tick(t)
      PROVE  Account!Next
  BY <1>2, TickTrades
<1>3. CASE UNCHANGED vars
  <2>1. UNCHANGED <<latest_tick_, opened_orders_, closed_orders_>>
    BY <1>3 DEF vars
  <2>2. QED
    BY <2>1 DEF Account!bookvars, Held, Done, DealOf
<1>4. QED
  BY <1>1, <1>2, <1>3, Steps

\* However the strategy moves the orders between its lists, whichever of the due orders
\* it closes and whatever the bars do to its lines, no order is lost, none changes after
\* it is dealt, and each is opened and closed at the prices of the tick that did it.
THEOREM KeepsBook == Spec => ImplementsBook
<1>1. Init => Account!Init
  <2> SUFFICES ASSUME Init PROVE Account!Init
    OBVIOUS
  <2>1. Held = {} /\ Done = {} /\ latest_tick_ = Tick(0, 0)
    BY EmptySeq DEF Init, Held, Done, Range
  <2>2. QED
    BY <2>1 DEF Account!Init, Account!NoQuote, Account!NoDeal, Tick, NotDealt
<1>2. QED
  BY <1>1, StepBook, Invariance, AlwaysNamed, PTL DEF Spec, ImplementsBook, Account!Spec

\* An order is in one list, and what was paid for it says in which.
LEMMA InvConsistent == Types /\ Lists1 => Account!Consistent
<1> SUFFICES ASSUME Types, Lists1 PROVE Account!Consistent
  OBVIOUS
<1>1. PICK d : d = DealsOf(Held \cup Done)
  OBVIOUS
<1>2. /\ Distinct(Held \cup Done) /\ IdsOf(Held) \subseteq Ids /\ IdsOf(Done) \subseteq Ids
      /\ \A p \in Held : p.id \notin IdsOf(Done)
  BY IdsName
<1>3. /\ \A p \in Held : p.order.open_price # Undefined /\ p.order.close_price = Undefined
      /\ \A p \in Done : p.order.open_price # Undefined /\ p.order.close_price # Undefined
  BY DEF Lists1, Held, Done, Range
<1>4. PICK h : h = {p.id : p \in Held}
  OBVIOUS
<1>5. PICK c : c = {p.id : p \in Done}
  OBVIOUS
<1>6. h = IdsOf(Held) /\ c = IdsOf(Done)
  BY <1>4, <1>5 DEF IdsOf
<1>7. h \cap c = {} /\ h \cup c \subseteq Ids
  BY <1>2, <1>4, <1>6
<1>8. ASSUME NEW i \in Ids
      PROVE  (i \in h \cup c <=> d[i].open # Undefined) /\ (i \in c <=> d[i].close # Undefined)
  <2>1. CASE i \in h
    <3>1. PICK p \in Held : p.id = i
      BY <1>4, <2>1
    <3>2. d[i] = Deal(p.order)
      BY <1>1, <1>2, <3>1, DealsOfElements
    <3>3. QED
      BY <1>3, <1>7, <2>1, <3>1, <3>2 DEF Deal
  <2>2. CASE i \in c
    <3>1. PICK p \in Done : p.id = i
      BY <1>5, <2>2
    <3>2. d[i] = Deal(p.order)
      BY <1>1, <1>2, <3>1, DealsOfElements
    <3>3. QED
      BY <1>3, <2>2, <3>1, <3>2 DEF Deal
  <2>3. CASE i \notin h \cup c
    <3>1. i \notin IdsOf(Held \cup Done)
      BY <1>4, <1>5, <2>3 DEF IdsOf
    <3>2. d[i] = NotDealt
      BY <1>1, <1>2, <3>1, DealsOfElements
    <3>3. QED
      BY <2>3, <3>2 DEF NotDealt
  <2>4. QED
    BY <2>1, <2>2, <2>3
<1>9. QED
  BY <1>1, <1>4, <1>5, <1>7, <1>8, AccountDeals DEF Account!Consistent

\* No order of the strategy is in both lists, and none is lost once it is dealt.
THEOREM OnePlace == Spec => []Account!Consistent
BY Invariance, InvConsistent, PTL

\* What was paid for an order of the strategy never changes.
THEOREM PricesStay == Spec => Account!PaidOnce
<1> DEFINE deals == [id \in Ids |-> IF \E p \in Held \cup Done : p.id = id
                                      THEN DealOf(id) ELSE NotDealt]
           Kept(o) == /\ deals[o].open # Undefined => deals'[o].open = deals[o].open
                      /\ deals[o].close # Undefined => deals'[o].close = deals[o].close
<1>1. Types /\ Lists1 /\ Types' /\ Named /\ Named' /\ [Next]_vars
        => [\A o \in Ids : Kept(o)]_(Account!bookvars)
  <2> SUFFICES ASSUME Types, Lists1, Types', Named, Named', [Next]_vars,
                      ~UNCHANGED Account!bookvars, NEW o \in Ids
               PROVE  Kept(o)
    OBVIOUS
  <2>1. Account!Next /\ Account!Consistent
    BY StepBook, InvConsistent
  <2>2. PICK q : Account!Trade(q)
    BY <2>1 DEF Account!Next
  <2>3. \/ Account!Untouched(o) \/ Account!Opens(o, q)
        \/ Account!Closes(o, q) \/ Account!OpensAndCloses(o, q)
    BY <2>2 DEF Account!Trade
  <2>4. PICK d : d = deals
    OBVIOUS
  <2>5. PICK e : e = deals'
    OBVIOUS
  <2>6. PICK h : h = {p.id : p \in Held}
    OBVIOUS
  <2>7. PICK c : c = {p.id : p \in Done}
    OBVIOUS
  <2>8. d[o] = [side |-> d[o].side, open |-> d[o].open, close |-> d[o].close]
    BY <2>4 DEF DealOf, Deal, NotDealt
  <2> HIDE DEF deals
  <2>9. /\ o \in h \cup c <=> d[o].open # Undefined
        /\ o \in c <=> d[o].close # Undefined
        /\ h \cap c = {}
    BY <2>1, <2>4, <2>6, <2>7 DEF Account!Consistent, deals
  <2>10. \/ e[o] = d[o]
         \/ o \notin h \cup c
         \/ o \in h /\ \E x : e[o] = [d[o] EXCEPT !.close = x]
    BY <2>3, <2>4, <2>5, <2>6, <2>7
       DEF deals, Account!Untouched, Account!Opens, Account!Closes, Account!OpensAndCloses
  <2>11. /\ d[o].open # Undefined => e[o].open = d[o].open
         /\ d[o].close # Undefined => e[o].close = d[o].close
    BY <2>8, <2>9, <2>10
  <2>12. QED
    BY <2>4, <2>5, <2>11
<1>2. QED
  BY <1>1, Invariance, AlwaysNamed, PTL DEF Spec, Account!PaidOnce

------------------------------------------------------------------------------
(* The statistics of closed orders                                         *)

Totals == [profit : Int, wins : Nat, loses : Nat, wins_in_row : Nat, max_wins : Nat,
           loses_in_row : Nat, max_loses : Nat, lowest : Int, highest : Int]

LEMMA ProfitType ==
  ASSUME NEW o \in Order
  PROVE  Profit(o) \in Int
<1>1. o.open_price \in Int /\ o.close_price \in Int
  BY DEF Order
<1>2. o.close_price - o.open_price \in Int /\ o.open_price - o.close_price \in Int
  BY <1>1
<1>3. QED
  BY <1>2 DEF Profit, Undefined

LEMMA CountType ==
  ASSUME NEW st \in Totals, NEW o \in Order
  PROVE  CountOrder(st, o) \in Totals
<1>1. PICK pr \in Int : pr = Profit(o)
  BY ProfitType
<1>2. /\ st.profit + pr \in Int /\ st.lowest \in Int /\ st.highest \in Int
      /\ st.max_wins \in Nat /\ st.max_loses \in Nat
      /\ st.wins_in_row + 1 \in Nat /\ st.loses_in_row + 1 \in Nat
      /\ st.wins + (IF pr >= 0 THEN 1 ELSE 0) \in Nat
      /\ st.loses + (IF pr >= 0 THEN 0 ELSE 1) \in Nat
  BY DEF Totals
<1>3. 0 \in Nat
  OBVIOUS
<1>4. QED
  BY <1>1, <1>2, <1>3, SMTT(30) DEF CountOrder, Totals

\* What the loop has counted after each order.
LEMMA StatsSteps ==
  ASSUME NEW closed \in Seq(Order)
  PROVE  \E g \in [0..Len(closed) -> Totals] :
           /\ g[0] = NoStats /\ ClosedStats(closed) = g[Len(closed)]
           /\ \A n \in 1..Len(closed) : g[n] = CountOrder(g[n - 1], closed[n])
<1> DEFINE N == Len(closed)
           step == [n \in 1..N |-> [x \in Totals |-> CountOrder(x, closed[n])]]
<1>1. N \in Nat /\ \A n \in 1..N : closed[n] \in Order
  BY LenProperties, ElementOfSeq
<1>2. step \in [1..N -> [Totals -> Totals]]
  BY <1>1, CountType
<1>3. PICK g \in [0..N -> Totals] :
        g[0] = NoStats /\ \A n \in 1..N : g[n] = step[n][g[n - 1]]
  <2>1. PICK T : T = Totals
    OBVIOUS
  <2>2. N \in Nat /\ NoStats \in T /\ Maps(step, N, T)
    BY <1>1, <1>2, <2>1 DEF Maps, NoStats, Totals
  <2>3. \E g : Solves(g, N, T, NoStats, step)
    <3> HIDE DEF step, N
    <3>1. QED
      BY <2>2, Recursion
  <2>4. QED
    BY <2>1, <2>3 DEF Solves
<1>4. ASSUME NEW n \in 1..N
      PROVE  g[n] = CountOrder(g[n - 1], closed[n])
  <2>1. g[n - 1] \in Totals
    BY <1>1
  <2>2. QED
    BY <1>3, <2>1
<1> DEFINE st == CHOOSE f : f = [n \in 0..N |-> IF n = 0 THEN NoStats
                                                ELSE CountOrder(f[n - 1], closed[n])]
<1>5. st = [n \in 0..N |-> IF n = 0 THEN NoStats ELSE CountOrder(st[n - 1], closed[n])]
  <2>1. \A n \in 0..N : n = 0 \/ n \in 1..N
    BY <1>1
  <2>2. g = [n \in 0..N |-> IF n = 0 THEN NoStats ELSE CountOrder(g[n - 1], closed[n])]
    BY <1>3, <1>4, <2>1
  <2>3. QED
    BY <2>2
<1>6. ClosedStats(closed) = st[N]
  BY DEF ClosedStats
<1> HIDE DEF st
<1> DEFINE same == {n \in 0..N : st[n] = g[n]}
<1>7. \A n \in 0..N : n \in same
  <2>1. 0 \in same
    <3>1. 0 \in 0..N
      BY <1>1
    <3>2. st[0] = NoStats
      BY <1>5, <3>1
    <3>3. QED
      BY <1>3, <3>1, <3>2
  <2>2. ASSUME NEW n \in 1..N, n - 1 \in same PROVE n \in same
    <3>1. n \in 0..N /\ n # 0 /\ st[n - 1] = g[n - 1]
      BY <1>1, <2>2
    <3>2. st[n] = CountOrder(st[n - 1], closed[n])
      BY <1>5, <3>1
    <3>3. QED
      BY <1>4, <3>1, <3>2
  <2> HIDE DEF same
  <2>3. QED
    BY <1>1, <2>1, <2>2, UpTo
<1>8. QED
  BY <1>1, <1>3, <1>4, <1>6, <1>7

\* The balance is the function that its definition describes.
LEMMA BalanceSteps ==
  ASSUME NEW closed \in Seq(Order)
  PROVE  /\ Balance(closed) \in [0..Len(closed) -> Int] /\ Balance(closed)[0] = 0
         /\ \A n \in 1..Len(closed) :
              Balance(closed)[n] = Balance(closed)[n - 1] + Profit(closed[n])
<1> DEFINE N == Len(closed)
           step == [n \in 1..N |-> [x \in Int |-> x + Profit(closed[n])]]
<1>1. N \in Nat /\ \A n \in 1..N : Profit(closed[n]) \in Int
  BY LenProperties, ElementOfSeq, ProfitType
<1>2. step \in [1..N -> [Int -> Int]]
  BY <1>1
<1>3. PICK g \in [0..N -> Int] :
        g[0] = 0 /\ \A n \in 1..N : g[n] = step[n][g[n - 1]]
  <2>1. PICK T : T = Int
    OBVIOUS
  <2>2. N \in Nat /\ 0 \in T /\ Maps(step, N, T)
    BY <1>1, <1>2, <2>1 DEF Maps
  <2>3. \E g : Solves(g, N, T, 0, step)
    <3> HIDE DEF step, N
    <3>1. QED
      BY <2>2, Recursion
  <2>4. QED
    BY <2>1, <2>3 DEF Solves
<1>4. ASSUME NEW n \in 1..N
      PROVE  g[n] = g[n - 1] + Profit(closed[n])
  <2>1. g[n - 1] \in Int
    BY <1>1
  <2>2. QED
    BY <1>3, <2>1
<1>5. PICK b : b = Balance(closed)
  OBVIOUS
<1>6. b = [n \in 0..N |-> IF n = 0 THEN 0 ELSE b[n - 1] + Profit(closed[n])]
  <2>1. \A n \in 0..N : n = 0 \/ n \in 1..N
    BY <1>1
  <2>2. g = [n \in 0..N |-> IF n = 0 THEN 0 ELSE g[n - 1] + Profit(closed[n])]
    BY <1>3, <1>4, <2>1
  <2>3. b = CHOOSE f : f = [n \in 0..N |-> IF n = 0 THEN 0 ELSE f[n - 1] + Profit(closed[n])]
    BY <1>5 DEF Balance
  <2>4. QED
    BY <2>2, <2>3
<1> DEFINE same == {n \in 0..N : b[n] = g[n]}
<1>7. \A n \in 0..N : n \in same
  <2>1. 0 \in same
    <3>1. 0 \in 0..N
      BY <1>1
    <3>2. b[0] = 0
      BY <1>6, <3>1
    <3>3. QED
      BY <1>3, <3>1, <3>2
  <2>2. ASSUME NEW n \in 1..N, n - 1 \in same PROVE n \in same
    <3>1. n \in 0..N /\ n # 0 /\ b[n - 1] = g[n - 1]
      BY <1>1, <2>2
    <3>2. b[n] = b[n - 1] + Profit(closed[n])
      BY <1>6, <3>1
    <3>3. QED
      BY <1>4, <3>1, <3>2
  <2> HIDE DEF same
  <2>3. QED
    BY <1>1, <2>1, <2>2, UpTo
<1>8. b = g
  <2>1. DOMAIN b = 0..N /\ DOMAIN g = 0..N /\ b = [n \in 0..N |-> b[n]] /\ g = [n \in 0..N |-> g[n]]
    BY <1>6
  <2>2. QED
    BY <1>7, <2>1
<1>9. QED
  BY <1>3, <1>4, <1>5, <1>8

\* Of the positions up to n, the last r are in S and no more, and m is the length of
\* the longest row that is.
Row(r, m, S, n) ==
  /\ r \in 0..n /\ (n - r + 1)..n \subseteq S /\ (n - r) \notin S
  /\ m \in 0..n /\ r <= m
  /\ m # 0 => \E i \in 1..n : i + m - 1 <= n /\ i..(i + m - 1) \subseteq S
  /\ \A i \in 1..n, k \in 1..n : i + k - 1 <= n /\ i..(i + k - 1) \subseteq S => k <= m

LEMMA RowStep ==
  ASSUME NEW S \in SUBSET (Nat \ {0}), NEW n \in Nat \ {0}, NEW r, NEW m, Row(r, m, S, n - 1),
         NEW q, q = (IF n \in S THEN r + 1 ELSE 0)
  PROVE  Row(q, IF q > m THEN q ELSE m, S, n)
<1>1. /\ r \in 0..(n - 1) /\ (n - r)..(n - 1) \subseteq S /\ (n - 1 - r) \notin S
      /\ m \in 0..(n - 1) /\ r <= m
      /\ m # 0 => \E i \in 1..(n - 1) : i + m - 1 <= n - 1 /\ i..(i + m - 1) \subseteq S
      /\ \A i \in 1..(n - 1), k \in 1..(n - 1) :
           i + k - 1 <= n - 1 /\ i..(i + k - 1) \subseteq S => k <= m
  <2>1. r \in 0..(n - 1) => (n - 1) - r + 1 = n - r
    OBVIOUS
  <2>2. QED
    BY <2>1 DEF Row
<1>2. PICK x : x = (IF q > m THEN q ELSE m)
  OBVIOUS
<1>3. CASE n \in S
  <2>1. q = r + 1 /\ q \in 1..n /\ x \in 1..n /\ q <= x /\ m <= x /\ (x = q \/ x = m)
    BY <1>1, <1>2, <1>3
  <2>2. (n - q + 1)..n \subseteq S /\ (n - q) \notin S
    <3>1. n - q + 1 = n - r /\ n - q = n - 1 - r
      BY <1>1, <2>1
    <3>2. \A j \in (n - r)..n : j = n \/ j \in (n - r)..(n - 1)
      BY <1>1
    <3>3. QED
      BY <1>1, <1>3, <3>1, <3>2
  <2>3. \E i \in 1..n : i + x - 1 <= n /\ i..(i + x - 1) \subseteq S
    <3>1. CASE x = q
      <4>1. n - q + 1 \in 1..n /\ (n - q + 1) + q - 1 = n
        BY <2>1
      <4>2. QED
        BY <2>2, <3>1, <4>1
    <3>2. CASE x # q
      <4>1. x = m /\ m # 0
        BY <2>1, <3>2
      <4>2. PICK i \in 1..(n - 1) : i + m - 1 <= n - 1 /\ i..(i + m - 1) \subseteq S
        BY <1>1, <4>1
      <4>3. i \in 1..n /\ i + m - 1 <= n
        BY <1>1, <4>2
      <4>4. QED
        BY <4>1, <4>2, <4>3
    <3>3. QED
      BY <3>1, <3>2
  <2>4. ASSUME NEW i \in 1..n, NEW k \in 1..n, i + k - 1 <= n, i..(i + k - 1) \subseteq S
        PROVE  k <= x
    <3>1. CASE i + k - 1 <= n - 1
      <4>1. i \in 1..(n - 1) /\ k \in 1..(n - 1)
        BY <3>1
      <4>2. k <= m
        BY <1>1, <2>4, <3>1, <4>1
      <4>3. QED
        BY <1>1, <2>1, <4>2
    <3>2. CASE ~(i + k - 1 <= n - 1)
      <4>1. i + k - 1 = n
        BY <2>4, <3>2
      <4>2. ~(i <= n - 1 - r)
        <5>1. i <= n - 1 - r => n - 1 - r \in i..(i + k - 1)
          BY <1>1, <4>1
        <5>2. QED
          BY <1>1, <2>4, <5>1
      <4>3. k <= q
        BY <1>1, <2>1, <4>1, <4>2
      <4>4. QED
        BY <2>1, <4>3
    <3>3. QED
      BY <3>1, <3>2
  <2>5. q \in 0..n /\ x \in 0..n
    BY <2>1
  <2>6. QED
    BY <1>2, <2>1, <2>2, <2>3, <2>4, <2>5 DEF Row
<1>4. CASE n \notin S
  <2>1. q = 0 /\ x = m /\ q \in 0..n /\ x \in 0..n /\ q <= x
    BY <1>1, <1>2, <1>4
  <2>2. (n - q + 1)..n \subseteq S /\ (n - q) \notin S
    <3>1. n - q = n /\ n - q + 1 = n + 1 /\ (n + 1)..n = {}
      BY <2>1
    <3>2. QED
      BY <1>4, <3>1
  <2>3. x # 0 => \E i \in 1..n : i + x - 1 <= n /\ i..(i + x - 1) \subseteq S
    <3> HAVE x # 0
    <3>1. PICK i \in 1..(n - 1) : i + m - 1 <= n - 1 /\ i..(i + m - 1) \subseteq S
      BY <1>1, <2>1
    <3>2. i \in 1..n /\ i + m - 1 <= n
      BY <1>1, <3>1
    <3>3. QED
      BY <2>1, <3>1, <3>2
  <2>4. ASSUME NEW i \in 1..n, NEW k \in 1..n, i + k - 1 <= n, i..(i + k - 1) \subseteq S
        PROVE  k <= x
    <3>1. i + k - 1 # n
      <4>1. i + k - 1 = n => n \in i..(i + k - 1)
        OBVIOUS
      <4>2. QED
        BY <1>4, <2>4, <4>1
    <3>2. i + k - 1 <= n - 1 /\ i \in 1..(n - 1) /\ k \in 1..(n - 1)
      BY <2>4, <3>1
    <3>3. QED
      BY <1>1, <2>1, <2>4, <3>2
  <2>5. QED
    BY <1>2, <2>1, <2>2, <2>3, <2>4 DEF Row
<1>5. QED
  BY <1>3, <1>4

\* x is the greatest element of S, or the least
LEMMA MaxIs ==
  ASSUME NEW S \in SUBSET Int, NEW x \in S, \A y \in S : y <= x
  PROVE  Max(S) = x
<1>1. \A y \in S : x >= y
  OBVIOUS
<1>2. \A z \in S : (\A y \in S : z >= y) => z = x
  OBVIOUS
<1>3. QED
  BY <1>1, <1>2 DEF Max

LEMMA MinIs ==
  ASSUME NEW S \in SUBSET Int, NEW x \in S, \A y \in S : x <= y
  PROVE  Min(S) = x
<1>1. \A y \in S : x =< y
  OBVIOUS
<1>2. \A z \in S : (\A y \in S : z =< y) => z = x
  OBVIOUS
<1>3. QED
  BY <1>1, <1>2 DEF Min

\* At the end of the list the longest row is the one that LongestRow looks for.
LEMMA RowIsLongest ==
  ASSUME NEW closed \in Seq(Order), NEW S \in SUBSET (DOMAIN closed), NEW r, NEW m,
         Row(r, m, S, Len(closed))
  PROVE  m = LongestRow(closed, S)
<1>1. PICK N \in Nat : N = Len(closed) /\ DOMAIN closed = 1..N
  BY LenProperties
<1>2. PICK M : M = {n \in 1..N : \E i \in 1..N : i..(i + n - 1) \subseteq S}
  OBVIOUS
<1>3. PICK L : L = {0} \cup M
  OBVIOUS
<1>4. LongestRow(closed, S) = Max(L)
  BY <1>1, <1>2, <1>3 DEF LongestRow
<1>5. /\ m \in 0..N
      /\ m # 0 => \E i \in 1..N : i + m - 1 <= N /\ i..(i + m - 1) \subseteq S
      /\ \A i \in 1..N, k \in 1..N : i + k - 1 <= N /\ i..(i + k - 1) \subseteq S => k <= m
  BY <1>1 DEF Row
<1>6. m \in L /\ L \in SUBSET Int
  <2>1. L \in SUBSET Int
    <3>1. M \subseteq 1..N /\ 1..N \subseteq Int /\ 0 \in Int
      BY <1>2
    <3>2. QED
      BY <1>3, <3>1
  <2>2. CASE m = 0
    BY <1>3, <2>1, <2>2
  <2>3. CASE m # 0
    <3>1. m \in 1..N
      <4>1. m \in 0..N
        BY <1>5
      <4>2. QED
        BY <2>3, <4>1
    <3>2. PICK i \in 1..N : i..(i + m - 1) \subseteq S
      BY <1>5, <2>3
    <3>3. m \in M
      BY <1>2, <3>1, <3>2
    <3>4. QED
      BY <1>3, <2>1, <3>3
  <2>4. QED
    BY <2>1, <2>2, <2>3
<1>7. ASSUME NEW k \in L PROVE k <= m
  <2>1. CASE k = 0
    BY <1>5, <2>1
  <2>2. CASE k # 0
    <3>1. PICK i \in 1..N : k \in 1..N /\ i..(i + k - 1) \subseteq S
      BY <1>2, <1>3, <2>2
    <3>2. S \subseteq 1..N
      BY <1>1
    <3>3. i + k - 1 <= N
      <4>1. i + k - 1 \in i..(i + k - 1)
        BY <3>1
      <4>2. i + k - 1 \in 1..N
        BY <3>1, <3>2, <4>1
      <4>3. QED
        BY <4>2
    <3>4. QED
      BY <1>5, <3>1, <3>3
  <2>3. QED
    BY <2>1, <2>2
<1>8. QED
  BY <1>4, <1>6, <1>7, MaxIs

\* the loop has counted the first n orders
Counted(st, closed, n) ==
  /\ st.profit = Balance(closed)[n]
  /\ st.wins = Cardinality(Wins(closed) \cap 1..n) /\ st.loses = n - st.wins
  /\ Row(st.wins_in_row, st.max_wins, Wins(closed), n)
  /\ Row(st.loses_in_row, st.max_loses, DOMAIN closed \ Wins(closed), n)
  /\ \E k \in 0..n : st.highest = Balance(closed)[k]
  /\ \E k \in 0..n : st.lowest = Balance(closed)[k]
  /\ \A k \in 0..n : st.lowest <= Balance(closed)[k] /\ Balance(closed)[k] <= st.highest

LEMMA CountedFirst ==
  ASSUME NEW closed \in Seq(Order)
  PROVE  Counted(NoStats, closed, 0)
<1>1. Wins(closed) \cap 1..0 = {} /\ Wins(closed) \subseteq DOMAIN closed
  BY DEF Wins
<1>2. 0 \notin DOMAIN closed
  BY LenProperties
<1>3. Cardinality(Wins(closed) \cap 1..0) = 0
  BY <1>1, FS_EmptySet
<1>4. Balance(closed)[0] = 0
  BY BalanceSteps
<1>5. \A S : 0 \notin S => Row(0, 0, S, 0)
  BY DEF Row
<1>6. 0 \in 0..0 /\ \A k \in 0..0 : k = 0
  OBVIOUS
<1>7. Row(0, 0, Wins(closed), 0) /\ Row(0, 0, DOMAIN closed \ Wins(closed), 0)
  BY <1>1, <1>2, <1>5
<1>8. QED
  BY <1>3, <1>4, <1>6, <1>7 DEF Counted, NoStats

LEMMA CountedStep ==
  ASSUME NEW closed \in Seq(Order), NEW n \in 1..Len(closed), NEW a \in Totals,
         Counted(a, closed, n - 1)
  PROVE  Counted(CountOrder(a, closed[n]), closed, n)
<1>1. PICK N \in Nat : N = Len(closed) /\ DOMAIN closed = 1..N
  BY LenProperties
<1>2. n \in 1..N /\ n \in Nat \ {0} /\ n \in 0..n
  BY <1>1
<1>3. PICK b \in [0..N -> Int] :
        b = Balance(closed) /\ b[n] = b[n - 1] + Profit(closed[n])
  BY <1>1, BalanceSteps
<1>4. PICK pr \in Int : pr = Profit(closed[n])
  BY ElementOfSeq, ProfitType
<1>5. PICK W : W = Wins(closed) /\ W \subseteq 1..N /\ (n \in W <=> pr >= 0)
  BY <1>1, <1>2, <1>4 DEF Wins
<1>6. PICK z : z = CountOrder(a, closed[n])
  OBVIOUS
<1>7. PICK c \in Int : c = a.profit + pr
  BY <1>4 DEF Totals
<1>8. /\ z.profit = c
      /\ z.wins = a.wins + (IF pr >= 0 THEN 1 ELSE 0)
      /\ z.loses = a.loses + (IF pr >= 0 THEN 0 ELSE 1)
      /\ z.wins_in_row = (IF pr >= 0 THEN a.wins_in_row + 1 ELSE 0)
      /\ z.loses_in_row = (IF pr >= 0 THEN 0 ELSE a.loses_in_row + 1)
      /\ z.max_wins = (IF z.wins_in_row > a.max_wins THEN z.wins_in_row ELSE a.max_wins)
      /\ z.max_loses = (IF z.loses_in_row > a.max_loses THEN z.loses_in_row ELSE a.max_loses)
      /\ z.lowest = (IF c < a.lowest THEN c ELSE a.lowest)
      /\ z.highest = (IF c > a.highest THEN c ELSE a.highest)
  BY <1>4, <1>6, <1>7 DEF CountOrder
<1>9. /\ a.profit = b[n - 1]
      /\ a.wins = Cardinality(W \cap 1..(n - 1)) /\ a.loses = (n - 1) - a.wins
      /\ Row(a.wins_in_row, a.max_wins, W, n - 1)
      /\ Row(a.loses_in_row, a.max_loses, (1..N) \ W, n - 1)
      /\ \E k \in 0..(n - 1) : a.highest = b[k]
      /\ \E k \in 0..(n - 1) : a.lowest = b[k]
      /\ \A k \in 0..(n - 1) : a.lowest <= b[k] /\ b[k] <= a.highest
  BY <1>1, <1>3, <1>5 DEF Counted
<1>10. z.profit = b[n]
  BY <1>3, <1>4, <1>7, <1>8, <1>9
<1>11. z.wins = Cardinality(W \cap 1..n) /\ z.loses = n - z.wins
  <2>1. PICK V : V = W \cap 1..(n - 1)
    OBVIOUS
  <2>2. IsFiniteSet(V) /\ Cardinality(V) \in Nat /\ n \notin V
    <3>1. IsFiniteSet(1..(n - 1)) /\ V \in SUBSET (1..(n - 1))
      BY <1>2, <2>1, FS_Interval
    <3>2. n \notin V
      BY <1>2, <2>1
    <3>3. QED
      BY <3>1, <3>2, FS_Subset, FS_CardinalityType
  <2>3. W \cap 1..n = (IF n \in W THEN V \cup {n} ELSE V)
    <3>1. \A j : j \in 1..n <=> j \in 1..(n - 1) \/ j = n
      BY <1>2
    <3>2. QED
      BY <2>1, <3>1
  <2>4. Cardinality(V \cup {n}) = Cardinality(V) + 1
    BY <2>2, FS_AddElement
  <2>5. Cardinality(W \cap 1..n) = (IF pr >= 0 THEN Cardinality(V) + 1 ELSE Cardinality(V))
    BY <1>5, <2>3, <2>4
  <2>6. a.wins = Cardinality(V)
    BY <1>9, <2>1
  <2>7. PICK v \in Nat : v = Cardinality(V)
    BY <2>2
  <2>8. QED
    BY <1>2, <1>8, <1>9, <2>5, <2>6, <2>7
<1>12. Row(z.wins_in_row, z.max_wins, W, n)
  <2>1. W \in SUBSET (Nat \ {0})
    BY <1>5
  <2>2. z.wins_in_row = (IF n \in W THEN a.wins_in_row + 1 ELSE 0)
    BY <1>5, <1>8
  <2>3. QED
    BY <1>2, <1>8, <1>9, <2>1, <2>2, RowStep
<1>13. Row(z.loses_in_row, z.max_loses, (1..N) \ W, n)
  <2>1. (1..N) \ W \in SUBSET (Nat \ {0})
    OBVIOUS
  <2>2. z.loses_in_row = (IF n \in (1..N) \ W THEN a.loses_in_row + 1 ELSE 0)
    BY <1>2, <1>5, <1>8
  <2>3. QED
    BY <1>2, <1>8, <1>9, <2>1, <2>2, RowStep
<1>14. c = b[n] /\ a.lowest \in Int /\ a.highest \in Int
  BY <1>8, <1>10 DEF Totals
<1>15. \A k \in 0..n : k \in 0..(n - 1) \/ k = n
  BY <1>2
<1>16. \A k \in 0..(n - 1) : k \in 0..n /\ b[k] \in Int
  BY <1>2
<1>17. \E k \in 0..n : z.highest = b[k]
  BY <1>2, <1>8, <1>9, <1>14, <1>16
<1>18. \E k \in 0..n : z.lowest = b[k]
  BY <1>2, <1>8, <1>9, <1>14, <1>16
<1>19. ASSUME NEW k \in 0..n PROVE z.lowest <= b[k] /\ b[k] <= z.highest
  <2>1. z.lowest <= c /\ z.lowest <= a.lowest /\ c <= z.highest /\ a.highest <= z.highest
        /\ z.lowest \in Int /\ z.highest \in Int
    BY <1>8, <1>14
  <2>2. CASE k = n
    BY <1>14, <2>1, <2>2
  <2>3. CASE k \in 0..(n - 1)
    <3>1. a.lowest <= b[k] /\ b[k] <= a.highest /\ b[k] \in Int
      BY <1>9, <1>16, <2>3
    <3>2. PICK l \in Int, h \in Int, x \in Int, lo \in Int, hi \in Int :
            l = z.lowest /\ h = z.highest /\ x = b[k] /\ lo = a.lowest /\ hi = a.highest
      BY <1>14, <2>1, <3>1
    <3>3. l <= lo /\ lo <= x /\ x <= hi /\ hi <= h
      BY <2>1, <3>1, <3>2
    <3>4. l <= x /\ x <= h
      BY <3>3
    <3>5. QED
      BY <3>2, <3>4
  <2>4. QED
    BY <1>15, <2>2, <2>3
<1>20. QED
  BY <1>1, <1>3, <1>5, <1>6, <1>10, <1>11, <1>12, <1>13, <1>17, <1>18, <1>19 DEF Counted

\* calc_closed_trades_stats finds what its numbers mean, for any list of orders, from
\* whichever strategy they come.
THEOREM StatsOfAnyList ==
  ASSUME NEW closed \in Seq(Order)
  PROVE  Exact(ClosedStats(closed), closed)
<1>1. PICK N \in Nat : N = Len(closed) /\ DOMAIN closed = 1..N
  BY LenProperties
<1>2. PICK g \in [0..N -> Totals] :
        /\ g[0] = NoStats /\ ClosedStats(closed) = g[N]
        /\ \A n \in 1..N : g[n] = CountOrder(g[n - 1], closed[n])
  BY <1>1, StatsSteps
<1> DEFINE good == {n \in 0..N : Counted(g[n], closed, n)}
<1>3. 0 \in good
  BY <1>2, CountedFirst
<1>4. ASSUME NEW n \in 1..N, n - 1 \in good PROVE n \in good
  <2>1. g[n - 1] \in Totals /\ Counted(g[n - 1], closed, n - 1)
    BY <1>4
  <2>2. Counted(CountOrder(g[n - 1], closed[n]), closed, n)
    BY <1>1, <2>1, CountedStep
  <2>3. QED
    BY <1>2, <2>2
<1>5. Counted(g[N], closed, N)
  <2>1. \A n \in 0..N : n \in good
    <3> HIDE DEF good
    <3>1. QED
      BY <1>3, <1>4, UpTo
  <2>2. N \in 0..N
    OBVIOUS
  <2>3. QED
    BY <2>1, <2>2
<1>6. PICK z : z = g[N]
  OBVIOUS
<1>7. Counted(z, closed, N)
  BY <1>5, <1>6
<1>8. PICK W : W = Wins(closed) /\ W \in SUBSET (DOMAIN closed) /\ W \cap 1..N = W
  BY <1>1 DEF Wins
<1>9. z.wins = Cardinality(W) /\ z.loses = N - Cardinality(W)
  BY <1>7, <1>8 DEF Counted
<1>10. z.max_wins = LongestRow(closed, W) /\ z.max_loses = LongestRow(closed, DOMAIN closed \ W)
  <2>1. Row(z.wins_in_row, z.max_wins, W, Len(closed))
        /\ Row(z.loses_in_row, z.max_loses, DOMAIN closed \ W, Len(closed))
    BY <1>1, <1>7, <1>8 DEF Counted
  <2>2. DOMAIN closed \ W \in SUBSET (DOMAIN closed)
    OBVIOUS
  <2>3. QED
    BY <1>8, <2>1, <2>2, RowIsLongest
<1>11. PICK B \in SUBSET Int : B = Balances(closed) /\ B = {Balance(closed)[k] : k \in 0..N}
  <2>1. Balance(closed) \in [0..N -> Int]
    BY <1>1, BalanceSteps
  <2>2. QED
    BY <2>1 DEF Balances, Range
<1>12. /\ z.highest \in B /\ z.lowest \in B
       /\ \A y \in B : z.lowest <= y /\ y <= z.highest
       /\ z.profit = Balance(closed)[N]
  BY <1>7, <1>11 DEF Counted
<1>13. z.highest = Max(B) /\ z.lowest = Min(B)
  BY <1>12, MaxIs, MinIs
<1>14. QED
  BY <1>1, <1>2, <1>6, <1>8, <1>9, <1>10, <1>11, <1>12, <1>13 DEF Exact

\* What optimizer::run reports of the closed orders is exact whenever it asks: wins,
\* losses, their longest rows, and the balance with its extremes.
THEOREM StatsAlwaysExact == Spec => []StatsExact
<1>1. Types => StatsExact
  <2> SUFFICES ASSUME Types PROVE StatsExact
    OBVIOUS
  <2>1. PICK N \in Nat : N = Len(closed_orders_) /\ DOMAIN closed_orders_ = 1..N
    BY LenProperties DEF Types
  <2>2. PICK closed : closed = [i \in 1..N |-> closed_orders_[i].order]
    OBVIOUS
  <2>3. \A i \in 1..N : closed_orders_[i] \in Entry
    BY <2>1, ElementOfSeq DEF Types
  <2>4. closed \in [1..N -> Order]
    <3>1. \A p \in Entry : p.order \in Order
      BY DEF Entry
    <3>2. QED
      BY <2>2, <2>3, <3>1
  <2>5. closed \in Seq(Order)
    BY <2>4, FunctionSeq
  <2>6. Exact(ClosedStats(closed), closed)
    BY <2>5, StatsOfAnyList
  <2>7. QED
    BY <2>1, <2>2, <2>6 DEF StatsExact
<1>2. QED
  BY <1>1, Invariance, PTL
=================================================================================
