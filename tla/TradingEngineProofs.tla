--------------------------- MODULE TradingEngineProofs ---------------------------
(***************************************************************************)
(* Theorems about TradingEngine for any orders, prices and number of       *)
(* ticks.                                                                  *)
(***************************************************************************)
EXTENDS TradingEngine, SequenceLemmas

OrderRecord ==
  [side : Sides, kind : Kinds, order_price : Int, stop_loss : Int, take_profit : Int,
   open_price : Int, close_price : Int]

Ticks == [bid : Nat, ask : Nat]

Actions == {"submitted", "opened", "closed"}

\* the books of the orders in D
Books(D) ==
  [orders : [D -> OrderRecord], pending : Seq(D), opened : Seq(D), closed : Seq(D),
   events : Seq(Actions \X D)]

\* an order is in the list its prices say
Placed(b) ==
  /\ IsInjective(b.opened) /\ IsInjective(b.closed)
  /\ \A id \in DOMAIN b.orders :
       /\ id \in Range(b.opened) <=> CanClose(b.orders[id])
       /\ id \in Range(b.closed) <=> IsClosed(b.orders[id])
       /\ IsClosed(b.orders[id]) => IsOpened(b.orders[id])
       /\ IsValid(b.orders[id])

------------------------------------------------------------------------------
(* One order                                                               *)

\* Opening sets the open price and nothing else.
LEMMA OpenProperties ==
  ASSUME NEW o \in OrderRecord, NEW t \in Ticks
  PROVE  /\ Open(o, t) \in OrderRecord
         /\ IsOpened(Open(o, t)) /\ (IsClosed(Open(o, t)) <=> IsClosed(o))
         /\ IsValid(o) => IsValid(Open(o, t))
         /\ ~CheckOpen(Open(o, t), t)
BY DEF OrderRecord, Ticks, Open, OpenSide, IsOpened, IsClosed, CanClose, CheckOpen, IsValid,
       Undefined

\* Closing sets the close price and nothing else.
LEMMA CloseProperties ==
  ASSUME NEW o \in OrderRecord, NEW t \in Ticks
  PROVE  /\ Close(o, t) \in OrderRecord
         /\ IsClosed(Close(o, t)) /\ (IsOpened(Close(o, t)) <=> IsOpened(o))
         /\ IsValid(o) => IsValid(Close(o, t))
         /\ CheckOpen(Close(o, t), t) <=> CheckOpen(o, t)
BY DEF OrderRecord, Ticks, Close, CloseSide, IsOpened, IsClosed, CanClose, CheckOpen, IsValid,
       Triggered, Undefined

------------------------------------------------------------------------------
(* Announcements                                                           *)

At(events, action, id) == {i \in DOMAIN events : events[i] = <<action, id>>}

\* what AnnouncedInOrder says of one order
Told(events, id, o) ==
  /\ At(events, "opened", id) # {} <=> IsOpened(o)
  /\ At(events, "closed", id) # {} <=> IsClosed(o)
  /\ \A i \in At(events, "opened", id) :
       /\ \E j \in At(events, "submitted", id) : j < i
       /\ \A j \in At(events, "opened", id) : i = j
  /\ \A i \in At(events, "closed", id) :
       /\ \E j \in At(events, "opened", id) : j < i
       /\ \A j \in At(events, "closed", id) : i = j

\* every order of a book was announced in order, the pending ones at least once
Announced(b) ==
  \A id \in DOMAIN b.orders :
    /\ Told(b.events, id, b.orders[id])
    /\ id \in Range(b.pending) => At(b.events, "submitted", id) # {}

\* An announcement that is added is the last one.
LEMMA AtAppend ==
  ASSUME NEW S, NEW e \in Seq(S), NEW v \in S, NEW act, NEW id
  PROVE  /\ Len(e) \in Nat /\ At(e, act, id) \subseteq 1..Len(e)
         /\ v # <<act, id>> => At(Append(e, v), act, id) = At(e, act, id)
         /\ v = <<act, id>> => At(Append(e, v), act, id) = At(e, act, id) \cup {Len(e) + 1}
<1> DEFINE f == Append(e, v)
<1>1. /\ Len(e) \in Nat /\ DOMAIN e = 1..Len(e) /\ DOMAIN f = 1..(Len(e) + 1)
      /\ f[Len(e) + 1] = v /\ \A i \in 1..Len(e) : f[i] = e[i]
  BY LenProperties, AppendProperties
<1>2. \A i \in 1..(Len(e) + 1) : i \in 1..Len(e) \/ i = Len(e) + 1
  BY <1>1
<1>3. At(e, act, id) \subseteq 1..Len(e)
  BY <1>1 DEF At
<1> HIDE DEF f
<1>4. Len(e) + 1 \in At(f, act, id) <=> v = <<act, id>>
  <2>1. Len(e) + 1 \in DOMAIN f
    BY <1>1
  <2>2. QED
    BY <1>1, <2>1, Zenon DEF At
<1>5. \A i \in 1..Len(e) : i \in At(f, act, id) <=> i \in At(e, act, id)
  BY <1>1 DEF At
<1>6. At(f, act, id) \subseteq 1..(Len(e) + 1)
  BY <1>1 DEF At
<1>7. QED
  BY <1>1, <1>2, <1>3, <1>4, <1>5, <1>6 DEF f

\* An order that is opened now, after it was submitted, is told of in order.
LEMMA ToldOpened ==
  ASSUME NEW S, NEW e \in Seq(S), NEW id, <<"opened", id>> \in S, NEW o, NEW p,
         Told(e, id, o), ~IsOpened(o), ~IsClosed(o), IsOpened(p), ~IsClosed(p),
         At(e, "submitted", id) # {}
  PROVE  Told(Append(e, <<"opened", id>>), id, p)
<1> DEFINE v == <<"opened", id>>
           f == Append(e, v)
<1>1. /\ v # <<"submitted", id>> /\ v # <<"closed", id>> /\ v \in S
      /\ v = <<"opened", id>>
  OBVIOUS
<1> HIDE DEF v
<1>2. /\ Len(e) \in Nat
      /\ At(f, "submitted", id) = At(e, "submitted", id)
      /\ At(f, "opened", id) = At(e, "opened", id) \cup {Len(e) + 1}
      /\ At(f, "closed", id) = At(e, "closed", id)
      /\ At(e, "submitted", id) \subseteq 1..Len(e)
  BY <1>1, AtAppend
<1>3. At(e, "opened", id) = {} /\ At(e, "closed", id) = {}
  BY DEF Told
<1>4. \E j \in At(e, "submitted", id) : j < Len(e) + 1
  BY <1>2
<1>5. QED
  BY <1>2, <1>3, <1>4 DEF Told, v

\* So is an open order that is closed now.
LEMMA ToldClosed ==
  ASSUME NEW S, NEW e \in Seq(S), NEW id, <<"closed", id>> \in S, NEW o, NEW p,
         Told(e, id, o), IsOpened(o), ~IsClosed(o), IsOpened(p), IsClosed(p)
  PROVE  Told(Append(e, <<"closed", id>>), id, p)
<1> DEFINE v == <<"closed", id>>
           f == Append(e, v)
<1>1. /\ v # <<"submitted", id>> /\ v # <<"opened", id>> /\ v \in S
      /\ v = <<"closed", id>>
  OBVIOUS
<1> HIDE DEF v
<1>2. /\ Len(e) \in Nat
      /\ At(f, "submitted", id) = At(e, "submitted", id)
      /\ At(f, "opened", id) = At(e, "opened", id)
      /\ At(f, "closed", id) = At(e, "closed", id) \cup {Len(e) + 1}
      /\ At(e, "opened", id) \subseteq 1..Len(e)
  BY <1>1, AtAppend
<1>3. At(e, "opened", id) # {} /\ At(e, "closed", id) = {}
  BY DEF Told
<1>4. \E j \in At(e, "opened", id) : j < Len(e) + 1
  BY <1>2, <1>3
<1>5. QED
  BY <1>2, <1>3, <1>4 DEF Told, v

\* What is announced of another order changes nothing, nor does one more submission.
LEMMA ToldOther ==
  ASSUME NEW S, NEW e \in Seq(S), NEW id, NEW o, Told(e, id, o), NEW v \in S,
         v # <<"opened", id>>, v # <<"closed", id>>
  PROVE  Told(Append(e, v), id, o)
<1> DEFINE f == Append(e, v)
<1>1. /\ At(e, "submitted", id) \subseteq At(f, "submitted", id)
      /\ At(f, "opened", id) = At(e, "opened", id)
      /\ At(f, "closed", id) = At(e, "closed", id)
  BY AtAppend
<1>2. QED
  BY <1>1 DEF Told

------------------------------------------------------------------------------
(* The opening loop                                                        *)

\* A turn of the loop makes a book of a book.
LEMMA OpenOneType ==
  ASSUME NEW D, NEW b \in Books(D), NEW id \in D, NEW t \in Ticks
  PROVE  /\ OpenOne(b, id, t) \in Books(D)
         /\ CheckOpen(b.orders[id], t) =>
              /\ OpenOne(b, id, t).orders = [b.orders EXCEPT ![id] = Open(b.orders[id], t)]
              /\ OpenOne(b, id, t).pending = b.pending
              /\ OpenOne(b, id, t).opened = Append(b.opened, id)
              /\ OpenOne(b, id, t).closed = b.closed
              /\ OpenOne(b, id, t).events = Append(b.events, <<"opened", id>>)
         /\ ~CheckOpen(b.orders[id], t) => OpenOne(b, id, t) = b
<1>1. CASE ~CheckOpen(b.orders[id], t)
  BY <1>1 DEF OpenOne
<1>2. CASE CheckOpen(b.orders[id], t)
  <2>1. b.orders[id] \in OrderRecord
    BY DEF Books
  <2>2. Open(b.orders[id], t) \in OrderRecord
    BY <1>2, <2>1, OpenProperties DEF CheckOpen
  <2>3. [b.orders EXCEPT ![id] = Open(b.orders[id], t)] \in [D -> OrderRecord]
    BY <2>2 DEF Books
  <2>4. /\ Append(b.opened, id) \in Seq(D)
        /\ Append(b.events, <<"opened", id>>) \in Seq(Actions \X D)
    BY AppendProperties DEF Books, Actions
  <2>5. OpenOne(b, id, t) =
          [orders |-> [b.orders EXCEPT ![id] = Open(b.orders[id], t)], pending |-> b.pending,
           opened |-> Append(b.opened, id), closed |-> b.closed,
           events |-> Append(b.events, <<"opened", id>>)]
    BY <1>2 DEF OpenOne, Books
  <2>6. b.pending \in Seq(D) /\ b.closed \in Seq(D)
    BY DEF Books
  <2>7. QED
    BY <1>2, <2>3, <2>4, <2>5, <2>6 DEF Books
<1>3. QED
  BY <1>1, <1>2

\* the book when the loop starts
OpenStart(D, b, t) == [b EXCEPT !.pending = Filter(b.pending, D \ DueToOpen(b, t))]

\* the loop goes from start through the orders of ids to the book c
OpenLoop(D, t, ids, start, c) ==
  /\ ids \in Seq(D) /\ start \in Books(D)
  /\ \E g \in [0..Len(ids) -> Books(D)] :
       /\ g[0] = start /\ c = g[Len(ids)]
       /\ \A n \in 1..Len(ids) : g[n] = OpenOne(g[n - 1], ids[n], t)

\* What the loop computes, one order after the other.
LEMMA OpenSteps ==
  ASSUME NEW D, NEW b \in Books(D), NEW t \in Ticks,
         NEW ids, ids = Filter(b.pending, DueToOpen(b, t)),
         NEW start, start = OpenStart(D, b, t)
  PROVE  OpenLoop(D, t, ids, start, OpenOrders(b, t))
<1> USE DEF OpenStart
<1> DEFINE N == Len(ids)
           L == Books(D)
           step == [n \in 1..N |-> [x \in L |-> OpenOne(x, ids[n], t)]]
<1>1. ids \in Seq(D) /\ Filter(b.pending, D \ DueToOpen(b, t)) \in Seq(D)
  BY FilterProperties DEF Books
<1>2. start \in L
  BY <1>1 DEF Books
<1>3. N \in Nat /\ \A n \in 1..N : ids[n] \in D
  BY <1>1, LenProperties, ElementOfSeq
<1>4. Maps(step, N, L)
  <2>1. \A n \in 1..N, x \in L : OpenOne(x, ids[n], t) \in L
    BY <1>3, OpenOneType
  <2> HIDE DEF L, N
  <2>2. QED
    BY <2>1 DEF Maps
<1>5. PICK g : Solves(g, N, L, start, step)
  <2> HIDE DEF step, L, N
  <2>1. QED
    BY <1>2, <1>3, <1>4, Recursion
<1>6. g \in [0..N -> L] /\ g[0] = start
  BY <1>5 DEF Solves
<1>7. ASSUME NEW n \in 1..N PROVE g[n] = OpenOne(g[n - 1], ids[n], t)
  <2>1. g[n - 1] \in L
    BY <1>3, <1>6
  <2> HIDE DEF L
  <2>2. QED
    BY <1>5, <2>1 DEF Solves
<1> HIDE DEF L
<1>8. g = [n \in 0..N |-> IF n = 0 THEN start ELSE OpenOne(g[n - 1], ids[n], t)]
  <2>1. \A n \in 0..N : n = 0 \/ n \in 1..N
    BY <1>3
  <2>2. QED
    BY <1>6, <1>7, <2>1
<1> DEFINE book == CHOOSE f :
             f = [n \in 0..N |-> IF n = 0 THEN start ELSE OpenOne(f[n - 1], ids[n], t)]
<1>9. book = [n \in 0..N |-> IF n = 0 THEN start ELSE OpenOne(book[n - 1], ids[n], t)]
  BY <1>8
<1>10. OpenOrders(b, t) = book[N]
  BY DEF OpenOrders, Books
<1> HIDE DEF book
<1> DEFINE same == {n \in 0..N : book[n] = g[n]}
<1>11. \A n \in 0..N : n \in same
  <2>1. 0 \in same
    BY <1>3, <1>6, <1>9
  <2>2. ASSUME NEW n \in 1..N, n - 1 \in same PROVE n \in same
    <3>1. n \in 0..N /\ n # 0 /\ book[n - 1] = g[n - 1]
      BY <1>3, <2>2
    <3>2. QED
      BY <1>7, <1>9, <3>1
  <2> HIDE DEF same
  <2>3. QED
    BY <1>3, <2>1, <2>2, UpTo
<1>12. QED
  BY <1>1, <1>2, <1>3, <1>6, <1>7, <1>10, <1>11 DEF L, OpenLoop

\* A turn of the loop leaves every order in its list, and announced in order.
LEMMA OpenOnePlaced ==
  ASSUME NEW D, NEW b \in Books(D), NEW x \in D, NEW t \in Ticks, Placed(b),
         \A id \in D : Told(b.events, id, b.orders[id]),
         At(b.events, "submitted", x) # {}
  PROVE  /\ Placed(OpenOne(b, x, t))
         /\ \A id \in D : Told(OpenOne(b, x, t).events, id, OpenOne(b, x, t).orders[id])
         /\ \A id \in D : At(b.events, "submitted", id)
                           \subseteq At(OpenOne(b, x, t).events, "submitted", id)
<1> DEFINE c == OpenOne(b, x, t)
<1>1. CASE ~CheckOpen(b.orders[x], t)
  <2>1. c = b
    BY <1>1 DEF OpenOne
  <2>2. /\ Placed(c) /\ \A id \in D : Told(c.events, id, c.orders[id])
        /\ \A id \in D : At(b.events, "submitted", id) \subseteq At(c.events, "submitted", id)
    <3> HIDE DEF c
    <3>1. QED
      BY <2>1
  <2>3. QED
    BY <2>2
<1>2. CASE CheckOpen(b.orders[x], t)
  <2>1. /\ c.orders = [b.orders EXCEPT ![x] = Open(b.orders[x], t)]
        /\ c.opened = Append(b.opened, x) /\ c.closed = b.closed
        /\ c.events = Append(b.events, <<"opened", x>>)
    BY <1>2, OpenOneType
  <2>2. /\ DOMAIN b.orders = D /\ DOMAIN c.orders = D
        /\ b.orders[x] \in OrderRecord /\ c.orders[x] = Open(b.orders[x], t)
        /\ \A id \in D \ {x} : c.orders[id] = b.orders[id]
        /\ b.opened \in Seq(D) /\ b.events \in Seq(Actions \X D)
    BY <2>1 DEF Books
  <2>3. ~IsOpened(b.orders[x]) /\ ~IsClosed(b.orders[x])
    BY <1>2, <2>2 DEF CheckOpen, Placed
  <2>4. /\ IsOpened(c.orders[x]) /\ ~IsClosed(c.orders[x]) /\ CanClose(c.orders[x])
        /\ IsValid(c.orders[x])
    BY <2>2, <2>3, OpenProperties DEF Placed, CanClose
  <2>5. x \notin Range(b.opened) /\ x \notin Range(b.closed)
    BY <2>2, <2>3 DEF Placed, CanClose
  <2>6. Range(c.opened) = Range(b.opened) \cup {x} /\ IsInjective(c.opened)
    BY <2>1, <2>2, <2>5, RangeOfAppend, InjectiveAppend DEF Placed
  <2>7. Placed(c)
    <3>1. ASSUME NEW id \in D
          PROVE  /\ id \in Range(c.opened) <=> CanClose(c.orders[id])
                 /\ id \in Range(c.closed) <=> IsClosed(c.orders[id])
                 /\ IsClosed(c.orders[id]) => IsOpened(c.orders[id])
                 /\ IsValid(c.orders[id])
      <4>1. CASE id = x
        BY <2>1, <2>4, <2>5, <2>6, <4>1
      <4>2. CASE id # x
        <5>1. /\ id \in Range(c.opened) <=> id \in Range(b.opened)
              /\ c.orders[id] = b.orders[id]
          BY <2>2, <2>6, <4>2
        <5>2. QED
          BY <2>1, <2>2, <5>1 DEF Placed
      <4>3. QED
        BY <4>1, <4>2
    <3> HIDE DEF c
    <3>2. QED
      BY <2>1, <2>2, <2>6, <3>1 DEF Placed
  <2>8. ASSUME NEW id \in D PROVE Told(c.events, id, c.orders[id])
    <3>1. CASE id = x
      <4> DEFINE S == Actions \X D
                 e == b.events
      <4>1. e \in Seq(S) /\ <<"opened", x>> \in S
        BY <2>2 DEF Actions
      <4> HIDE DEF S, c
      <4>2. Told(Append(e, <<"opened", x>>), x, c.orders[x])
        BY <2>3, <2>4, <4>1, ToldOpened
      <4>3. QED
        BY <2>1, <3>1, <4>2
    <3>2. CASE id # x
      <4>1. Told(b.events, id, b.orders[id]) /\ c.orders[id] = b.orders[id]
        BY <2>2, <3>2
      <4>2. QED
        BY <2>1, <2>2, <3>2, <4>1, ToldOther DEF Actions
    <3>3. QED
      BY <3>1, <3>2
  <2>9. ASSUME NEW id \in D
        PROVE  At(b.events, "submitted", id) \subseteq At(c.events, "submitted", id)
    BY <2>1, <2>2, AtAppend DEF Actions
  <2>10. QED
    BY <2>7, <2>8, <2>9
<1>3. QED
  BY <1>1, <1>2

\* The opening loop leaves every order in its list and announced in order.  It opens
\* orders that the tick triggers and touches no other; none of those it leaves pending
\* is triggered.
LEMMA OpenOrdersProperties ==
  ASSUME NEW D, NEW b \in Books(D), NEW t \in Ticks, Placed(b), Announced(b),
         NEW c, c = OpenOrders(b, t)
  PROVE  /\ c \in Books(D) /\ Placed(c) /\ Announced(c) /\ c.closed = b.closed
         /\ \A id \in D : \/ c.orders[id] = b.orders[id]
                          \/ /\ CheckOpen(b.orders[id], t)
                             /\ c.orders[id] = Open(b.orders[id], t)
         /\ \A id \in Range(c.pending) : ~CheckOpen(c.orders[id], t)
<1> DEFINE due   == DueToOpen(b, t)
           ids   == Filter(b.pending, due)
           kept  == Filter(b.pending, D \ due)
           start == OpenStart(D, b, t)
           Opened(x) == \A id \in D : \/ x.orders[id] = b.orders[id]
                                      \/ /\ CheckOpen(b.orders[id], t)
                                         /\ x.orders[id] = Open(b.orders[id], t)
           Heard(x) == \A id \in D : /\ Told(x.events, id, x.orders[id])
                                     /\ At(b.events, "submitted", id)
                                          \subseteq At(x.events, "submitted", id)
           Good(x) == /\ x \in Books(D) /\ Placed(x) /\ Opened(x) /\ Heard(x)
                      /\ x.pending = kept /\ x.closed = b.closed
<1>1. OpenLoop(D, t, ids, start, c)
  <2>1. ids = Filter(b.pending, DueToOpen(b, t)) /\ start = OpenStart(D, b, t)
    OBVIOUS
  <2> HIDE DEF ids, start
  <2>2. QED
    BY <2>1, OpenSteps
<1>2. /\ DOMAIN b.orders = D /\ b.orders \in [D -> OrderRecord] /\ b.pending \in Seq(D)
      /\ start.orders = b.orders /\ start.opened = b.opened /\ start.closed = b.closed
      /\ start.events = b.events /\ start.pending = kept
  BY DEF Books, OpenStart
<1>3. /\ Range(ids) = Range(b.pending) \cap due
      /\ Range(kept) = Range(b.pending) \cap (D \ due)
  BY <1>2, FilterProperties
<1>4. Good(start)
  <2>1. Placed(start)
    BY <1>2 DEF Placed
  <2>2. Opened(start) /\ Heard(start)
    BY <1>2 DEF Announced
  <2>3. QED
    BY <1>1, <1>2, <2>1, <2>2 DEF OpenLoop
<1> HIDE DEF start
<1>5. ASSUME NEW x, Good(x), NEW y \in D, y \in Range(b.pending)
      PROVE  Good(OpenOne(x, y, t))
  <2> DEFINE z == OpenOne(x, y, t)
  <2>1. At(x.events, "submitted", y) # {}
    BY <1>2, <1>5 DEF Announced
  <2>2. /\ Placed(z) /\ \A id \in D : Told(z.events, id, z.orders[id])
        /\ \A id \in D : At(x.events, "submitted", id) \subseteq At(z.events, "submitted", id)
    BY <1>5, <2>1, OpenOnePlaced
  <2>3. /\ z \in Books(D)
        /\ CheckOpen(x.orders[y], t) =>
             /\ z.orders = [x.orders EXCEPT ![y] = Open(x.orders[y], t)]
             /\ z.pending = x.pending /\ z.closed = x.closed
        /\ ~CheckOpen(x.orders[y], t) => z = x
    BY <1>5, OpenOneType
  <2>4. x.orders \in [D -> OrderRecord]
    BY <1>5 DEF Books
  <2> HIDE DEF z
  <2>5. Opened(z)
    <3>1. ASSUME NEW id \in D
          PROVE  \/ z.orders[id] = b.orders[id]
                 \/ /\ CheckOpen(b.orders[id], t) /\ z.orders[id] = Open(b.orders[id], t)
      <4>1. CASE z.orders[id] = x.orders[id]
        BY <1>5, <4>1
      <4>2. CASE z.orders[id] # x.orders[id]
        <5>1. id = y /\ CheckOpen(x.orders[y], t) /\ z.orders[id] = Open(x.orders[id], t)
          BY <2>3, <2>4, <4>2
        <5>2. x.orders[id] = b.orders[id]
          <6>1. ~CheckOpen(Open(b.orders[id], t), t)
            BY <1>2, OpenProperties
          <6>2. QED
            BY <1>5, <5>1, <6>1
        <5>3. QED
          BY <5>1, <5>2
      <4>3. QED
        BY <4>1, <4>2
    <3>2. QED
      BY <3>1
  <2>6. Heard(z)
    BY <1>5, <2>2
  <2>7. z.pending = kept /\ z.closed = b.closed
    BY <1>5, <2>3
  <2>8. QED
    BY <2>2, <2>3, <2>5, <2>6, <2>7 DEF z
<1> HIDE DEF Good
<1>6. Good(c)
  <2>1. PICK g \in [0..Len(ids) -> Books(D)] :
          /\ g[0] = start /\ c = g[Len(ids)]
          /\ \A n \in 1..Len(ids) : g[n] = OpenOne(g[n - 1], ids[n], t)
    <3> HIDE DEF ids
    <3>1. QED
      BY <1>1 DEF OpenLoop
  <2> DEFINE N == Len(ids)
             good == {n \in 0..N : Good(g[n])}
  <2>2. N \in Nat /\ \A n \in 1..N : ids[n] \in D /\ ids[n] \in Range(b.pending)
    <3> HIDE DEF ids
    <3>1. N \in Nat /\ DOMAIN ids = 1..N /\ \A n \in 1..N : ids[n] \in D
      BY <1>1, LenProperties, ElementOfSeq DEF OpenLoop
    <3>2. QED
      BY <1>3, <3>1 DEF Range
  <2>3. 0 \in good
    BY <1>4, <2>1, <2>2
  <2>4. ASSUME NEW n \in 1..N, n - 1 \in good PROVE n \in good
    <3>1. n \in 0..N /\ Good(g[n - 1])
      BY <2>2, <2>4
    <3>2. QED
      BY <1>5, <2>1, <2>2, <3>1
  <2>5. N \in good
    <3> HIDE DEF good
    <3>1. \A n \in 0..N : n \in good
      BY <2>2, <2>3, <2>4, UpTo
    <3>2. QED
      BY <2>2, <3>1
  <2>6. QED
    BY <2>1, <2>5
<1> HIDE DEF ids
<1>7. /\ c \in Books(D) /\ Placed(c) /\ Opened(c) /\ Heard(c)
      /\ c.pending = kept /\ c.closed = b.closed
  BY <1>6 DEF Good
<1>8. ASSUME NEW id \in Range(c.pending)
      PROVE  id \in Range(b.pending) /\ id \in D /\ ~CheckOpen(c.orders[id], t)
  <2>1. id \in Range(b.pending) /\ id \in D /\ id \notin due
    BY <1>3, <1>7
  <2>2. ~CheckOpen(b.orders[id], t)
    BY <1>2, <2>1 DEF DueToOpen
  <2>3. QED
    BY <1>7, <2>1, <2>2
<1>9. Announced(c)
  <2>1. DOMAIN c.orders = D
    BY <1>7 DEF Books
  <2>2. ASSUME NEW id \in D, id \in Range(c.pending) PROVE At(c.events, "submitted", id) # {}
    BY <1>2, <1>7, <1>8, <2>2 DEF Announced
  <2>3. QED
    BY <1>7, <2>1, <2>2 DEF Announced
<1>10. QED
  BY <1>7, <1>8, <1>9

------------------------------------------------------------------------------
(* The closing loop                                                        *)

\* A turn of the loop makes a book of a book.
LEMMA CloseOneType ==
  ASSUME NEW D, NEW b \in Books(D), NEW id \in D, NEW t \in Ticks
  PROVE  /\ CloseOne(b, id, t) \in Books(D)
         /\ CanClose(b.orders[id]) =>
              /\ CloseOne(b, id, t).orders = [b.orders EXCEPT ![id] = Close(b.orders[id], t)]
              /\ CloseOne(b, id, t).pending = b.pending
              /\ CloseOne(b, id, t).opened = b.opened
              /\ CloseOne(b, id, t).closed = Append(b.closed, id)
              /\ CloseOne(b, id, t).events = Append(b.events, <<"closed", id>>)
         /\ ~CanClose(b.orders[id]) => CloseOne(b, id, t) = b
<1>1. CASE ~CanClose(b.orders[id])
  BY <1>1 DEF CloseOne
<1>2. CASE CanClose(b.orders[id])
  <2>1. b.orders[id] \in OrderRecord
    BY DEF Books
  <2>2. Close(b.orders[id], t) \in OrderRecord
    BY <1>2, <2>1, CloseProperties
  <2>3. [b.orders EXCEPT ![id] = Close(b.orders[id], t)] \in [D -> OrderRecord]
    BY <2>2 DEF Books
  <2>4. /\ Append(b.closed, id) \in Seq(D)
        /\ Append(b.events, <<"closed", id>>) \in Seq(Actions \X D)
    BY AppendProperties DEF Books, Actions
  <2>5. CloseOne(b, id, t) =
          [orders |-> [b.orders EXCEPT ![id] = Close(b.orders[id], t)], pending |-> b.pending,
           opened |-> b.opened, closed |-> Append(b.closed, id),
           events |-> Append(b.events, <<"closed", id>>)]
    BY <1>2 DEF CloseOne, Books
  <2>6. b.pending \in Seq(D) /\ b.opened \in Seq(D)
    BY DEF Books
  <2>7. QED
    BY <1>2, <2>3, <2>4, <2>5, <2>6 DEF Books
<1>3. QED
  BY <1>1, <1>2

\* the book when the loop starts
CloseStart(D, b, t) == [b EXCEPT !.opened = Filter(b.opened, D \ DueToClose(b, t))]

\* the loop goes from start through the orders of ids to the book c
CloseLoop(D, t, ids, start, c) ==
  /\ ids \in Seq(D) /\ start \in Books(D)
  /\ \E g \in [0..Len(ids) -> Books(D)] :
       /\ g[0] = start /\ c = g[Len(ids)]
       /\ \A n \in 1..Len(ids) : g[n] = CloseOne(g[n - 1], ids[n], t)

\* What the loop computes, one order after the other.
LEMMA CloseSteps ==
  ASSUME NEW D, NEW b \in Books(D), NEW t \in Ticks,
         NEW ids, ids = Filter(b.opened, DueToClose(b, t)),
         NEW start, start = CloseStart(D, b, t)
  PROVE  CloseLoop(D, t, ids, start, CloseOrders(b, t))
<1> USE DEF CloseStart
<1> DEFINE N == Len(ids)
           L == Books(D)
           step == [n \in 1..N |-> [x \in L |-> CloseOne(x, ids[n], t)]]
<1>1. ids \in Seq(D) /\ Filter(b.opened, D \ DueToClose(b, t)) \in Seq(D)
  BY FilterProperties DEF Books
<1>2. start \in L
  BY <1>1 DEF Books
<1>3. N \in Nat /\ \A n \in 1..N : ids[n] \in D
  BY <1>1, LenProperties, ElementOfSeq
<1>4. Maps(step, N, L)
  <2>1. \A n \in 1..N, x \in L : CloseOne(x, ids[n], t) \in L
    BY <1>3, CloseOneType
  <2> HIDE DEF L, N
  <2>2. QED
    BY <2>1 DEF Maps
<1>5. PICK g : Solves(g, N, L, start, step)
  <2> HIDE DEF step, L, N
  <2>1. QED
    BY <1>2, <1>3, <1>4, Recursion
<1>6. g \in [0..N -> L] /\ g[0] = start
  BY <1>5 DEF Solves
<1>7. ASSUME NEW n \in 1..N PROVE g[n] = CloseOne(g[n - 1], ids[n], t)
  <2>1. g[n - 1] \in L
    BY <1>3, <1>6
  <2> HIDE DEF L
  <2>2. QED
    BY <1>5, <2>1 DEF Solves
<1> HIDE DEF L
<1>8. g = [n \in 0..N |-> IF n = 0 THEN start ELSE CloseOne(g[n - 1], ids[n], t)]
  <2>1. \A n \in 0..N : n = 0 \/ n \in 1..N
    BY <1>3
  <2>2. QED
    BY <1>6, <1>7, <2>1
<1> DEFINE book == CHOOSE f :
             f = [n \in 0..N |-> IF n = 0 THEN start ELSE CloseOne(f[n - 1], ids[n], t)]
<1>9. book = [n \in 0..N |-> IF n = 0 THEN start ELSE CloseOne(book[n - 1], ids[n], t)]
  BY <1>8
<1>10. CloseOrders(b, t) = book[N]
  BY DEF CloseOrders, Books
<1> HIDE DEF book
<1> DEFINE same == {n \in 0..N : book[n] = g[n]}
<1>11. \A n \in 0..N : n \in same
  <2>1. 0 \in same
    BY <1>3, <1>6, <1>9
  <2>2. ASSUME NEW n \in 1..N, n - 1 \in same PROVE n \in same
    <3>1. n \in 0..N /\ n # 0 /\ book[n - 1] = g[n - 1]
      BY <1>3, <2>2
    <3>2. QED
      BY <1>7, <1>9, <3>1
  <2> HIDE DEF same
  <2>3. QED
    BY <1>3, <2>1, <2>2, UpTo
<1>12. QED
  BY <1>1, <1>2, <1>3, <1>6, <1>7, <1>10, <1>11 DEF L, CloseLoop

\* The closing loop leaves every order in its list and announced in order.  It closes
\* orders that are open and touches no other; none of those it leaves open is due.
LEMMA CloseOrdersProperties ==
  ASSUME NEW D, NEW b \in Books(D), NEW t \in Ticks, Placed(b), Announced(b),
         NEW c, c = CloseOrders(b, t)
  PROVE  /\ c \in Books(D) /\ Placed(c) /\ Announced(c) /\ c.pending = b.pending
         /\ \A id \in D : \/ c.orders[id] = b.orders[id]
                          \/ /\ CanClose(b.orders[id])
                             /\ c.orders[id] = Close(b.orders[id], t)
         /\ \A id \in Range(c.opened) : ~CheckClose(c.orders[id], t)
<1> DEFINE due   == DueToClose(b, t)
           ids   == Filter(b.opened, due)
           kept  == Filter(b.opened, D \ due)
           start == CloseStart(D, b, t)
           N     == Len(ids)
           gone(n) == {ids[m] : m \in 1..n}
           Heard(x) == \A id \in D : /\ Told(x.events, id, x.orders[id])
                                     /\ At(b.events, "submitted", id)
                                          \subseteq At(x.events, "submitted", id)
           Good(x, n) ==
             /\ x \in Books(D) /\ x.opened = kept /\ x.pending = b.pending /\ Heard(x)
             /\ IsInjective(x.closed) /\ Range(x.closed) = Range(b.closed) \cup gone(n)
             /\ \A id \in D : /\ id \in gone(n) => x.orders[id] = Close(b.orders[id], t)
                              /\ id \notin gone(n) => x.orders[id] = b.orders[id]
<1>1. CloseLoop(D, t, ids, start, c)
  <2>1. ids = Filter(b.opened, DueToClose(b, t)) /\ start = CloseStart(D, b, t)
    OBVIOUS
  <2> HIDE DEF ids, start
  <2>2. QED
    BY <2>1, CloseSteps
<1>2. /\ DOMAIN b.orders = D /\ b.orders \in [D -> OrderRecord] /\ b.opened \in Seq(D)
      /\ start.orders = b.orders /\ start.opened = kept /\ start.closed = b.closed
      /\ start.events = b.events /\ start.pending = b.pending
  BY DEF Books, CloseStart
<1>3. /\ Range(ids) = Range(b.opened) \cap due /\ IsInjective(ids)
      /\ Range(kept) = Range(b.opened) \cap (D \ due) /\ IsInjective(kept)
  BY <1>2, FilterProperties DEF Placed
<1>4. ids \in Seq(D) /\ N \in Nat /\ DOMAIN ids = 1..N
  <2> HIDE DEF ids
  <2>1. QED
    BY <1>1, LenProperties DEF CloseLoop
<1> HIDE DEF start, ids, kept
<1>5. gone(N) = Range(ids)
  BY <1>4 DEF Range
<1>6. \A n \in 1..N : /\ ids[n] \in D /\ CanClose(b.orders[ids[n]])
                      /\ ids[n] \notin Range(b.closed) /\ ids[n] \notin gone(n - 1)
                      /\ gone(n) = gone(n - 1) \cup {ids[n]}
  <2>1. SUFFICES ASSUME NEW n \in 1..N
                 PROVE  /\ ids[n] \in D /\ CanClose(b.orders[ids[n]])
                        /\ ids[n] \notin Range(b.closed) /\ ids[n] \notin gone(n - 1)
                        /\ gone(n) = gone(n - 1) \cup {ids[n]}
    OBVIOUS
  <2>2. ids[n] \in D /\ ids[n] \in Range(b.opened)
    BY <1>3, <1>4, ElementOfSeq DEF Range
  <2>3. CanClose(b.orders[ids[n]]) /\ ids[n] \notin Range(b.closed)
    BY <1>2, <2>2 DEF Placed, CanClose
  <2>4. ids[n] \notin gone(n - 1)
    BY <1>3, <1>4 DEF IsInjective
  <2>5. \A m \in 1..n : m \in 1..(n - 1) \/ m = n
    BY <1>4
  <2>6. gone(n) = gone(n - 1) \cup {ids[n]}
    BY <1>4, <2>5
  <2>7. QED
    BY <2>2, <2>3, <2>4, <2>6
<1>7. Good(start, 0)
  <2>1. start \in Books(D)
    BY <1>1 DEF CloseLoop
  <2>2. gone(0) = {}
    OBVIOUS
  <2>3. Heard(start)
    BY <1>2 DEF Announced
  <2>4. QED
    BY <1>2, <2>1, <2>2, <2>3 DEF Placed
<1>8. ASSUME NEW n \in 1..N, NEW x, Good(x, n - 1)
      PROVE  Good(CloseOne(x, ids[n], t), n)
  <2> DEFINE y == ids[n]
             z == CloseOne(x, y, t)
  <2>1. y \in D /\ x.orders[y] = b.orders[y] /\ CanClose(x.orders[y]) /\ x \in Books(D)
    BY <1>6, <1>8
  <2>2. /\ gone(n) = gone(n - 1) \cup {y} /\ y \notin gone(n - 1) /\ y \notin Range(b.closed)
        /\ y \notin Range(x.closed)
    BY <1>6, <1>8
  <2> HIDE DEF gone, y
  <2>3. /\ z \in Books(D)
        /\ z.orders = [x.orders EXCEPT ![y] = Close(x.orders[y], t)]
        /\ z.pending = b.pending /\ z.opened = kept
        /\ z.closed = Append(x.closed, y) /\ z.events = Append(x.events, <<"closed", y>>)
    BY <1>8, <2>1, CloseOneType
  <2> HIDE DEF z
  <2>4. /\ x.orders \in [D -> OrderRecord] /\ x.closed \in Seq(D)
        /\ x.events \in Seq(Actions \X D)
    BY <2>1 DEF Books
  <2>5. /\ z.orders[y] = Close(b.orders[y], t)
        /\ \A id \in D \ {y} : z.orders[id] = x.orders[id]
    BY <2>1, <2>3, <2>4
  <2>6. IsInjective(z.closed) /\ Range(z.closed) = Range(b.closed) \cup gone(n)
    <3>1. IsInjective(z.closed) /\ Range(z.closed) = Range(x.closed) \cup {y}
      BY <1>8, <2>1, <2>2, <2>3, <2>4, RangeOfAppend, InjectiveAppend
    <3>2. QED
      BY <1>8, <2>2, <3>1
  <2>7. ASSUME NEW id \in D
        PROVE  /\ id \in gone(n) => z.orders[id] = Close(b.orders[id], t)
               /\ id \notin gone(n) => z.orders[id] = b.orders[id]
    <3>1. CASE id = y
      BY <2>2, <2>5, <3>1
    <3>2. CASE id # y
      <4>1. z.orders[id] = x.orders[id] /\ (id \in gone(n) <=> id \in gone(n - 1))
        BY <2>2, <2>5, <3>2
      <4>2. QED
        BY <1>8, <4>1
    <3>3. QED
      BY <3>1, <3>2
  <2>8. ASSUME NEW id \in D
        PROVE  /\ Told(z.events, id, z.orders[id])
               /\ At(b.events, "submitted", id) \subseteq At(z.events, "submitted", id)
    <3> DEFINE S == Actions \X D
               v == <<"closed", y>>
    <3>1. x.events \in Seq(S) /\ v \in S
      BY <2>1, <2>4 DEF Actions
    <3>2. v # <<"submitted", id>> /\ v # <<"opened", id>>
          /\ (id # y => v # <<"closed", id>>)
      OBVIOUS
    <3>3. v = <<"closed", y>>
      OBVIOUS
    <3>4. Told(x.events, id, x.orders[id])
      BY <1>8
    <3> HIDE DEF S, v
    <3>5. At(z.events, "submitted", id) = At(x.events, "submitted", id)
      BY <2>3, <3>1, <3>2, <3>3, AtAppend
    <3>6. Told(z.events, id, z.orders[id])
      <4>1. CASE id = y
        <5>1. /\ IsOpened(x.orders[y]) /\ ~IsClosed(x.orders[y])
              /\ IsOpened(z.orders[y]) /\ IsClosed(z.orders[y])
          BY <2>1, <2>4, <2>5, CloseProperties DEF CanClose
        <5>2. QED
          BY <2>3, <3>1, <3>3, <3>4, <4>1, <5>1, ToldClosed
      <4>2. CASE id # y
        BY <2>3, <2>5, <3>1, <3>2, <3>3, <3>4, <4>2, ToldOther
      <4>3. QED
        BY <4>1, <4>2
    <3>7. QED
      BY <1>8, <3>5, <3>6
  <2>9. Good(z, n)
    BY <2>3, <2>6, <2>7, <2>8
  <2>10. QED
    BY <2>9 DEF z, y
<1> HIDE DEF Good
<1>9. Good(c, N)
  <2>1. PICK g \in [0..N -> Books(D)] :
          /\ g[0] = start /\ c = g[N]
          /\ \A n \in 1..N : g[n] = CloseOne(g[n - 1], ids[n], t)
    BY <1>1 DEF CloseLoop
  <2> DEFINE good == {n \in 0..N : Good(g[n], n)}
  <2>2. 0 \in good
    BY <1>4, <1>7, <2>1
  <2>3. ASSUME NEW n \in 1..N, n - 1 \in good PROVE n \in good
    <3>1. n \in 0..N /\ Good(g[n - 1], n - 1)
      BY <1>4, <2>3
    <3>2. QED
      BY <1>8, <2>1, <3>1
  <2>4. N \in good
    <3> HIDE DEF good, N
    <3>1. \A n \in 0..N : n \in good
      BY <1>4, <2>2, <2>3, UpTo
    <3>2. QED
      BY <1>4, <3>1
  <2>5. QED
    BY <2>1, <2>4
<1>10. /\ c \in Books(D) /\ c.opened = kept /\ c.pending = b.pending /\ Heard(c)
       /\ IsInjective(c.closed) /\ Range(c.closed) = Range(b.closed) \cup Range(ids)
       /\ \A id \in D : /\ id \in Range(ids) => c.orders[id] = Close(b.orders[id], t)
                        /\ id \notin Range(ids) => c.orders[id] = b.orders[id]
  BY <1>5, <1>9 DEF Good
<1>11. ASSUME NEW id \in D
       PROVE  /\ id \in Range(ids) <=> CheckClose(b.orders[id], t)
              /\ id \in Range(kept) <=> CanClose(b.orders[id]) /\ ~CheckClose(b.orders[id], t)
  BY <1>2, <1>3 DEF Placed, DueToClose, CheckClose
<1>12. ASSUME NEW id \in D
       PROVE  /\ id \in Range(c.opened) <=> CanClose(c.orders[id])
              /\ id \in Range(c.closed) <=> IsClosed(c.orders[id])
              /\ IsClosed(c.orders[id]) => IsOpened(c.orders[id])
              /\ IsValid(c.orders[id])
              /\ id \in Range(c.opened) => ~CheckClose(c.orders[id], t)
              /\ \/ c.orders[id] = b.orders[id]
                 \/ CanClose(b.orders[id]) /\ c.orders[id] = Close(b.orders[id], t)
  <2>0. /\ id \in Range(b.opened) <=> CanClose(b.orders[id])
        /\ id \in Range(b.closed) <=> IsClosed(b.orders[id])
        /\ IsClosed(b.orders[id]) => IsOpened(b.orders[id])
        /\ IsValid(b.orders[id]) /\ b.orders[id] \in OrderRecord
    BY <1>2 DEF Placed
  <2>1. CASE CheckClose(b.orders[id], t)
    <3>1. CanClose(b.orders[id]) /\ c.orders[id] = Close(b.orders[id], t)
      BY <1>10, <1>11, <2>1 DEF CheckClose
    <3>2. IsClosed(c.orders[id]) /\ IsOpened(c.orders[id]) /\ IsValid(c.orders[id])
      BY <2>0, <3>1, CloseProperties DEF CanClose
    <3>3. QED
      BY <1>10, <1>11, <2>1, <3>1, <3>2 DEF CanClose
  <2>2. CASE ~CheckClose(b.orders[id], t)
    BY <1>10, <1>11, <2>0, <2>2
  <2>3. QED
    BY <2>1, <2>2
<1>13. /\ DOMAIN c.orders = D /\ c.opened \in Seq(D)
       /\ \A id \in Range(c.opened) : id \in D
  BY <1>3, <1>10 DEF Books
<1>14. Placed(c)
  BY <1>3, <1>10, <1>12, <1>13 DEF Placed
<1>15. Announced(c)
  BY <1>2, <1>10, <1>13 DEF Announced
<1>16. QED
  BY <1>10, <1>12, <1>13, <1>14, <1>15

------------------------------------------------------------------------------
(* The tick handler                                                        *)

\* the announcements of orders in D
Log(D) == Seq(Actions \X D)

\* the log when the submissions of ids are announced
Submissions(e, ids) == e \o Events("submitted", ids)

\* Announcements of submissions at the end of the log leave the others where they are.
LEMMA AtSubmissions ==
  ASSUME NEW D, NEW e \in Log(D), NEW ids \in Seq(D)
  PROVE  /\ Submissions(e, ids) \in Log(D)
         /\ \A id :
              /\ At(Submissions(e, ids), "opened", id) = At(e, "opened", id)
              /\ At(Submissions(e, ids), "closed", id) = At(e, "closed", id)
              /\ At(e, "submitted", id) \subseteq At(Submissions(e, ids), "submitted", id)
              /\ id \in Range(ids) => At(Submissions(e, ids), "submitted", id) # {}
<1> DEFINE d == Events("submitted", ids)
           f == Submissions(e, ids)
<1>1. /\ Len(ids) \in Nat /\ DOMAIN ids = 1..Len(ids) /\ \A i \in 1..Len(ids) : ids[i] \in D
  BY LenProperties, ElementOfSeq
<1>2. d = [i \in 1..Len(ids) |-> <<"submitted", ids[i]>>]
  BY <1>1 DEF Events
<1>3. d \in Seq(Actions \X D) /\ Len(d) = Len(ids)
  <2>1. \A i \in 1..Len(ids) : <<"submitted", ids[i]>> \in Actions \X D
    BY <1>1 DEF Actions
  <2> DEFINE S == Actions \X D
  <2>2. d \in [1..Len(ids) -> S]
    BY <1>2, <2>1
  <2> HIDE DEF S, d
  <2>3. d \in Seq(S)
    BY <1>1, <2>2, SeqDef
  <2>4. Len(d) = Len(ids)
    BY <1>1, <2>2, <2>3, LenProperties
  <2>5. QED
    BY <2>3, <2>4 DEF S
<1>0. f = e \o d
  BY DEF Submissions
<1> HIDE DEF d, f
<1>4. /\ f = e \o d /\ Len(e) \in Nat /\ DOMAIN e = 1..Len(e)
      /\ DOMAIN f = 1..(Len(e) + Len(ids)) /\ f \in Seq(Actions \X D)
      /\ \A i \in 1..Len(e) : i \in DOMAIN f /\ f[i] = e[i]
      /\ \A i \in 1..Len(ids) :
           Len(e) + i \in DOMAIN f /\ f[Len(e) + i] = <<"submitted", ids[i]>>
  <2> DEFINE S == Actions \X D
  <2>0. e \in Seq(S) /\ d \in Seq(S)
    BY <1>3 DEF Log
  <2>1. f = e \o d
    BY <1>0
  <2> HIDE DEF S
  <2>2. /\ Len(e) \in Nat /\ DOMAIN e = 1..Len(e) /\ f \in Seq(S)
        /\ DOMAIN f = 1..(Len(e) + Len(d))
        /\ \A i \in 1..Len(e) : f[i] = e[i]
        /\ \A i \in 1..Len(d) : f[Len(e) + i] = d[i]
    <3> DEFINE h == e \o d
    <3>1. /\ Len(e) \in Nat /\ DOMAIN e = 1..Len(e) /\ h \in Seq(S)
          /\ DOMAIN h = 1..(Len(e) + Len(d))
          /\ \A i \in 1..Len(e) : h[i] = e[i]
          /\ \A i \in 1..Len(d) : h[Len(e) + i] = d[i]
      BY <2>0, ConcatParts
    <3>2. QED
      BY <2>1, <3>1
  <2>3. Len(d) = Len(ids) /\ \A i \in 1..Len(ids) : d[i] = <<"submitted", ids[i]>>
    BY <1>2, <1>3
  <2>4. /\ DOMAIN f = 1..(Len(e) + Len(ids))
        /\ \A i \in 1..Len(e) : i \in DOMAIN f
        /\ \A i \in 1..Len(ids) : Len(e) + i \in DOMAIN f
    BY <1>1, <2>2, <2>3
  <2>5. QED
    BY <2>1, <2>2, <2>3, <2>4 DEF S
<1>5. ASSUME NEW i \in DOMAIN f, NEW id
      PROVE  \/ i \in DOMAIN e /\ f[i] = e[i]
             \/ f[i] # <<"opened", id>> /\ f[i] # <<"closed", id>>
  <2>1. CASE i \in 1..Len(e)
    BY <1>4, <2>1
  <2>2. CASE i \notin 1..Len(e)
    <3>1. i - Len(e) \in 1..Len(ids) /\ Len(e) + (i - Len(e)) = i
      BY <1>1, <1>4, <2>2
    <3>2. f[i] = <<"submitted", ids[i - Len(e)]>>
      BY <1>4, <3>1
    <3>3. QED
      BY <3>2
  <2>3. QED
    BY <2>1, <2>2
<1>6. ASSUME NEW id
      PROVE  /\ At(f, "opened", id) = At(e, "opened", id)
             /\ At(f, "closed", id) = At(e, "closed", id)
             /\ At(e, "submitted", id) \subseteq At(f, "submitted", id)
  BY <1>4, <1>5 DEF At
<1>7. ASSUME NEW id, id \in Range(ids) PROVE At(f, "submitted", id) # {}
  <2>1. PICK i \in 1..Len(ids) : ids[i] = id
    BY <1>1, <1>7 DEF Range
  <2>2. Len(e) + i \in At(f, "submitted", id)
    BY <1>4, <2>1 DEF At
  <2>3. QED
    BY <2>2
<1>8. QED
  BY <1>4, <1>6, <1>7 DEF f, Log

\* add_new_orders announces what it makes pending and leaves the other lists alone.
LEMMA AddNewOrdersProperties ==
  ASSUME NEW D, NEW b \in Books(D), new_orders_ \in Seq(D), Placed(b), Announced(b),
         NEW c, c = AddNewOrders(b)
  PROVE  c \in Books(D) /\ Placed(c) /\ Announced(c) /\ c.orders = b.orders
<1> DEFINE f == Submissions(b.events, new_orders_)
           p == b.pending \o new_orders_
<1>1. /\ b.pending \in Seq(D) /\ b.opened \in Seq(D) /\ b.closed \in Seq(D)
      /\ b.events \in Seq(Actions \X D) /\ b.orders \in [D -> OrderRecord]
      /\ c = [orders |-> b.orders, pending |-> p, opened |-> b.opened,
              closed |-> b.closed, events |-> f]
  BY DEF Books, AddNewOrders, Submissions
<1>2. p \in Seq(D) /\ Range(p) = Range(b.pending) \cup Range(new_orders_)
  BY <1>1, ConcatProperties, RangeOfConcat
<1>3. /\ f \in Log(D)
      /\ \A id : /\ At(f, "opened", id) = At(b.events, "opened", id)
                 /\ At(f, "closed", id) = At(b.events, "closed", id)
                 /\ At(b.events, "submitted", id) \subseteq At(f, "submitted", id)
                 /\ id \in Range(new_orders_) => At(f, "submitted", id) # {}
  <2>1. b.events \in Log(D)
    BY <1>1 DEF Log
  <2>2. QED
    BY <2>1, AtSubmissions
<1> HIDE DEF f, p
<1>5. c \in Books(D)
  BY <1>1, <1>2, <1>3 DEF Books, Log
<1>6. Placed(c)
  BY <1>1 DEF Placed
<1>7. Announced(c)
  <2>1. /\ c.orders = b.orders /\ c.events = f /\ Range(c.pending) = Range(p)
        /\ DOMAIN b.orders = D
    BY <1>1
  <2>2. ASSUME NEW id \in D PROVE Told(f, id, b.orders[id])
    BY <1>3, <2>1 DEF Announced, Told
  <2>3. ASSUME NEW id \in D, id \in Range(p) PROVE At(f, "submitted", id) # {}
    BY <1>2, <1>3, <2>1, <2>3 DEF Announced
  <2>4. QED
    BY <2>1, <2>2, <2>3 DEF Announced
<1>8. QED
  BY <1>1, <1>5, <1>6, <1>7

\* what a tick may do to one order
Handled(o, p, t) ==
  \/ p = o
  \/ CheckOpen(o, t) /\ p = Open(o, t)
  \/ CanClose(o) /\ p = Close(o, t)
  \/ CheckOpen(o, t) /\ p = Close(Open(o, t), t)

\* A tick leaves every order in its list and announced in order, and nothing overdue.
LEMMA HandleTickProperties ==
  ASSUME NEW D, NEW b \in Books(D), new_orders_ \in Seq(D), NEW t \in Ticks,
         Placed(b), Announced(b), NEW c, c = HandleTick(b, t)
  PROVE  /\ c \in Books(D) /\ Placed(c) /\ Announced(c)
         /\ \A id \in D : Handled(b.orders[id], c.orders[id], t)
         /\ \A id \in Range(c.opened) : ~CheckClose(c.orders[id], t)
         /\ \A id \in Range(c.pending) : ~CheckOpen(c.orders[id], t)
<1> DEFINE a == AddNewOrders(b)
           m == OpenOrders(a, t)
<1>1. a \in Books(D) /\ Placed(a) /\ Announced(a) /\ a.orders = b.orders
  BY AddNewOrdersProperties
<1> HIDE DEF a
<1>2. /\ m \in Books(D) /\ Placed(m) /\ Announced(m)
      /\ \A id \in D : \/ m.orders[id] = a.orders[id]
                       \/ /\ CheckOpen(a.orders[id], t)
                          /\ m.orders[id] = Open(a.orders[id], t)
      /\ \A id \in Range(m.pending) : ~CheckOpen(m.orders[id], t)
  BY <1>1, OpenOrdersProperties
<1>3. c = CloseOrders(m, t)
  BY DEF HandleTick, a
<1> HIDE DEF m
<1>4. /\ c \in Books(D) /\ Placed(c) /\ Announced(c) /\ c.pending = m.pending
      /\ \A id \in D : \/ c.orders[id] = m.orders[id]
                       \/ /\ CanClose(m.orders[id])
                          /\ c.orders[id] = Close(m.orders[id], t)
      /\ \A id \in Range(c.opened) : ~CheckClose(c.orders[id], t)
  BY <1>2, <1>3, CloseOrdersProperties
<1>5. ASSUME NEW id \in D PROVE Handled(b.orders[id], c.orders[id], t)
  BY <1>1, <1>2, <1>4 DEF Handled, CanClose, CheckOpen
<1>6. ASSUME NEW id \in Range(c.pending) PROVE ~CheckOpen(c.orders[id], t)
  <2>1. c.pending \in Seq(D) /\ m.orders \in [D -> OrderRecord]
    BY <1>2, <1>4 DEF Books
  <2>2. id \in D /\ m.orders[id] \in OrderRecord /\ id \in Range(m.pending)
    BY <1>4, <2>1, ElementOfSeq, LenProperties DEF Range
  <2>3. QED
    BY <1>2, <1>4, <2>2, CloseProperties
<1>7. QED
  BY <1>4, <1>5, <1>6

------------------------------------------------------------------------------
(* The invariant                                                           *)

\* An order in a list is a submitted one, it is in the list its prices say, and it was
\* announced in order.
Inv ==
  /\ Submitted \subseteq OrderId
  /\ new_orders_ \in Seq(Submitted)
  /\ Book \in Books(Submitted)
  /\ Placed(Book)
  /\ Announced(Book)
  /\ ticks \in 0..MaxTicks
  /\ NothingOverdue

LEMMA InitInv == Init => Inv
<1> SUFFICES ASSUME Init PROVE Inv
  OBVIOUS
<1>1. /\ Submitted = {} /\ Book.orders = <<>>
      /\ Book = [orders |-> <<>>, pending |-> <<>>, opened |-> <<>>, closed |-> <<>>,
                 events |-> <<>>]
  BY DEF Init, Submitted, Book
<1>2. /\ <<>> \in [{} -> OrderRecord] /\ <<>> \in Seq({})
      /\ \A S : <<>> \in Seq(S)
  BY EmptySeq
<1>3. <<>> \in Seq(Actions \X {})
  <2> DEFINE S == Actions \X {}
  <2> HIDE DEF S
  <2>1. <<>> \in Seq(S)
    BY EmptySeq
  <2>2. QED
    BY <2>1 DEF S
<1>4. Book \in Books(Submitted)
  BY <1>1, <1>2, <1>3 DEF Books
<1>5. Placed(Book) /\ Announced(Book)
  BY <1>1 DEF Placed, Announced, IsInjective
<1>6. ticks = 0 /\ 0 \in 0..MaxTicks
  BY PricesAssumption DEF Init
<1>7. QED
  BY <1>1, <1>2, <1>4, <1>5, <1>6 DEF Inv, Init, NothingOverdue

\* A submission touches no list but new_orders_.
LEMMA SubmitInv ==
  ASSUME Inv, NEW id \in OrderId, NEW o \in OrderRecord, ~IsOpened(o), ~IsClosed(o),
         submit_order(id, o)
  PROVE  Inv'
<1> DEFINE D == Submitted
           E == D \cup {id}
<1>1. /\ id \notin D /\ IsValid(o)
      /\ orders' = [i \in E |-> IF i = id THEN o ELSE orders[i]]
      /\ new_orders_' = Append(new_orders_, id)
      /\ UNCHANGED <<pending_orders_, opened_orders_, closed_orders_, latest_tick_,
                     order_events, ticks>>
  BY DEF submit_order
<1>2. /\ orders \in [D -> OrderRecord] /\ pending_orders_ \in Seq(D)
      /\ opened_orders_ \in Seq(D) /\ closed_orders_ \in Seq(D)
      /\ order_events \in Seq(Actions \X D) /\ new_orders_ \in Seq(D)
  BY DEF Inv, Books, Book
<1>3. /\ Submitted' = E /\ orders' \in [E -> OrderRecord]
      /\ orders'[id] = o /\ \A i \in D : orders'[i] = orders[i]
  BY <1>1, <1>2 DEF Submitted
<1> HIDE DEF D, E
<1>4. D \subseteq E /\ id \in E /\ \A i \in E : i \in D \/ i = id
  BY DEF E
<1>5. /\ pending_orders_' \in Seq(E) /\ opened_orders_' \in Seq(E)
      /\ closed_orders_' \in Seq(E)
  BY <1>1, <1>2, <1>4, SeqMonotonic
<1>6. new_orders_' \in Seq(E)
  <2>1. new_orders_ \in Seq(E)
    BY <1>2, <1>4, SeqMonotonic
  <2>2. QED
    BY <1>1, <1>4, <2>1, AppendProperties
<1>7. order_events' \in Seq(Actions \X E)
  <2> DEFINE S == Actions \X D
             T == Actions \X E
  <2>1. order_events \in Seq(S) /\ S \subseteq T
    BY <1>2, <1>4
  <2> HIDE DEF S, T
  <2>2. order_events \in Seq(T)
    BY <2>1, SeqMonotonic
  <2>3. QED
    BY <1>1, <2>2 DEF T
<1>8. Book' = [orders |-> orders', pending |-> pending_orders_', opened |-> opened_orders_',
               closed |-> closed_orders_', events |-> order_events']
  BY DEF Book
<1>9. Book' \in Books(Submitted')
  BY <1>3, <1>5, <1>7, <1>8 DEF Books
<1>10. /\ \A x \in Range(opened_orders_) \cup Range(closed_orders_)
                     \cup Range(pending_orders_) : x \in D
       /\ \A i \in DOMAIN order_events : \A a : order_events[i] # <<a, id>>
  <2>1. \A s \in Seq(D) : \A x \in Range(s) : x \in D
    BY LenProperties, ElementOfSeq DEF Range
  <2>2. ASSUME NEW i \in DOMAIN order_events PROVE order_events[i] \in Actions \X D
    <3> DEFINE S == Actions \X D
    <3>1. order_events \in Seq(S)
      BY <1>2
    <3> HIDE DEF S
    <3>2. order_events[i] \in S
      BY <3>1, LenProperties, ElementOfSeq
    <3>3. QED
      BY <3>2 DEF S
  <2>3. id \notin D
    BY <1>1 DEF D
  <2>4. QED
    BY <1>2, <2>1, <2>2, <2>3
<1>11. Placed(Book')
  <2>1. ASSUME NEW x \in E
        PROVE  /\ x \in Range(opened_orders_) <=> CanClose(orders'[x])
               /\ x \in Range(closed_orders_) <=> IsClosed(orders'[x])
               /\ IsClosed(orders'[x]) => IsOpened(orders'[x])
               /\ IsValid(orders'[x])
    <3>1. CASE x \in D
      <4>1. x \in DOMAIN Book.orders /\ orders'[x] = Book.orders[x]
        BY <1>2, <1>3, <3>1 DEF Book
      <4>2. /\ Book.opened = opened_orders_ /\ Book.closed = closed_orders_
        BY DEF Book
      <4>3. QED
        BY <4>1, <4>2 DEF Inv, Placed
    <3>2. CASE x = id
      BY <1>1, <1>3, <1>10, <3>2 DEF CanClose, D
    <3>3. QED
      BY <1>4, <3>1, <3>2
  <2>2. IsInjective(opened_orders_) /\ IsInjective(closed_orders_)
    BY DEF Inv, Placed, Book
  <2>3. QED
    BY <1>1, <1>3, <1>8, <2>1, <2>2 DEF Placed
<1>12. Announced(Book')
  <2>1. ASSUME NEW x \in E
        PROVE  /\ Told(order_events, x, orders'[x])
               /\ x \in Range(pending_orders_) => At(order_events, "submitted", x) # {}
    <3>1. CASE x \in D
      <4>1. x \in DOMAIN Book.orders /\ orders'[x] = Book.orders[x]
        BY <1>2, <1>3, <3>1 DEF Book
      <4>2. /\ Book.events = order_events /\ Book.pending = pending_orders_
        BY DEF Book
      <4>3. QED
        BY <4>1, <4>2 DEF Inv, Announced
    <3>2. CASE x = id
      <4>1. \A a : At(order_events, a, id) = {}
        BY <1>10 DEF At
      <4>2. id \notin Range(pending_orders_)
        BY <1>1, <1>10 DEF D
      <4>3. QED
        BY <1>3, <3>2, <4>1, <4>2 DEF Told
    <3>3. QED
      BY <1>4, <3>1, <3>2
  <2>2. QED
    BY <1>1, <1>3, <1>8, <2>1 DEF Announced
<1>13. NothingOverdue'
  <2>1. /\ \A i \in DOMAIN opened_orders_ : opened_orders_[i] \in D
        /\ \A i \in DOMAIN pending_orders_ : pending_orders_[i] \in D
    BY <1>2, LenProperties, ElementOfSeq
  <2>2. QED
    BY <1>1, <1>3, <2>1 DEF Inv, NothingOverdue
<1>14. Submitted' \subseteq OrderId
  BY <1>3 DEF Inv, E, D
<1>15. ticks' \in 0..MaxTicks
  BY <1>1 DEF Inv
<1>16. QED
  BY <1>3, <1>6, <1>9, <1>11, <1>12, <1>13, <1>14, <1>15 DEF Inv

\* The book of the next state is the one the tick handler makes.
LEMMA TickBook ==
  ASSUME Inv, NEW t \in Ticks, on_tick(t)
  PROVE  /\ Book' = HandleTick(Book, t) /\ Submitted' = Submitted
         /\ Book' \in Books(Submitted) /\ Placed(Book') /\ Announced(Book')
         /\ \A id \in Submitted : Handled(orders[id], orders'[id], t)
         /\ \A id \in Range(opened_orders_') : ~CheckClose(orders'[id], t)
         /\ \A id \in Range(pending_orders_') : ~CheckOpen(orders'[id], t)
<1> DEFINE b == Book
           c == HandleTick(b, t)
           D == Submitted
<1>1. b \in Books(D) /\ new_orders_ \in Seq(D) /\ Placed(b) /\ Announced(b)
  BY DEF Inv
<1>2. b.orders = orders
  BY DEF Book
<1> HIDE DEF D, b
<1>3. /\ c \in Books(D) /\ Placed(c) /\ Announced(c)
      /\ \A id \in D : Handled(b.orders[id], c.orders[id], t)
      /\ \A id \in Range(c.opened) : ~CheckClose(c.orders[id], t)
      /\ \A id \in Range(c.pending) : ~CheckOpen(c.orders[id], t)
  BY <1>1, HandleTickProperties
<1>4. /\ orders' = c.orders /\ pending_orders_' = c.pending /\ opened_orders_' = c.opened
      /\ closed_orders_' = c.closed /\ order_events' = c.events
  BY DEF on_tick, b
<1> HIDE DEF c
<1>5. Book' = c
  <2>1. c = [orders |-> c.orders, pending |-> c.pending, opened |-> c.opened,
             closed |-> c.closed, events |-> c.events]
    BY <1>3 DEF Books
  <2>2. QED
    BY <1>4, <2>1 DEF Book
<1>6. Submitted' = D
  <2>1. c.orders \in [D -> OrderRecord]
    BY <1>3 DEF Books
  <2>2. QED
    BY <1>4, <2>1 DEF Submitted
<1>7. QED
  BY <1>2, <1>3, <1>4, <1>5, <1>6 DEF D, b, c

LEMMA TickInv ==
  ASSUME Inv, NEW t \in Ticks, on_tick(t)
  PROVE  Inv'
<1>1. /\ Submitted' = Submitted
      /\ Book' \in Books(Submitted) /\ Placed(Book') /\ Announced(Book')
      /\ \A id \in Range(opened_orders_') : ~CheckClose(orders'[id], t)
      /\ \A id \in Range(pending_orders_') : ~CheckOpen(orders'[id], t)
  BY TickBook
<1>2. new_orders_' = new_orders_ /\ ticks' = ticks + 1 /\ ticks < MaxTicks
      /\ latest_tick_' = t
  BY DEF on_tick
<1>3. ticks' \in 0..MaxTicks
  BY <1>2, PricesAssumption DEF Inv
<1>4. NothingOverdue'
  BY <1>1, <1>2 DEF NothingOverdue, Range
<1>5. QED
  BY <1>1, <1>2, <1>3, <1>4 DEF Inv

\* What may be submitted, and the ticks, are of their types.
LEMMA Inputs ==
  /\ \A o \in Requests : o \in OrderRecord /\ ~IsOpened(o) /\ ~IsClosed(o)
  /\ \A bid \in Prices : Tick(bid, bid + Spread) \in Ticks
BY PricesAssumption
   DEF Requests, NewOrder, OrderRecord, Undefined, IsOpened, IsClosed, Tick, Ticks

LEMMA NextInv == Inv /\ [Next]_vars => Inv'
<1> SUFFICES ASSUME Inv, [Next]_vars PROVE Inv'
  OBVIOUS
<1>1. ASSUME NEW id \in OrderId, NEW o \in Requests, submit_order(id, o)
      PROVE  Inv'
  BY <1>1, Inputs, SubmitInv
<1>2. ASSUME NEW bid \in Prices, on_tick(Tick(bid, bid + Spread)) PROVE Inv'
  BY <1>2, Inputs, TickInv
<1>3. CASE UNCHANGED vars
  BY <1>3 DEF vars, Inv, Submitted, Book, NothingOverdue
<1>4. QED
  BY <1>1, <1>2, <1>3 DEF Next

THEOREM Invariance == Spec => []Inv
BY InitInv, NextInv, PTL DEF Spec

LEMMA InvTypeOK == Inv => TypeOK
<1> SUFFICES ASSUME Inv PROVE TypeOK
  OBVIOUS
<1> DEFINE D == Submitted
<1>1. /\ orders \in [D -> OrderRecord] /\ pending_orders_ \in Seq(D)
      /\ opened_orders_ \in Seq(D) /\ closed_orders_ \in Seq(D)
      /\ order_events \in Seq(Actions \X D) /\ new_orders_ \in Seq(D)
  BY DEF Inv, Books, Book
<1>2. /\ IsInjective(opened_orders_) /\ IsInjective(closed_orders_)
      /\ \A id \in D : /\ IsValid(orders[id])
                       /\ id \in Range(opened_orders_) <=> CanClose(orders[id])
                       /\ id \in Range(closed_orders_) <=> IsClosed(orders[id])
  BY DEF Inv, Placed, Book, Submitted
<1>3. Range(opened_orders_) \cap Range(closed_orders_) = {}
  <2>1. \A id \in Range(opened_orders_) : id \in D
    BY <1>1, LenProperties, ElementOfSeq DEF Range
  <2>2. QED
    BY <1>2, <2>1 DEF CanClose
<1>4. \A i \in DOMAIN order_events : order_events[i] \in Actions \X D
  <2> DEFINE S == Actions \X D
  <2>1. order_events \in Seq(S)
    BY <1>1
  <2> HIDE DEF S
  <2>2. \A i \in DOMAIN order_events : order_events[i] \in S
    BY <2>1, LenProperties, ElementOfSeq
  <2>3. QED
    BY <2>2 DEF S
<1>5. IsInjective(opened_orders_ \o closed_orders_)
  BY <1>1, <1>2, <1>3, InjectiveConcat
<1>6. QED
  BY <1>1, <1>2, <1>4, <1>5 DEF TypeOK, Inv, Actions

\* Every order in a list was submitted and is valid, and none is in the open and the
\* closed list at once, nor twice in either.
THEOREM TypeCorrect == Spec => []TypeOK
BY Invariance, InvTypeOK, PTL

\* A tick leaves nothing overdue, whatever was submitted and in whichever order.
THEOREM NeverOverdue == Spec => []NothingOverdue
<1>1. Inv => NothingOverdue
  BY DEF Inv
<1>2. QED
  BY <1>1, Invariance, PTL

\* Submitted, opened, closed: an order's life is announced in order, and once each.
THEOREM AlwaysInOrder == Spec => []AnnouncedInOrder
<1>1. ASSUME Inv PROVE AnnouncedInOrder
  <2>1. ASSUME NEW id \in Submitted PROVE Told(order_events, id, orders[id])
    BY <1>1 DEF Inv, Announced, Book, Submitted
  <2>2. QED
    BY <2>1 DEF AnnouncedInOrder, Told, At
<1>2. QED
  BY <1>1, Invariance, PTL

------------------------------------------------------------------------------
(* The refinement of OrderBook                                             *)

LEMMA InitBook == Init => Account!Init
<1> SUFFICES ASSUME Init PROVE Account!Init
  OBVIOUS
<1>1. Range(opened_orders_) = {} /\ Range(closed_orders_) = {} /\ Submitted = {}
  BY DEF Init, Range, Submitted
<1>2. QED
  BY <1>1 DEF Init, Account!Init, Account!NoQuote, Account!NoDeal, NotDealt, Tick

\* A submission changes nothing of the account.
LEMMA SubmitBook ==
  ASSUME Inv, NEW id \in OrderId, NEW o, ~IsOpened(o), submit_order(id, o)
  PROVE  UNCHANGED Account!bookvars
<1>1. /\ UNCHANGED <<opened_orders_, closed_orders_, latest_tick_>>
      /\ Submitted' = Submitted \cup {id} /\ id \notin Submitted
      /\ orders'[id] = o /\ \A i \in Submitted : orders'[i] = orders[i]
  BY DEF submit_order, Submitted
<1>2. \A i \in OrderId :
        (IF i \in Submitted' /\ IsOpened(orders'[i]) THEN Deal(orders'[i]) ELSE NotDealt)
          = (IF i \in Submitted /\ IsOpened(orders[i]) THEN Deal(orders[i]) ELSE NotDealt)
  BY <1>1
<1>3. QED
  BY <1>1, <1>2 DEF Account!bookvars

\* A tick opens and closes orders as the account allows, each for itself.
LEMMA TickTrades ==
  ASSUME Inv, NEW bid \in Prices, on_tick(Tick(bid, bid + Spread))
  PROVE  Account!Next
<1> DEFINE t == Tick(bid, bid + Spread)
           dealt(o) == IF o \in Submitted /\ IsOpened(orders[o])
                         THEN Deal(orders[o]) ELSE NotDealt
<1>1. t \in Ticks /\ t \in {Tick(b, b + Spread) : b \in Prices}
  BY Inputs
<1>2. /\ Submitted' = Submitted /\ latest_tick_' = t
      /\ Book' \in Books(Submitted) /\ Placed(Book')
      /\ \A id \in Submitted : Handled(orders[id], orders'[id], t)
  BY <1>1, TickBook DEF on_tick
<1> HIDE DEF t
<1>3. /\ orders \in [Submitted -> OrderRecord] /\ orders' \in [Submitted -> OrderRecord]
      /\ opened_orders_ \in Seq(Submitted) /\ closed_orders_ \in Seq(Submitted)
      /\ opened_orders_' \in Seq(Submitted) /\ closed_orders_' \in Seq(Submitted)
      /\ Submitted \subseteq OrderId
  BY <1>2 DEF Inv, Books, Book
<1>4. /\ Range(opened_orders_) \subseteq Submitted /\ Range(closed_orders_) \subseteq Submitted
      /\ Range(opened_orders_') \subseteq Submitted /\ Range(closed_orders_') \subseteq Submitted
  BY <1>3, LenProperties, ElementOfSeq DEF Range
<1>5. ASSUME NEW id \in Submitted
      PROVE  /\ id \in Range(opened_orders_) <=> CanClose(orders[id])
             /\ id \in Range(closed_orders_) <=> IsClosed(orders[id])
             /\ IsClosed(orders[id]) => IsOpened(orders[id])
             /\ id \in Range(opened_orders_') <=> CanClose(orders'[id])
             /\ id \in Range(closed_orders_') <=> IsClosed(orders'[id])
             /\ IsClosed(orders'[id]) => IsOpened(orders'[id])
  BY <1>2, <1>3 DEF Inv, Placed, Book, Submitted
<1>6. ASSUME NEW id \in OrderId
      PROVE  \/ Account!Untouched(id) \/ Account!Opens(id, t) \/ Account!Closes(id, t)
             \/ Account!OpensAndCloses(id, t)
  <2>1. CASE id \notin Submitted
    BY <1>2, <1>4, <2>1 DEF Account!Untouched
  <2>2. CASE id \in Submitted
    <3> DEFINE o == orders[id]
               p == orders'[id]
    <3>1. o \in OrderRecord /\ p \in OrderRecord /\ Handled(o, p, t)
      BY <1>2, <1>3, <2>2
    <3>2. CASE p = o
      BY <1>2, <1>5, <2>2, <3>2 DEF Account!Untouched
    <3>3. CASE CheckOpen(o, t) /\ p = Open(o, t)
      <4>1. ~IsOpened(o) /\ ~IsClosed(o)
        BY <1>5, <2>2, <3>3 DEF CheckOpen
      <4>2. /\ p.side = o.side /\ p.open_price = OpenSide(o, t) /\ p.close_price = Undefined
            /\ o.side \in Sides /\ OpenSide(o, t) # Undefined
        BY <1>1, <3>1, <3>3, <4>1
           DEF Open, OpenSide, OrderRecord, Ticks, IsClosed, Undefined
      <4>3. IsOpened(p) /\ ~IsClosed(p)
        BY <4>2 DEF IsOpened, IsClosed
      <4>4. Account!Opening(o.side, t) = OpenSide(o, t)
        BY DEF Account!Opening, OpenSide
      <4>5. dealt(id)' = [side |-> o.side, open |-> Account!Opening(o.side, t),
                          close |-> Undefined]
        BY <1>2, <2>2, <4>2, <4>3, <4>4 DEF Deal
      <4>6. QED
        BY <1>3, <1>5, <2>2, <4>1, <4>2, <4>3, <4>5 DEF Account!Opens, CanClose, Sides
    <3>4. CASE CanClose(o) /\ p = Close(o, t)
      <4>1. Account!Closes(id, t)
        BY <1>1, <1>2, <1>5, <2>2, <3>1, <3>4
           DEF Account!Closes, Account!Closing, Close, CloseSide, OrderRecord, Ticks, IsOpened,
               IsClosed, CanClose, Deal, Undefined, Sides
      <4>2. QED
        BY <4>1
    <3>5. CASE CheckOpen(o, t) /\ p = Close(Open(o, t), t)
      <4>1. ~IsOpened(o) /\ ~IsClosed(o)
        BY <1>5, <2>2, <3>5 DEF CheckOpen
      <4>2. /\ p.side = o.side /\ p.open_price = OpenSide(o, t)
            /\ p.close_price = CloseSide(o, t) /\ o.side \in Sides
            /\ OpenSide(o, t) # Undefined /\ CloseSide(o, t) # Undefined
        BY <1>1, <3>1, <3>5
           DEF Open, OpenSide, Close, CloseSide, OrderRecord, Ticks, Undefined
      <4>3. IsOpened(p) /\ IsClosed(p)
        BY <4>2 DEF IsOpened, IsClosed
      <4>4. /\ Account!Opening(o.side, t) = OpenSide(o, t)
            /\ Account!Closing(o.side, t) = CloseSide(o, t)
        BY DEF Account!Opening, Account!Closing, OpenSide, CloseSide
      <4>5. dealt(id)' = [side |-> o.side, open |-> Account!Opening(o.side, t),
                          close |-> Account!Closing(o.side, t)]
        BY <1>2, <2>2, <4>2, <4>3, <4>4 DEF Deal
      <4>6. QED
        BY <1>3, <1>5, <2>2, <4>1, <4>2, <4>3, <4>5 DEF Account!OpensAndCloses, CanClose, Sides
    <3>6. QED
      BY <3>1, <3>2, <3>3, <3>4, <3>5 DEF Handled
  <2>3. QED
    BY <2>1, <2>2
<1>7. Account!Trade(t)
  BY <1>2, <1>3, <1>4, <1>6 DEF Account!Trade
<1>8. QED
  BY <1>1, <1>7 DEF Account!Next

LEMMA StepBook == Inv /\ [Next]_vars => [Account!Next]_(Account!bookvars)
<1> SUFFICES ASSUME Inv, [Next]_vars PROVE [Account!Next]_(Account!bookvars)
  OBVIOUS
<1>1. ASSUME NEW id \in OrderId, NEW o \in Requests, submit_order(id, o)
      PROVE  UNCHANGED Account!bookvars
  BY <1>1, Inputs, SubmitBook
<1>2. ASSUME NEW bid \in Prices, on_tick(Tick(bid, bid + Spread)) PROVE Account!Next
  BY <1>2, TickTrades
<1>3. CASE UNCHANGED vars
  BY <1>3 DEF vars, Account!bookvars, Submitted
<1>4. QED
  BY <1>1, <1>2, <1>3 DEF Next

\* The lists of the engine keep the account OrderBook describes.
THEOREM KeepsBook == Spec => ImplementsBook
<1>1. Spec => Account!Init /\ [][Account!Next]_(Account!bookvars)
  BY InitBook, StepBook, Invariance, PTL DEF Spec
<1>2. QED
  BY <1>1 DEF ImplementsBook, Account!Spec

\* An order is in one list, and what was paid for it says in which.
LEMMA InvConsistent == Inv => Account!Consistent
<1> SUFFICES ASSUME Inv PROVE Account!Consistent
  OBVIOUS
<1>1. /\ orders \in [Submitted -> OrderRecord] /\ Submitted \subseteq OrderId
      /\ opened_orders_ \in Seq(Submitted) /\ closed_orders_ \in Seq(Submitted)
  BY DEF Inv, Books, Book
<1>2. Range(opened_orders_) \subseteq Submitted /\ Range(closed_orders_) \subseteq Submitted
  BY <1>1, LenProperties, ElementOfSeq DEF Range
<1>3. ASSUME NEW id \in Submitted
      PROVE  /\ id \in Range(opened_orders_) <=> CanClose(orders[id])
             /\ id \in Range(closed_orders_) <=> IsClosed(orders[id])
             /\ IsClosed(orders[id]) => IsOpened(orders[id])
  BY <1>1 DEF Inv, Placed, Book, Submitted
<1>4. Range(opened_orders_) \cap Range(closed_orders_) = {}
  BY <1>2, <1>3 DEF CanClose
<1>5. ASSUME NEW o \in OrderId
      PROVE  LET d == IF o \in Submitted /\ IsOpened(orders[o]) THEN Deal(orders[o]) ELSE NotDealt
             IN /\ o \in Range(opened_orders_) \cup Range(closed_orders_) <=> d.open # Undefined
                /\ o \in Range(closed_orders_) <=> d.close # Undefined
  <2>1. CASE o \in Submitted /\ IsOpened(orders[o])
    BY <1>3, <2>1 DEF Deal, CanClose, IsOpened, IsClosed
  <2>2. CASE ~(o \in Submitted /\ IsOpened(orders[o]))
    BY <1>2, <1>3, <2>2 DEF NotDealt, CanClose
  <2>3. QED
    BY <2>1, <2>2
<1>6. QED
  BY <1>1, <1>2, <1>4, <1>5 DEF Account!Consistent

\* No order of the engine is in two lists or lost once it is dealt.
THEOREM OnePlace == Spec => []Account!Consistent
BY Invariance, InvConsistent, PTL

\* What was paid for an order of the engine never changes.
THEOREM PricesStay == Spec => Account!PaidOnce
<1> DEFINE deals == [id \in OrderId |-> IF id \in Submitted /\ IsOpened(orders[id])
                                          THEN Deal(orders[id]) ELSE NotDealt]
           Kept(o) == /\ deals[o].open # Undefined => deals'[o].open = deals[o].open
                      /\ deals[o].close # Undefined => deals'[o].close = deals[o].close
<1>1. Inv /\ [Next]_vars => [\A o \in OrderId : Kept(o)]_(Account!bookvars)
  <2> SUFFICES ASSUME Inv, [Next]_vars, ~UNCHANGED Account!bookvars, NEW o \in OrderId
               PROVE  Kept(o)
    OBVIOUS
  <2>1. Account!Next /\ Account!Consistent
    BY StepBook, InvConsistent
  <2>2. PICK q : Account!Trade(q)
    BY <2>1 DEF Account!Next
  <2>3. \/ Account!Untouched(o) \/ Account!Opens(o, q)
        \/ Account!Closes(o, q) \/ Account!OpensAndCloses(o, q)
    BY <2>2 DEF Account!Trade
  <2>4. /\ o \in Range(opened_orders_) \cup Range(closed_orders_) <=> deals[o].open # Undefined
        /\ o \in Range(closed_orders_) <=> deals[o].close # Undefined
        /\ ~(o \in Range(opened_orders_) /\ o \in Range(closed_orders_))
    BY <2>1 DEF Account!Consistent
  <2>5. deals[o] = [side |-> deals[o].side, open |-> deals[o].open, close |-> deals[o].close]
    BY DEF Deal, NotDealt
  <2>6. PICK d : d = deals
    OBVIOUS
  <2>7. PICK e : e = deals'
    OBVIOUS
  <2>8. PICK h : h = Range(opened_orders_)
    OBVIOUS
  <2>9. PICK c : c = Range(closed_orders_)
    OBVIOUS
  <2> HIDE DEF deals
  <2>10. \/ e[o] = d[o]
         \/ o \notin h \cup c
         \/ o \in h /\ \E x : e[o] = [d[o] EXCEPT !.close = x]
    BY <2>3, <2>6, <2>7, <2>8, <2>9
       DEF deals, Account!Untouched, Account!Opens, Account!Closes, Account!OpensAndCloses
  <2>11. /\ o \in h \cup c <=> d[o].open # Undefined
         /\ o \in c <=> d[o].close # Undefined
         /\ ~(o \in h /\ o \in c)
         /\ d[o] = [side |-> d[o].side, open |-> d[o].open, close |-> d[o].close]
    BY <2>4, <2>5, <2>6, <2>8, <2>9
  <2>12. /\ d[o].open # Undefined => e[o].open = d[o].open
         /\ d[o].close # Undefined => e[o].close = d[o].close
    BY <2>10, <2>11
  <2>13. QED
    BY <2>6, <2>7, <2>12
<1>2. QED
  BY <1>1, Invariance, PTL DEF Spec, Account!PaidOnce
===============================================================================
