----------------------------- MODULE LadderProofs ------------------------------
(***************************************************************************)
(* Theorems about LadderStrategy for any prices and parameters and any     *)
(* number of ticks.  The tick handler is a chain of operators on a book;   *)
(* each of them is shown to keep a book whole.                             *)
(***************************************************************************)
EXTENDS LadderStrategy, SequenceLemmas, FiniteSetTheorems

Quotes == {Tick(mid - HalfSpread, mid + HalfSpread) : mid \in Mids}
Order  == [side : Sides, kind : Kinds, order_price : Int, stop_loss : Int,
           take_profit : Int, open_price : Int, close_price : Int]
Position == [id : Nat, order : Order, level : Int, bucket : Int]

IsBook(b) ==
  /\ b = [opened |-> b.opened, closed |-> b.closed, cycle |-> b.cycle,
          last_id |-> b.last_id, events |-> b.events, banked |-> b.banked]
  /\ b.opened \in Seq(Position) /\ b.closed \in Seq(Position)
  /\ b.cycle \in Int /\ b.last_id \in Nat /\ b.banked \in 0..Len(b.closed)

All(b) == Range(b.opened) \cup Range(b.closed)

\* Ids are unique, and an order is in the list that its prices say.
Placed(b) ==
  /\ IsInjective(b.opened) /\ IsInjective(b.closed)
  /\ \A p \in Range(b.opened) : CanClose(p.order)
  /\ \A p \in Range(b.closed) : IsClosed(p.order)
  /\ \A p, q \in All(b) : p.id = q.id => p = q
  /\ \A p \in All(b) : p.id <= b.last_id

\* cycle_profit_ is what the cycle gained
Accounted(b) == b.cycle = Gained(b.closed, b.banked + 1, Len(b.closed))

Whole(b) == IsBook(b) /\ Placed(b) /\ Accounted(b)

------------------------------------------------------------------------------
(* Ticks, orders and prices                                                *)

LEMMA Quote ==
  ASSUME NEW t \in Quotes
  PROVE  /\ t.bid \in Nat \ {0} /\ t.ask \in Nat \ {0} /\ Mid(t) \in Mids
         /\ t \in [bid : Nat, ask : Nat]
<1>1. PICK mid \in Mids : t = Tick(mid - HalfSpread, mid + HalfSpread)
  BY DEF Quotes
<1>2. mid \in Nat /\ HalfSpread \in Nat /\ mid > HalfSpread
  BY ParamsAssumption
<1>3. t.bid = mid - HalfSpread /\ t.ask = mid + HalfSpread /\ t = [bid |-> t.bid, ask |-> t.ask]
  BY <1>1 DEF Tick
<1>4. QED
  BY <1>2, <1>3 DEF Mid

LEMMA Levels ==
  ASSUME NEW mid \in Mids
  PROVE  NearestLevel(mid) \in Int /\ Bucket(mid) \in Int
<1>1. mid \in Nat /\ Step \in Nat \ {0}
  BY ParamsAssumption
<1>2. \A n \in Int : n % Step \in Int
  BY <1>1
<1>3. NearestLevel(mid) \in Int
  BY <1>1, <1>2 DEF NearestLevel
<1>4. QED
  BY <1>3 DEF Bucket

\* A position that is closed.
Closed(p, t) == [p EXCEPT !.order = Close(@, t)]

LEMMA ClosedPosition ==
  ASSUME NEW t \in Quotes, NEW p \in Position, CanClose(p.order)
  PROVE  /\ Closed(p, t) \in Position /\ Closed(p, t).id = p.id
         /\ Closed(p, t).order.side = p.order.side
         /\ IsClosed(Closed(p, t).order)
         /\ Profit(Closed(p, t).order) = ProfitAt(p.order, t)
         /\ ProfitAt(p.order, t) \in Int
<1>1. t.bid \in Nat \ {0} /\ t.ask \in Nat \ {0}
  BY Quote
<1>2. PICK o \in Order : o = p.order
  BY DEF Position
<1>3. PICK price \in Nat \ {0} : price = CloseSide(o, t)
  BY <1>1 DEF CloseSide
<1>4. PICK c : c = [o EXCEPT !.close_price = price]
  OBVIOUS
<1>5. /\ c \in Order /\ c.close_price = price /\ c.side = o.side /\ c.open_price = o.open_price
      /\ c = Close(o, t)
  BY <1>3, <1>4 DEF Order, Close
<1>6. Closed(p, t) = [p EXCEPT !.order = c]
  BY <1>2, <1>5 DEF Closed
<1>7. PICK q : q = [p EXCEPT !.order = c]
  OBVIOUS
<1>8. q \in Position /\ q.id = p.id /\ q.order = c /\ q = Closed(p, t)
  BY <1>5, <1>6, <1>7 DEF Position
<1>9. IsClosed(c)
  BY <1>5 DEF IsClosed, Undefined
<1>10. Profit(c) = ProfitAt(o, t)
  BY <1>3, <1>5, <1>9 DEF Profit, ProfitAt, CloseSide
<1>11. ProfitAt(o, t) \in Int
  BY <1>1 DEF ProfitAt, Order
<1>12. QED
  BY <1>2, <1>5, <1>8, <1>9, <1>10, <1>11

------------------------------------------------------------------------------
(* What closed orders have gained                                          *)

LEMMA ProfitIsInt == \A p \in Position : Profit(p.order) \in Int
<1>1. ASSUME NEW o \in Order PROVE Profit(o) \in Int
  BY DEF Order, Profit, Undefined
<1>2. QED
  BY <1>1 DEF Position

\* the profits of the positions of a list
Profits(list) == [i \in DOMAIN list |-> Profit(list[i].order)]

LEMMA ProfitsList ==
  ASSUME NEW s \in Seq(Position)
  PROVE  Profits(s) \in Seq(Int) /\ Len(Profits(s)) = Len(s)
<1>1. Len(s) \in Nat /\ DOMAIN s = 1..Len(s) /\ \A i \in 1..Len(s) : s[i] \in Position
  BY LenProperties, ElementOfSeq
<1>2. PICK N \in Nat : N = Len(s)
  BY <1>1
<1>3. PICK f : f = Profits(s)
  OBVIOUS
<1>4. f = [i \in 1..N |-> Profit(s[i].order)]
  BY <1>1, <1>2, <1>3 DEF Profits
<1>5. f \in [1..N -> Int]
  BY <1>1, <1>2, <1>4, ProfitIsInt
<1>6. f \in Seq(Int)
  BY <1>2, <1>5, SeqDef
<1>7. DOMAIN f = 1..N
  BY <1>5
<1>8. Len(f) = N
  BY <1>2, <1>6, <1>7, LenProperties
<1>9. QED
  BY <1>2, <1>3, <1>6, <1>8

\* the profits of positions m to n
Slice(list, m, n) == [i \in 1..(n - m + 1) |-> Profit(list[m + i - 1].order)]

LEMMA SliceList ==
  ASSUME NEW s \in Seq(Position), NEW m \in Nat \ {0}, NEW n \in Nat, m <= n + 1, n <= Len(s)
  PROVE  /\ Slice(s, m, n) \in Seq(Int) /\ Len(Slice(s, m, n)) = n - m + 1
         /\ Gained(s, m, n) = Total(Slice(s, m, n)) /\ Gained(s, m, n) \in Int
<1>1. Len(s) \in Nat /\ \A i \in 1..Len(s) : s[i] \in Position
  BY LenProperties, ElementOfSeq
<1>2. PICK N \in Nat : N = n - m + 1
  OBVIOUS
<1>3. PICK f : f = Slice(s, m, n)
  OBVIOUS
<1>4. f = [i \in 1..N |-> Profit(s[m + i - 1].order)]
  BY <1>2, <1>3 DEF Slice
<1>5. \A i \in 1..N : m + i - 1 \in 1..Len(s)
  BY <1>1, <1>2
<1>6. f \in [1..N -> Int]
  BY <1>1, <1>4, <1>5, ProfitIsInt
<1>7. f \in Seq(Int)
  BY <1>6, SeqDef
<1>8. DOMAIN f = 1..N
  BY <1>6
<1>9. Len(f) = N
  BY <1>7, <1>8, LenProperties
<1>10. Gained(s, m, n) = Total(f)
  BY <1>3 DEF Gained, Slice
<1>11. QED
  BY <1>2, <1>3, <1>7, <1>9, <1>10, TotalProperties

\* What the first orders of a list gained does not depend on those that follow.
LEMMA GainedPrefix ==
  ASSUME NEW s \in Seq(Position), NEW u \in Seq(Position),
         NEW m \in Nat \ {0}, NEW n \in Nat, n <= Len(s)
  PROVE  Gained(s \o u, m, n) = Gained(s, m, n)
<1>1. /\ Len(s) \in Nat
      /\ \A i \in 1..Len(s) : (s \o u)[i] = s[i]
  BY ConcatParts
<1>2. \A i \in 1..(n - m + 1) : m + i - 1 \in 1..Len(s)
  BY <1>1
<1>3. [i \in 1..(n - m + 1) |-> Profit((s \o u)[m + i - 1].order)]
        = [i \in 1..(n - m + 1) |-> Profit(s[m + i - 1].order)]
  BY <1>1, <1>2
<1>4. QED
  BY <1>3 DEF Gained

\* The orders that follow add what they gained.
LEMMA GainedConcat ==
  ASSUME NEW s \in Seq(Position), NEW u \in Seq(Position), NEW m \in 1..(Len(s) + 1)
  PROVE  Gained(s \o u, m, Len(s \o u)) = Gained(s, m, Len(s)) + Total(Profits(u))
<1>1. PICK M \in Nat : M = Len(s)
  BY LenProperties
<1>2. PICK N \in Nat : N = Len(u)
  BY LenProperties
<1>3. /\ m \in Nat \ {0} /\ m <= M + 1
      /\ s \o u \in Seq(Position) /\ Len(s \o u) = M + N
      /\ \A i \in 1..M : (s \o u)[i] = s[i]
      /\ \A j \in 1..N : (s \o u)[M + j] = u[j]
      /\ DOMAIN u = 1..N
  BY <1>1, <1>2, ConcatParts
<1>4. PICK K \in Nat : K = M - m + 1
  BY <1>3
<1>5. PICK f \in Seq(Int) :
        f = Slice(s, m, M) /\ Len(f) = M - m + 1 /\ Gained(s, m, M) = Total(f)
  <2>1. m <= M + 1 /\ M <= Len(s)
    BY <1>1, <1>3
  <2>2. /\ Slice(s, m, M) \in Seq(Int) /\ Len(Slice(s, m, M)) = M - m + 1
        /\ Gained(s, m, M) = Total(Slice(s, m, M))
    BY <1>3, <2>1, SliceList
  <2>3. QED
    BY <2>2
<1>6. PICK k \in Seq(Int) : k = Profits(u)
  BY ProfitsList
<1>7. Len(f) = K /\ Gained(s, m, M) = Total(f)
  BY <1>4, <1>5
<1>8. Len(k) = N
  BY <1>2, <1>6, ProfitsList
<1>9. PICK w \in Seq(Position) : w = s \o u
  BY <1>3
<1>10. PICK g \in Seq(Int) :
         g = Slice(w, m, M + N) /\ Len(g) = (M + N) - m + 1 /\ Gained(w, m, M + N) = Total(g)
  <2>1. m <= (M + N) + 1 /\ M + N <= Len(w)
    BY <1>3, <1>9
  <2>2. M + N \in Nat
    OBVIOUS
  <2>3. /\ Slice(w, m, M + N) \in Seq(Int) /\ Len(Slice(w, m, M + N)) = (M + N) - m + 1
        /\ Gained(w, m, M + N) = Total(Slice(w, m, M + N))
    BY <1>3, <2>1, <2>2, SliceList
  <2>4. QED
    BY <2>3
<1>11. Len(g) = K + N /\ Gained(w, m, M + N) = Total(g)
  BY <1>4, <1>10
<1>12. g = f \o k
  <2>1. PICK h \in Seq(Int) : h = f \o k
    BY ConcatProperties
  <2>2. /\ Len(h) = K + N
        /\ \A i \in 1..K : h[i] = f[i]
        /\ \A j \in 1..N : h[K + j] = k[j]
    <3>1. /\ Len(f \o k) = Len(f) + Len(k)
          /\ \A i \in 1..Len(f) : (f \o k)[i] = f[i]
          /\ \A j \in 1..Len(k) : (f \o k)[Len(f) + j] = k[j]
      BY ConcatParts
    <3>2. QED
      BY <1>7, <1>8, <2>1, <3>1
  <2>3. \A i \in 1..(K + N) : g[i] = Profit(w[m + i - 1].order)
    <3>1. 1..(K + N) = 1..((M + N) - m + 1)
      BY <1>4
    <3>2. QED
      BY <1>10, <3>1 DEF Slice
  <2>4. ASSUME NEW i \in 1..(K + N) PROVE g[i] = h[i]
    <3>1. CASE i <= K
      <4>1. /\ i \in 1..K /\ i \in 1..(M - m + 1) /\ m + i - 1 \in 1..M
        BY <1>3, <1>4, <3>1
      <4>2. f[i] = Profit(s[m + i - 1].order)
        BY <1>5, <4>1 DEF Slice
      <4>3. QED
        BY <1>3, <1>9, <2>2, <2>3, <4>1, <4>2
    <3>2. CASE i > K
      <4>1. PICK j \in 1..N : i = K + j
        BY <3>2
      <4>2. m + i - 1 = M + j
        BY <1>3, <1>4, <4>1
      <4>3. k[j] = Profit(u[j].order)
        BY <1>3, <1>6 DEF Profits
      <4>4. w[m + i - 1] = u[j]
        BY <1>3, <1>9, <4>2
      <4>5. g[i] = Profit(w[m + i - 1].order) /\ h[i] = k[j]
        BY <2>2, <2>3, <4>1
      <4>6. QED
        BY <4>3, <4>4, <4>5
    <3>3. QED
      BY <1>4, <3>1, <3>2
  <2>5. Len(g) = Len(h) /\ \A i \in 1..Len(g) : g[i] = h[i]
    BY <1>11, <2>2, <2>4
  <2>6. QED
    BY <2>1, <2>5, SeqEqual
<1>13. QED
  BY <1>1, <1>3, <1>6, <1>7, <1>9, <1>11, <1>12, TotalConcat

\* Nothing was gained by no orders.
LEMMA GainedNone ==
  ASSUME NEW s \in Seq(Position)
  PROVE  Gained(s, Len(s) + 1, Len(s)) = 0
<1>1. PICK N \in Nat : N = Len(s)
  BY LenProperties
<1>2. Len(Slice(s, N + 1, N)) = 0 /\ Slice(s, N + 1, N) \in Seq(Int)
      /\ Gained(s, N + 1, N) = Total(Slice(s, N + 1, N))
  BY <1>1, SliceList
<1>3. Slice(s, N + 1, N) = <<>>
  BY <1>2, EmptySeq
<1>4. QED
  BY <1>1, <1>2, <1>3, TotalProperties

------------------------------------------------------------------------------
(* Sending an order                                                        *)

\* what an order that is sent does to a book: it is refused, or it is opened
Adds(b, d, side, t) ==
  /\ Whole(d) /\ d.closed = b.closed /\ d.banked = b.banked /\ d.last_id = b.last_id + 1
  /\ \/ d.opened = b.opened
     \/ \E p \in Position :
          /\ p.id = d.last_id /\ p.order.side = side
          /\ p.level = NearestLevel(Mid(t)) /\ p.bucket = Bucket(Mid(t))
          /\ d.opened = Append(b.opened, p)

LEMMA RangeOfPositions ==
  ASSUME NEW s \in Seq(Position)
  PROVE  Range(s) \subseteq Position
<1>1. DOMAIN s = 1..Len(s) /\ \A i \in 1..Len(s) : s[i] \in Position
  BY LenProperties, ElementOfSeq
<1>2. QED
  BY <1>1 DEF Range

LEMMA NewPosition ==
  ASSUME NEW t \in Quotes, NEW side \in Sides, NEW id \in Nat,
         NEW price \in Int, NEW sl \in Int, NEW tp \in Int
  PROVE  LET p == [id |-> id, order |-> Open(NewOrder(side, "market", price, sl, tp), t),
                   level |-> NearestLevel(Mid(t)), bucket |-> Bucket(Mid(t))]
         IN /\ p \in Position /\ p.id = id /\ p.order.side = side /\ CanClose(p.order)
            /\ p.level = NearestLevel(Mid(t)) /\ p.bucket = Bucket(Mid(t))
<1>1. t.bid \in Nat \ {0} /\ t.ask \in Nat \ {0} /\ Mid(t) \in Mids
  BY Quote
<1>2. PICK o : o = NewOrder(side, "market", price, sl, tp)
  OBVIOUS
<1>3. o \in Order /\ o.side = side /\ o.close_price = Undefined
  BY <1>2 DEF NewOrder, Order, Kinds, Undefined
<1>4. PICK paid \in Nat \ {0} : paid = OpenSide(o, t)
  BY <1>1 DEF OpenSide
<1>5. PICK q : q = [o EXCEPT !.open_price = paid]
  OBVIOUS
<1>6. /\ q \in Order /\ q.side = side /\ q.open_price = paid /\ q.close_price = Undefined
      /\ q = Open(o, t)
  BY <1>3, <1>4, <1>5 DEF Order, Open
<1>7. CanClose(q)
  BY <1>6 DEF CanClose, IsOpened, IsClosed, Undefined
<1>8. PICK level \in Int : level = NearestLevel(Mid(t))
  BY <1>1, Levels
<1>9. PICK bucket \in Int : bucket = Bucket(Mid(t))
  BY <1>1, Levels
<1>10. [id |-> id, order |-> q, level |-> level, bucket |-> bucket] \in Position
  BY <1>6 DEF Position
<1>11. QED
  BY <1>2, <1>6, <1>7, <1>8, <1>9, <1>10

LEMMA Sending ==
  ASSUME NEW b, Whole(b), NEW t \in Quotes, NEW side \in Sides
  PROVE  Adds(b, OrderSend(b, side, t), side, t)
<1>1. IsBook(b) /\ Placed(b) /\ Accounted(b)
  BY DEF Whole
<1>2. PICK price \in Int : price = OpenSide([side |-> side], t)
  BY Quote DEF OpenSide
<1>3. StopLoss \in Nat /\ TakeProfit \in Nat
  BY ParamsAssumption
<1>4. PICK sl \in Int, tp \in Int :
        IF side = "buy" THEN sl = price - StopLoss /\ tp = price + TakeProfit
                        ELSE sl = price + StopLoss /\ tp = price - TakeProfit
  <2>1. CASE side = "buy"
    <3>1. price - StopLoss \in Int /\ price + TakeProfit \in Int
      BY <1>3
    <3>2. QED
      BY <2>1, <3>1
  <2>2. CASE side # "buy"
    <3>1. price + StopLoss \in Int /\ price - TakeProfit \in Int
      BY <1>3
    <3>2. QED
      BY <2>2, <3>1
  <2>3. QED
    BY <2>1, <2>2
<1>5. PICK o : o = NewOrder(side, "market", price, sl, tp)
  OBVIOUS
<1>6. PICK id \in Nat : id = b.last_id + 1
  BY <1>1 DEF IsBook
<1>7. PICK p \in Position :
        /\ p = [id |-> id, order |-> Open(o, t),
                level |-> NearestLevel(Mid(t)), bucket |-> Bucket(Mid(t))]
        /\ p.id = id /\ p.order.side = side /\ CanClose(p.order)
        /\ p.level = NearestLevel(Mid(t)) /\ p.bucket = Bucket(Mid(t))
  <2>1. PICK r : r = [id |-> id, order |-> Open(o, t),
                      level |-> NearestLevel(Mid(t)), bucket |-> Bucket(Mid(t))]
    OBVIOUS
  <2>2. /\ r \in Position /\ r.id = id /\ r.order.side = side /\ CanClose(r.order)
        /\ r.level = NearestLevel(Mid(t)) /\ r.bucket = Bucket(Mid(t))
    BY <1>5, <2>1, NewPosition
  <2>3. QED
    BY <2>1, <2>2
<1>8. PICK refused : refused = [b EXCEPT !.last_id = id]
  OBVIOUS
<1>9. PICK sent : sent = [b EXCEPT !.last_id = id, !.opened = Append(b.opened, p),
                                   !.events = Append(b.events, <<"opened", p.id>>)]
  OBVIOUS
<1>10. OrderSend(b, side, t) = IF ~IsValid(o) THEN refused ELSE sent
  <2>1. o = IF side = "buy"
              THEN NewOrder(side, "market", price, price - StopLoss, price + TakeProfit)
              ELSE NewOrder(side, "market", price, price + StopLoss, price - TakeProfit)
    BY <1>4, <1>5
  <2>2. QED
    BY <1>2, <1>6, <1>7, <1>8, <1>9, <2>1 DEF OrderSend
<1>11. Adds(b, refused, side, t)
  <2>1. /\ refused.opened = b.opened /\ refused.closed = b.closed /\ refused.cycle = b.cycle
        /\ refused.banked = b.banked /\ refused.last_id = id /\ refused.events = b.events
        /\ refused = [opened |-> refused.opened, closed |-> refused.closed,
                      cycle |-> refused.cycle, last_id |-> refused.last_id,
                      events |-> refused.events, banked |-> refused.banked]
    BY <1>1, <1>8 DEF IsBook
  <2>2. IsBook(refused)
    BY <1>1, <2>1 DEF IsBook
  <2>3. b.last_id <= id /\ \A p1 \in All(b) : p1.id \in Nat
    <3>1. \A p1 \in All(b) : p1 \in Position
      BY <1>1, RangeOfPositions DEF IsBook, All
    <3>2. QED
      BY <1>1, <1>6, <3>1 DEF IsBook, Position
  <2>4. Placed(refused)
    BY <1>1, <1>6, <2>1, <2>3 DEF IsBook, Placed, All
  <2>5. Accounted(refused)
    BY <1>1, <2>1 DEF Accounted
  <2>6. QED
    BY <1>6, <2>1, <2>2, <2>4, <2>5 DEF Adds, Whole
<1>12. Adds(b, sent, side, t)
  <2>1. /\ sent.opened = Append(b.opened, p) /\ sent.closed = b.closed /\ sent.cycle = b.cycle
        /\ sent.banked = b.banked /\ sent.last_id = id
        /\ sent = [opened |-> sent.opened, closed |-> sent.closed,
                   cycle |-> sent.cycle, last_id |-> sent.last_id,
                   events |-> sent.events, banked |-> sent.banked]
    BY <1>1, <1>9 DEF IsBook
  <2>2. IsBook(sent)
    BY <1>1, <2>1, AppendProperties DEF IsBook
  <2>3. /\ b.last_id < id /\ \A p1 \in All(b) : p1.id \in Nat /\ p1.id <= b.last_id
    <3>1. \A p1 \in All(b) : p1 \in Position
      BY <1>1, RangeOfPositions DEF IsBook, All
    <3>2. QED
      BY <1>1, <1>6, <3>1 DEF IsBook, Position, Placed
  <2>4. Range(sent.opened) = Range(b.opened) \cup {p}
    BY <1>1, <2>1, RangeOfAppend DEF IsBook
  <2>5. \A p1 \in All(b) : p1.id < p.id
    BY <1>1, <1>6, <1>7, <2>3 DEF IsBook
  <2>6. IsInjective(sent.opened)
    <3>1. p \notin Range(b.opened)
      BY <1>7, <2>5 DEF All
    <3>2. QED
      BY <1>1, <2>1, <3>1, InjectiveAppend DEF IsBook, Placed
  <2>7. All(sent) = All(b) \cup {p}
    BY <2>1, <2>4 DEF All
  <2>8. \A x, y \in All(sent) : x.id = y.id => x = y
    BY <1>1, <1>7, <2>3, <2>5, <2>7 DEF Placed
  <2>9. \A x \in All(sent) : x.id <= sent.last_id
    <3>1. \A x \in All(b) : x.id <= id
      BY <1>1, <1>6, <2>3 DEF IsBook
    <3>2. QED
      BY <1>7, <2>1, <2>7, <3>1
  <2>10. Placed(sent)
    BY <1>1, <1>7, <2>1, <2>4, <2>6, <2>8, <2>9 DEF Placed
  <2>11. Accounted(sent)
    BY <1>1, <2>1 DEF Accounted
  <2>12. QED
    BY <1>6, <1>7, <2>1, <2>2, <2>10, <2>11 DEF Adds, Whole
<1>13. QED
  BY <1>10, <1>11, <1>12

------------------------------------------------------------------------------
(* Closing orders                                                          *)

\* The open list loses the orders of a list, which join the closed list in its order.
Retires(b, d, from, t) ==
  /\ from \in Seq(Position) /\ IsInjective(from) /\ Range(from) \subseteq Range(b.opened)
  /\ d.opened \in Seq(Position) /\ IsInjective(d.opened)
  /\ Range(d.opened) \subseteq Range(b.opened) \ Range(from)
  /\ d.closed = b.closed \o [i \in DOMAIN from |-> Closed(from[i], t)]
  /\ d.last_id = b.last_id

\* No order comes in, and none changes its side.
Shrinks(b, d) ==
  /\ Range(d.opened) \subseteq Range(b.opened) /\ d.last_id = b.last_id
  /\ \A p \in All(d) : \E q \in All(b) : q.id = p.id /\ q.order.side = p.order.side

Earned(from, t) == Total([i \in DOMAIN from |-> ProfitAt(from[i].order, t)])

\* What the first orders gained does not change when others are closed.
SameGains(b, d) ==
  \A m \in Nat \ {0}, n \in 0..Len(b.closed) : Gained(d.closed, m, n) = Gained(b.closed, m, n)

\* What they gained to the last one grows by x.
GainsBy(b, d, x) ==
  \A m \in 1..(Len(b.closed) + 1) :
    Gained(d.closed, m, Len(d.closed)) = Gained(b.closed, m, Len(b.closed)) + x

LEMMA Retiring ==
  ASSUME NEW b, Whole(b), NEW t \in Quotes, NEW d, NEW from, Retires(b, d, from, t)
  PROVE  /\ d.closed \in Seq(Position) /\ Len(d.closed) = Len(b.closed) + Len(from)
         /\ Placed(d) /\ Shrinks(b, d) /\ Earned(from, t) \in Int
         /\ GainsBy(b, d, Earned(from, t)) /\ SameGains(b, d)
<1>1. IsBook(b) /\ Placed(b) /\ Accounted(b)
  BY DEF Whole
<1>2. /\ from \in Seq(Position) /\ IsInjective(from) /\ Range(from) \subseteq Range(b.opened)
      /\ d.opened \in Seq(Position) /\ IsInjective(d.opened)
      /\ Range(d.opened) \subseteq Range(b.opened) \ Range(from)
      /\ d.last_id = b.last_id
  BY DEF Retires
<1>3. PICK N \in Nat : N = Len(from)
  BY <1>2, LenProperties
<1>4. PICK s \in Seq(Position) : s = b.closed
  BY <1>1 DEF IsBook
<1>5. PICK u : u = [i \in DOMAIN from |-> Closed(from[i], t)]
  OBVIOUS
<1>6. d.closed = s \o u
  BY <1>4, <1>5 DEF Retires
<1>7. DOMAIN from = 1..N /\ \A i \in 1..N : from[i] \in Range(b.opened) /\ from[i] \in Position
  <2>1. DOMAIN from = 1..N
    BY <1>2, <1>3, LenProperties
  <2>2. QED
    BY <1>2, <1>3, <2>1, ElementOfSeq DEF Range
<1>8. ASSUME NEW i \in 1..N
      PROVE  /\ u[i] \in Position /\ u[i].id = from[i].id
             /\ u[i].order.side = from[i].order.side /\ IsClosed(u[i].order)
             /\ Profit(u[i].order) = ProfitAt(from[i].order, t)
             /\ u[i] = Closed(from[i], t) /\ CanClose(from[i].order)
  <2>1. CanClose(from[i].order)
    BY <1>1, <1>7 DEF Placed
  <2>2. u[i] = Closed(from[i], t)
    BY <1>5, <1>7
  <2>3. QED
    BY <1>7, <2>1, <2>2, ClosedPosition
<1>9. u \in Seq(Position) /\ Len(u) = N /\ DOMAIN u = 1..N
  <2>1. u \in [1..N -> Position]
    BY <1>5, <1>7, <1>8
  <2>2. u \in Seq(Position)
    BY <2>1, SeqDef
  <2>3. QED
    BY <2>1, <2>2, LenProperties
<1>10. d.closed \in Seq(Position) /\ Len(d.closed) = Len(s) + N
  <2>1. s \o u \in Seq(Position) /\ Len(s \o u) = Len(s) + Len(u)
    BY <1>9, ConcatParts
  <2>2. QED
    BY <1>6, <1>9, <2>1
<1>11. Earned(from, t) = Total(Profits(u)) /\ Earned(from, t) \in Int
  <2>1. Profits(u) = [i \in 1..N |-> Profit(u[i].order)]
    BY <1>9 DEF Profits
  <2>2. [i \in 1..N |-> Profit(u[i].order)] = [i \in 1..N |-> ProfitAt(from[i].order, t)]
    BY <1>8
  <2>3. Earned(from, t) = Total(Profits(u))
    BY <1>7, <2>1, <2>2 DEF Earned
  <2>4. QED
    BY <1>9, <2>3, ProfitsList, TotalProperties
<1>12. GainsBy(b, d, Earned(from, t)) /\ SameGains(b, d)
  <2>1. ASSUME NEW m \in 1..(Len(s) + 1)
        PROVE  Gained(d.closed, m, Len(d.closed)) = Gained(s, m, Len(s)) + Earned(from, t)
    <3>1. Gained(s \o u, m, Len(s \o u)) = Gained(s, m, Len(s)) + Total(Profits(u))
      BY <1>9, GainedConcat
    <3>2. QED
      BY <1>6, <1>11, <3>1
  <2>2. ASSUME NEW m \in Nat \ {0}, NEW n \in 0..Len(s)
        PROVE  Gained(d.closed, m, n) = Gained(s, m, n)
    <3>1. n \in Nat /\ n <= Len(s)
      BY LenProperties
    <3>2. QED
      BY <1>6, <1>9, <3>1, GainedPrefix
  <2>3. QED
    BY <1>4, <2>1, <2>2 DEF GainsBy, SameGains
<1>13. \A i \in 1..N : from[i] \in All(b) /\ from[i] \notin Range(d.opened) /\ from[i] \notin Range(s)
  <2>1. ASSUME NEW i \in 1..N
        PROVE  from[i] \in All(b) /\ from[i] \notin Range(d.opened) /\ from[i] \notin Range(s)
    <3>1. from[i] \in Range(from)
      BY <1>7 DEF Range
    <3>2. ~IsClosed(from[i].order)
      BY <1>8 DEF CanClose
    <3>3. QED
      BY <1>1, <1>2, <1>4, <1>7, <3>1, <3>2 DEF Placed, All
  <2>2. QED
    BY <2>1
<1>14. Range(d.closed) = Range(s) \cup Range(u) /\ All(d) = Range(d.opened) \cup Range(s) \cup Range(u)
  <2>1. Range(d.closed) = Range(s) \cup Range(u)
    BY <1>6, <1>9, RangeOfConcat
  <2>2. QED
    BY <2>1 DEF All
<1>15. Range(d.opened) \subseteq All(b) /\ Range(s) \subseteq All(b)
  BY <1>2, <1>4 DEF All
<1>16. \A x \in Range(u) : \E i \in 1..N : x = u[i]
  BY <1>9 DEF Range
<1>17. \A x, y \in All(d) : x.id = y.id => x = y
  <2>1. ASSUME NEW i \in 1..N, NEW y \in Range(d.opened) \cup Range(s)
        PROVE  u[i].id # y.id
    <3>1. SUFFICES ASSUME u[i].id = y.id PROVE FALSE
      OBVIOUS
    <3>2. y = from[i]
      BY <1>1, <1>8, <1>13, <1>15, <3>1 DEF Placed
    <3>3. QED
      BY <1>13, <3>2
  <2>2. ASSUME NEW i \in 1..N, NEW j \in 1..N, u[i].id = u[j].id
        PROVE  u[i] = u[j]
    <3>1. from[i] = from[j]
      BY <1>1, <1>8, <1>13, <2>2 DEF Placed
    <3>2. QED
      BY <1>8, <3>1
  <2>3. \A x, y \in Range(d.opened) \cup Range(s) : x.id = y.id => x = y
    BY <1>1, <1>15 DEF Placed
  <2>4. QED
    BY <1>14, <1>16, <2>1, <2>2, <2>3
<1>18. \A p \in All(d) : \E q \in All(b) : q.id = p.id /\ q.order.side = p.order.side
  BY <1>8, <1>13, <1>14, <1>15, <1>16
<1>19. IsInjective(d.closed)
  <2>1. IsInjective(u)
    <3>1. \A i, j \in 1..N : u[i] = u[j] => i = j
      <4>1. ASSUME NEW i \in 1..N, NEW j \in 1..N, u[i] = u[j] PROVE i = j
        <5>1. from[i] = from[j]
          BY <1>1, <1>8, <1>13, <4>1 DEF Placed
        <5>2. QED
          BY <1>2, <1>7, <5>1 DEF IsInjective
      <4>2. QED
        BY <4>1
    <3>2. QED
      BY <1>9, <3>1 DEF IsInjective
  <2>2. Range(s) \cap Range(u) = {}
    <3>1. ASSUME NEW i \in 1..N, u[i] \in Range(s) PROVE FALSE
      <4>1. u[i] = from[i]
        BY <1>1, <1>8, <1>13, <1>15, <3>1 DEF Placed
      <4>2. QED
        BY <1>13, <3>1, <4>1
    <3>2. QED
      BY <1>16, <3>1
  <2>3. QED
    BY <1>1, <1>4, <1>6, <1>9, <2>1, <2>2, InjectiveConcat DEF Placed
<1>20. Placed(d)
  <2>1. \A p \in Range(d.opened) : CanClose(p.order)
    BY <1>1, <1>2 DEF Placed
  <2>2. \A p \in Range(d.closed) : IsClosed(p.order)
    BY <1>1, <1>4, <1>8, <1>14, <1>16 DEF Placed
  <2>3. \A p \in All(d) : p.id <= d.last_id
    <3>1. ASSUME NEW p \in All(d) PROVE p.id <= d.last_id
      <4>1. PICK q \in All(b) : q.id = p.id
        BY <1>18
      <4>2. QED
        BY <1>1, <1>2, <4>1 DEF Placed
    <3>2. QED
      BY <3>1
  <2>4. QED
    BY <1>2, <1>17, <1>19, <2>1, <2>2, <2>3 DEF Placed
<1>21. Shrinks(b, d)
  BY <1>2, <1>18 DEF Shrinks
<1>22. QED
  BY <1>3, <1>4, <1>10, <1>11, <1>12, <1>20, <1>21

\* The profit of an order that is closed is counted: the cycle stays accounted for.
LEMMA ClosingOne ==
  ASSUME NEW b, Whole(b), NEW t \in Quotes, NEW p \in Range(b.opened),
         NEW keep \in Seq(Position), IsInjective(keep),
         Range(keep) \subseteq Range(b.opened) \ {p},
         NEW d, d = CountProfit(CloseInto([b EXCEPT !.opened = keep], p, t))
  PROVE  /\ Whole(d) /\ Shrinks(b, d) /\ SameGains(b, d) /\ Len(b.closed) <= Len(d.closed)
         /\ d.opened = keep /\ d.banked = b.banked
<1>1. IsBook(b) /\ Placed(b) /\ Accounted(b)
  BY DEF Whole
<1>2. p \in Position /\ CanClose(p.order)
  BY <1>1, RangeOfPositions DEF IsBook, Placed
<1>3. PICK c : c = Closed(p, t)
  OBVIOUS
<1>4. c \in Position /\ Profit(c.order) = ProfitAt(p.order, t) /\ ProfitAt(p.order, t) \in Int
  BY <1>2, <1>3, ClosedPosition
<1>5. PICK N \in Nat : N = Len(b.closed)
  BY <1>1, LenProperties DEF IsBook
<1>6. PICK list \in Seq(Position) : list = Append(b.closed, c)
  BY <1>1, <1>4, AppendProperties DEF IsBook
<1>7. Len(list) = N + 1 /\ list[N + 1] = c
  BY <1>1, <1>4, <1>5, <1>6, AppendProperties DEF IsBook
<1>8. PICK b1 : b1 = [b EXCEPT !.opened = keep, !.closed = list,
                               !.events = Append(b.events, <<"closed", p.id>>)]
  OBVIOUS
<1>9. b1 = CloseInto([b EXCEPT !.opened = keep], p, t)
  BY <1>1, <1>3, <1>6, <1>8 DEF CloseInto, Closed, IsBook
<1>10. PICK cycle \in Int : cycle = b.cycle + ProfitAt(p.order, t)
  BY <1>1, <1>4 DEF IsBook
<1>11. /\ b1.closed = list /\ b1.cycle = b.cycle /\ b1.opened = keep /\ b1.last_id = b.last_id
       /\ b1.banked = b.banked
       /\ b1 = [opened |-> b1.opened, closed |-> b1.closed, cycle |-> b1.cycle,
                last_id |-> b1.last_id, events |-> b1.events, banked |-> b1.banked]
  BY <1>1, <1>8 DEF IsBook
<1>12. d = [b1 EXCEPT !.cycle = cycle]
  BY <1>4, <1>7, <1>9, <1>10, <1>11 DEF CountProfit
<1>13. /\ d.closed = list /\ d.cycle = cycle /\ d.opened = keep /\ d.last_id = b.last_id
       /\ d.banked = b.banked
       /\ d = [opened |-> d.opened, closed |-> d.closed, cycle |-> d.cycle,
               last_id |-> d.last_id, events |-> d.events, banked |-> d.banked]
  BY <1>11, <1>12
<1>14. PICK from \in Seq(Position) : from = <<p>>
  <2>1. <<>> \in Seq(Position)
    BY EmptySeq
  <2>2. Append(<<>>, p) \in Seq(Position) /\ Append(<<>>, p) = <<p>>
    BY <1>2, <2>1, AppendProperties
  <2>3. QED
    BY <2>2
<1>15. /\ Len(from) = 1 /\ DOMAIN from = {1} /\ from[1] = p /\ Range(from) = {p} /\ IsInjective(from)
  <2>1. Len(from) = 1 /\ DOMAIN from = {1} /\ from[1] = p
    BY <1>14
  <2>2. QED
    BY <2>1 DEF Range, IsInjective
<1>16. Retires(b, d, from, t)
  <2>1. [i \in DOMAIN from |-> Closed(from[i], t)] = <<c>>
    <3>1. <<c>> = [i \in {1} |-> c]
      OBVIOUS
    <3>2. QED
      BY <1>3, <1>15, <3>1
  <2>2. list = b.closed \o <<c>>
    BY <1>1, <1>4, <1>6, AppendIsConcat DEF IsBook
  <2>3. QED
    BY <1>13, <1>15, <2>1, <2>2 DEF Retires
<1>17. Earned(from, t) = ProfitAt(p.order, t)
  <2>1. PICK x \in Int : x = ProfitAt(p.order, t)
    BY <1>4
  <2>2. [i \in DOMAIN from |-> ProfitAt(from[i].order, t)] = <<x>>
    <3>1. <<x>> = [i \in {1} |-> x]
      OBVIOUS
    <3>2. QED
      BY <1>15, <2>1, <3>1
  <2>3. QED
    BY <2>1, <2>2, TotalProperties DEF Earned
<1>18. Placed(d) /\ Shrinks(b, d) /\ GainsBy(b, d, Earned(from, t)) /\ SameGains(b, d)
  BY <1>16, Retiring
<1>19. b.banked \in 0..N /\ b.banked + 1 \in 1..(Len(b.closed) + 1)
  BY <1>1, <1>5 DEF IsBook
<1>20. Accounted(d)
  BY <1>1, <1>10, <1>13, <1>17, <1>18, <1>19 DEF Accounted, GainsBy
<1>21. IsBook(d)
  BY <1>1, <1>5, <1>7, <1>13, <1>19 DEF IsBook
<1>22. QED
  BY <1>5, <1>7, <1>13, <1>18, <1>20, <1>21 DEF Whole

\* What every closing operation does to a book.
Follows(b, d) ==
  Whole(d) /\ Shrinks(b, d) /\ SameGains(b, d) /\ Len(b.closed) <= Len(d.closed)

LEMMA FollowsSelf ==
  ASSUME NEW b, Whole(b)
  PROVE  Follows(b, b)
<1>1. Len(b.closed) \in Nat
  BY LenProperties DEF Whole, IsBook
<1>2. QED
  BY <1>1 DEF Follows, Shrinks, SameGains

LEMMA FollowsOn ==
  ASSUME NEW b, NEW c, NEW d, Whole(b), Follows(b, c), Follows(c, d)
  PROVE  Follows(b, d)
<1>1. Len(b.closed) \in Nat /\ Len(c.closed) \in Nat /\ Len(d.closed) \in Nat
  BY LenProperties DEF Follows, Whole, IsBook
<1>2. Len(b.closed) <= Len(c.closed) /\ Len(c.closed) <= Len(d.closed)
  BY DEF Follows
<1>3. SameGains(b, d)
  <2>1. ASSUME NEW m \in Nat \ {0}, NEW n \in 0..Len(b.closed)
        PROVE  Gained(d.closed, m, n) = Gained(b.closed, m, n)
    <3>1. n \in 0..Len(c.closed)
      BY <1>1, <1>2
    <3>2. QED
      BY <3>1 DEF Follows, SameGains
  <2>2. QED
    BY <2>1 DEF SameGains
<1>4. Shrinks(b, d)
  BY DEF Follows, Shrinks
<1>5. QED
  BY <1>1, <1>2, <1>3, <1>4 DEF Follows

LEMMA ClosingFollows ==
  ASSUME NEW b, Whole(b), NEW t \in Quotes, NEW p \in Range(b.opened),
         NEW keep \in Seq(Position), IsInjective(keep),
         Range(keep) \subseteq Range(b.opened) \ {p},
         NEW d, d = CountProfit(CloseInto([b EXCEPT !.opened = keep], p, t))
  PROVE  Follows(b, d) /\ d.opened = keep /\ d.banked = b.banked
BY ClosingOne DEF Follows

LEMMA FilterOpened ==
  ASSUME NEW b, Whole(b), NEW S
  PROVE  /\ Filter(b.opened, S) \in Seq(Position) /\ IsInjective(Filter(b.opened, S))
         /\ Range(Filter(b.opened, S)) = Range(b.opened) \cap S
         /\ Filter(b.opened, S) # <<>> => Filter(b.opened, S)[1] \in Range(b.opened) \cap S
         /\ Filter(b.opened, S) = <<>> => Range(b.opened) \cap S = {}
<1>1. PICK s \in Seq(Position) : s = b.opened /\ IsInjective(s)
  BY DEF Whole, IsBook, Placed
<1>2. PICK f : f = Filter(s, S)
  OBVIOUS
<1>3. f \in Seq(Position) /\ IsInjective(f) /\ Range(f) = Range(s) \cap S
  BY <1>1, <1>2, FilterProperties
<1>4. f # <<>> => f[1] \in Range(f)
  <2>1. Len(f) \in Nat /\ DOMAIN f = 1..Len(f) /\ (f # <<>> => Len(f) # 0)
    BY <1>3, LenProperties, EmptySeq
  <2>2. QED
    BY <2>1 DEF Range
<1>5. f = <<>> => Range(f) = {}
  BY DEF Range
<1>6. QED
  BY <1>1, <1>2, <1>3, <1>4, <1>5

\* After check_orders_closing no open order is due.
LEMMA Checking ==
  ASSUME NEW b, Whole(b), NEW t \in Quotes, NEW d, d = CheckOrdersClosing(b, t)
  PROVE  /\ Follows(b, d) /\ d.banked = b.banked
         /\ \A p \in Range(d.opened) : ~CheckClose(p.order, t)
<1>1. PICK D : D = DueToClose(b, t)
  OBVIOUS
<1>2. \A p \in Range(b.opened) : p \in D <=> CheckClose(p.order, t)
  BY <1>1 DEF DueToClose
<1>3. PICK out : out = Filter(b.opened, D)
  OBVIOUS
<1>4. /\ out # <<>> => out[1] \in Range(b.opened) \cap D
      /\ out = <<>> => Range(b.opened) \cap D = {}
  BY <1>3, FilterOpened
<1>5. CASE out = <<>>
  <2>1. d = b
    BY <1>1, <1>3, <1>5 DEF CheckOrdersClosing
  <2>2. QED
    BY <1>2, <1>4, <1>5, <2>1, FollowsSelf
<1>6. CASE out # <<>>
  <2>1. PICK keep : keep = Filter(b.opened, Range(b.opened) \ D)
    OBVIOUS
  <2>2. /\ keep \in Seq(Position) /\ IsInjective(keep)
        /\ Range(keep) = Range(b.opened) \cap (Range(b.opened) \ D)
    BY <2>1, FilterOpened, ZenonT(40)
  <2>3. PICK p \in Range(b.opened) : p = out[1] /\ p \in D
    BY <1>4, <1>6
  <2>4. d = CountProfit(CloseInto([b EXCEPT !.opened = keep], p, t))
    BY <1>1, <1>3, <1>6, <2>1, <2>3 DEF CheckOrdersClosing
  <2>5. Range(keep) \subseteq Range(b.opened) \ {p}
    BY <2>2, <2>3
  <2>6. Follows(b, d) /\ d.opened = keep /\ d.banked = b.banked
    BY <2>2, <2>4, <2>5, ClosingFollows
  <2>7. QED
    BY <1>2, <2>2, <2>6
<1>7. QED
  BY <1>5, <1>6

\* The soft take profit closes the best order of a side, or nothing.
LEMMA SoftClosing ==
  ASSUME NEW b, Whole(b), NEW t \in Quotes, NEW side, NEW c, NEW d, d = SoftClose(b, side, t, c)
  PROVE  Follows(b, d) /\ d.banked = b.banked
<1>1. PICK best : best = Profitable(b, side, t)
  OBVIOUS
<1>2. PICK S : best = Filter(b.opened, S)
  BY <1>1 DEF Profitable
<1>3. CASE ~(best # <<>> /\ IsDynamicChangeAllowed(c, -Lots(side)))
  <2>1. d = b
    BY <1>1, <1>3 DEF SoftClose
  <2>2. QED
    BY <2>1, FollowsSelf
<1>4. CASE best # <<>> /\ IsDynamicChangeAllowed(c, -Lots(side))
  <2>1. PICK p \in Range(b.opened) : p = best[1]
    BY <1>2, <1>4, FilterOpened
  <2>2. PICK keep : keep = Filter(b.opened, Range(b.opened) \ {p})
    OBVIOUS
  <2>3. keep \in Seq(Position) /\ IsInjective(keep) /\ Range(keep) \subseteq Range(b.opened) \ {p}
    <3>1. /\ keep \in Seq(Position) /\ IsInjective(keep)
          /\ Range(keep) = Range(b.opened) \cap (Range(b.opened) \ {p})
      BY <2>2, FilterOpened, ZenonT(40)
    <3>2. QED
      BY <3>1
  <2>4. d = CountProfit(CloseInto([b EXCEPT !.opened = keep], p, t))
    <3>1. PICK b1 : b1 = [b EXCEPT !.opened = keep]
      OBVIOUS
    <3>2. [b EXCEPT !.opened = Filter(@, Range(@) \ {p})] = b1
      BY <2>2, <3>1
    <3>3. QED
      BY <1>1, <1>4, <2>1, <3>1, <3>2 DEF SoftClose
  <2>5. QED
    BY <2>3, <2>4, ClosingFollows
<1>5. QED
  BY <1>3, <1>4

LEMMA SoftTakingProfit ==
  ASSUME NEW b, Whole(b), NEW t \in Quotes, NEW c, NEW d, d = SoftTakeProfit(b, t, c)
  PROVE  Follows(b, d) /\ d.banked = b.banked
<1>1. CASE SoftTP <= 0
  <2>1. d = b
    BY <1>1 DEF SoftTakeProfit
  <2>2. QED
    BY <2>1, FollowsSelf
<1>2. CASE ~(SoftTP <= 0)
  <2>1. PICK b1 : b1 = SoftClose(b, "buy", t, c)
    OBVIOUS
  <2>2. Follows(b, b1) /\ b1.banked = b.banked
    BY <2>1, SoftClosing
  <2>3. Whole(b1) /\ d = SoftClose(b1, "sell", t, c)
    BY <1>2, <2>1, <2>2 DEF SoftTakeProfit, Follows
  <2>4. Follows(b1, d) /\ d.banked = b1.banked
    BY <2>3, SoftClosing
  <2>5. QED
    BY <2>2, <2>4, FollowsOn
<1>3. QED
  BY <1>1, <1>2

\* Closing the cycle: the orders since the last closing gained what was wanted.
LEMMA CycleClosing ==
  ASSUME NEW b, Whole(b), NEW t \in Quotes, NEW d, d = CloseCycle(b, t)
  PROVE  /\ Follows(b, d)
         /\ d = b \/ Gained(d.closed, b.banked + 1, d.banked) >= CloseOnProfit
<1>1. IsBook(b) /\ Placed(b) /\ Accounted(b)
  BY DEF Whole
<1>2. CASE ~IsCloseOnProfit(b, t)
  <2>1. d = b
    BY <1>2 DEF CloseCycle
  <2>2. QED
    BY <2>1, FollowsSelf
<1>3. CASE IsCloseOnProfit(b, t)
  <2>1. PICK list : list = b.closed \o [i \in DOMAIN b.opened |-> Closed(b.opened[i], t)]
    OBVIOUS
  <2>2. PICK done : done = CloseAll(b, t)
    OBVIOUS
  <2>3. /\ done.opened = <<>> /\ done.closed = list /\ done.last_id = b.last_id
        /\ done = [opened |-> done.opened, closed |-> done.closed, cycle |-> done.cycle,
                   last_id |-> done.last_id, events |-> done.events, banked |-> done.banked]
    BY <1>1, <2>1, <2>2 DEF CloseAll, Closed, IsBook
  <2>4. d = [done EXCEPT !.cycle = 0, !.banked = Len(done.closed)]
    BY <1>3, <2>2 DEF CloseCycle
  <2>5. /\ d.opened = <<>> /\ d.closed = list /\ d.last_id = b.last_id /\ d.cycle = 0
        /\ d.banked = Len(list)
        /\ d = [opened |-> d.opened, closed |-> d.closed, cycle |-> d.cycle,
                last_id |-> d.last_id, events |-> d.events, banked |-> d.banked]
    BY <2>3, <2>4
  <2>6. <<>> \in Seq(Position) /\ IsInjective(<<>>) /\ Range(<<>>) = {}
    BY EmptySeq DEF IsInjective, Range
  <2>7. Retires(b, d, b.opened, t)
    BY <1>1, <2>1, <2>5, <2>6 DEF Retires, IsBook, Placed
  <2>8. /\ Placed(d) /\ Shrinks(b, d) /\ SameGains(b, d)
        /\ GainsBy(b, d, Earned(b.opened, t)) /\ Earned(b.opened, t) \in Int
        /\ d.closed \in Seq(Position) /\ Len(d.closed) = Len(b.closed) + Len(b.opened)
    BY <2>7, Retiring
  <2>9. Len(b.closed) \in Nat /\ Len(b.opened) \in Nat /\ Len(d.closed) \in Nat
    BY <1>1, <2>8, LenProperties DEF IsBook
  <2>10. Accounted(d)
    BY <2>5, <2>8, GainedNone DEF Accounted
  <2>11. IsBook(d)
    <3>1. d.banked \in 0..Len(d.closed) /\ d.cycle \in Int /\ d.last_id \in Nat
      BY <1>1, <2>5, <2>9 DEF IsBook
    <3>2. QED
      BY <2>5, <2>6, <2>8, <3>1 DEF IsBook
  <2>12. Follows(b, d)
    <3>1. Len(b.closed) <= Len(d.closed)
      <4>1. PICK x \in Nat, y \in Nat, z \in Nat : x = Len(b.closed) /\ y = Len(b.opened) /\ z = Len(d.closed)
        BY <2>9
      <4>2. z = x + y
        BY <2>8, <4>1
      <4>3. x <= z
        BY <4>2
      <4>4. QED
        BY <4>1, <4>3
    <3>2. QED
      BY <2>8, <2>10, <2>11, <3>1 DEF Follows, Whole
  <2>13. b.banked + 1 \in 1..(Len(b.closed) + 1)
    BY <1>1, <2>9 DEF IsBook
  <2>14. Gained(d.closed, b.banked + 1, d.banked) = b.cycle + Equity(b.opened, t)
    BY <1>1, <2>5, <2>8, <2>13 DEF GainsBy, Accounted, Earned, Equity
  <2>15. QED
    BY <1>3, <2>12, <2>14 DEF IsCloseOnProfit
<1>4. QED
  BY <1>2, <1>3

\* A tick sends at most a buy and then a sell, each allowed by the book before.
LEMMA Opening ==
  ASSUME NEW b, Whole(b), NEW t \in Quotes, NEW c
  PROVE  \E b1 :
           /\ b1 = b \/ (MayOpen(b, "buy", t, c) /\ Adds(b, b1, "buy", t))
           /\ \/ TryOpening(b, t, c) = b1
              \/ MayOpen(b, "sell", t, c) /\ Adds(b1, TryOpening(b, t, c), "sell", t)
<1>1. "buy" \in Sides /\ "sell" \in Sides
  BY DEF Sides
<1>2. PICK b1 : b1 = IF MayOpen(b, "buy", t, c) THEN OrderSend(b, "buy", t) ELSE b
  OBVIOUS
<1>3. b1 = b \/ (MayOpen(b, "buy", t, c) /\ Adds(b, b1, "buy", t))
  <2>1. Adds(b, OrderSend(b, "buy", t), "buy", t)
    BY <1>1, Sending
  <2>2. QED
    BY <1>2, <2>1
<1>4. PICK b2 : b2 = IF MayOpen(b, "sell", t, c) THEN OrderSend(b1, "sell", t) ELSE b1
  OBVIOUS
<1>5. b2 = b1 \/ (MayOpen(b, "sell", t, c) /\ Adds(b1, b2, "sell", t))
  <2>1. Whole(b1)
    BY <1>3 DEF Adds
  <2>2. Adds(b1, OrderSend(b1, "sell", t), "sell", t)
    BY <1>1, <2>1, Sending
  <2>3. QED
    BY <1>4, <2>2
<1>6. TryOpening(b, t, c) = IF ~Touching(t) THEN b ELSE b2
  BY <1>2, <1>4 DEF TryOpening
<1>7. QED
  BY <1>3, <1>5, <1>6

\* The orders that a tick sends: what may be sent, and with which id.
Fresh(b, d, t, c) ==
  /\ Whole(d) /\ d.closed = b.closed /\ d.banked = b.banked /\ b.last_id <= d.last_id
  /\ \A p \in All(d) :
       \/ p.id <= b.last_id
       \/ p.order.side = "buy" /\ p.id = b.last_id + 1 /\ MayOpen(b, "buy", t, c)
       \/ p.order.side = "sell" /\ p.id = d.last_id /\ MayOpen(b, "sell", t, c)

LEMMA OpeningIsFresh ==
  ASSUME NEW b, Whole(b), NEW t \in Quotes, NEW c
  PROVE  Fresh(b, TryOpening(b, t, c), t, c)
<1>1. PICK b1 :
        /\ b1 = b \/ (MayOpen(b, "buy", t, c) /\ Adds(b, b1, "buy", t))
        /\ \/ TryOpening(b, t, c) = b1
           \/ MayOpen(b, "sell", t, c) /\ Adds(b1, TryOpening(b, t, c), "sell", t)
  BY Opening
<1>2. PICK d : d = TryOpening(b, t, c)
  OBVIOUS
<1>3. IsBook(b) /\ \A p \in All(b) : p.id <= b.last_id
  BY DEF Whole, Placed
<1>4. /\ Whole(b1) /\ b1.closed = b.closed /\ b1.banked = b.banked
      /\ b1.last_id \in {b.last_id, b.last_id + 1}
      /\ \A p \in All(b1) :
           \/ p.id <= b.last_id
           \/ p.order.side = "buy" /\ p.id = b.last_id + 1 /\ MayOpen(b, "buy", t, c)
  <2>1. CASE b1 = b
    BY <1>3, <2>1
  <2>2. CASE MayOpen(b, "buy", t, c) /\ Adds(b, b1, "buy", t)
    <3>1. /\ Whole(b1) /\ b1.closed = b.closed /\ b1.banked = b.banked
          /\ b1.last_id = b.last_id + 1
      BY <2>2 DEF Adds
    <3>2. CASE b1.opened = b.opened
      BY <1>3, <3>1, <3>2 DEF All
    <3>3. CASE b1.opened # b.opened
      <4>1. PICK p \in Position :
              p.id = b1.last_id /\ p.order.side = "buy" /\ b1.opened = Append(b.opened, p)
        BY <2>2, <3>3 DEF Adds
      <4>2. Range(b1.opened) = Range(b.opened) \cup {p}
        BY <1>3, <4>1, RangeOfAppend DEF IsBook
      <4>3. All(b1) = All(b) \cup {p}
        BY <3>1, <4>2 DEF All
      <4>4. QED
        BY <1>3, <2>2, <3>1, <4>1, <4>3
    <3>4. QED
      BY <3>2, <3>3
  <2>3. QED
    BY <1>1, <2>1, <2>2
<1>5. b.last_id \in Nat /\ IsBook(b1)
  BY <1>3, <1>4 DEF IsBook, Whole
<1>6. CASE d = b1
  BY <1>2, <1>4, <1>5, <1>6 DEF Fresh
<1>7. CASE MayOpen(b, "sell", t, c) /\ Adds(b1, d, "sell", t)
  <2>1. /\ Whole(d) /\ d.closed = b.closed /\ d.banked = b.banked
        /\ d.last_id = b1.last_id + 1
    BY <1>4, <1>7 DEF Adds
  <2>2. CASE d.opened = b1.opened
    <3>1. All(d) = All(b1)
      BY <1>4, <2>1, <2>2 DEF All
    <3>2. QED
      BY <1>2, <1>4, <1>5, <2>1, <3>1 DEF Fresh
  <2>3. CASE d.opened # b1.opened
    <3>1. PICK p \in Position :
            p.id = d.last_id /\ p.order.side = "sell" /\ d.opened = Append(b1.opened, p)
      BY <1>7, <2>3 DEF Adds
    <3>2. Range(d.opened) = Range(b1.opened) \cup {p}
      BY <1>5, <3>1, RangeOfAppend DEF IsBook
    <3>3. All(d) = All(b1) \cup {p}
      BY <1>4, <2>1, <3>2 DEF All
    <3>4. QED
      BY <1>2, <1>4, <1>5, <1>7, <2>1, <3>1, <3>3 DEF Fresh
  <2>4. QED
    BY <2>2, <2>3
<1>8. QED
  BY <1>1, <1>2, <1>6, <1>7

------------------------------------------------------------------------------
(* One tick                                                                *)

\* on_tick as the four steps it takes with the book.
LEMMA TickSteps ==
  ASSUME Whole(Book), NEW t \in Quotes, on_tick(t)
  PROVE  \E b, b2, b3, b4, d :
           LET c == Compute(opened_orders_, t)
           IN /\ b = Book /\ b2 = TryOpening(b, t, c) /\ Fresh(b, b2, t, c)
              /\ Follows(b2, b3) /\ b3.banked = b2.banked
              /\ \A p \in Range(b3.opened) : ~CheckClose(p.order, t)
              /\ Follows(b3, b4)
              /\ b4 = b3 \/ Gained(b4.closed, b3.banked + 1, b4.banked) >= CloseOnProfit
              /\ Follows(b4, d) /\ d.banked = b4.banked
              /\ Book' = d /\ latest_tick_' = t /\ ticks < MaxTicks /\ ticks' = ticks + 1
<1>1. PICK c : c = Compute(opened_orders_, t)
  OBVIOUS
<1>2. PICK b : b = Book
  OBVIOUS
<1>3. PICK b2 : b2 = TryOpening(b, t, c)
  OBVIOUS
<1>4. PICK b3 : b3 = CheckOrdersClosing(b2, t)
  OBVIOUS
<1>5. PICK b4 : b4 = CloseCycle(b3, t)
  OBVIOUS
<1>6. PICK d : d = SoftTakeProfit(b4, t, c)
  OBVIOUS
<1>7. Fresh(b, b2, t, c)
  BY <1>2, <1>3, OpeningIsFresh
<1>8. Whole(b2)
  BY <1>7 DEF Fresh
<1>9. /\ Follows(b2, b3) /\ b3.banked = b2.banked
      /\ \A p \in Range(b3.opened) : ~CheckClose(p.order, t)
  BY <1>4, <1>8, Checking
<1>10. Whole(b3)
  BY <1>9 DEF Follows
<1>11. /\ Follows(b3, b4)
       /\ b4 = b3 \/ Gained(b4.closed, b3.banked + 1, b4.banked) >= CloseOnProfit
  BY <1>5, <1>10, CycleClosing
<1>12. Whole(b4)
  BY <1>11 DEF Follows
<1>13. Follows(b4, d) /\ d.banked = b4.banked
  BY <1>6, <1>12, SoftTakingProfit
<1>14. IsBook(d)
  BY <1>13 DEF Follows, Whole
<1>15. /\ ticks < MaxTicks /\ ticks' = ticks + 1 /\ latest_tick_' = t
       /\ opened_orders_' = d.opened /\ closed_orders_' = d.closed
       /\ cycle_profit_' = d.cycle /\ auto_order_id_' = d.last_id
       /\ order_events' = d.events /\ banked' = d.banked
  BY <1>1, <1>2, <1>3, <1>4, <1>5, <1>6 DEF on_tick
<1>16. Book' = d
  BY <1>14, <1>15 DEF Book, IsBook
<1>17. QED
  BY <1>1, <1>2, <1>3, <1>7, <1>9, <1>11, <1>13, <1>15, <1>16

LEMMA InitWhole == Init => Whole(Book)
<1> SUFFICES ASSUME Init PROVE Whole(Book)
  OBVIOUS
<1>1. PICK b : b = Book
  OBVIOUS
<1>2. b.opened = <<>> /\ b.closed = <<>> /\ b.cycle = 0 /\ b.last_id = 0 /\ b.banked = 0
      /\ b = [opened |-> b.opened, closed |-> b.closed, cycle |-> b.cycle,
              last_id |-> b.last_id, events |-> b.events, banked |-> b.banked]
  BY <1>1 DEF Init, Book
<1>3. /\ <<>> \in Seq(Position) /\ Len(<<>>) = 0 /\ Range(<<>>) = {} /\ IsInjective(<<>>)
  BY EmptySeq DEF Range, IsInjective
<1>4. IsBook(b)
  BY <1>2, <1>3 DEF IsBook
<1>5. Placed(b)
  BY <1>2, <1>3 DEF Placed, All
<1>6. Accounted(b)
  <2>1. PICK s \in Seq(Position) : s = <<>> /\ Len(s) = 0
    BY <1>3
  <2>2. Gained(s, 0 + 1, 0) = 0
    BY <2>1, GainedNone
  <2>3. QED
    BY <1>2, <1>3, <2>1, <2>2 DEF Accounted
<1>7. QED
  BY <1>1, <1>4, <1>5, <1>6 DEF Whole

LEMMA NextTick ==
  ASSUME Next
  PROVE  \E t \in Quotes : on_tick(t)
BY DEF Next, Quotes

\* The inductive invariant: the book is whole.
Inv == Whole(Book) /\ ticks \in 0..MaxTicks

LEMMA InvStep == Inv /\ [Next]_vars => Inv'
<1> SUFFICES ASSUME Inv, [Next]_vars PROVE Inv'
  OBVIOUS
<1>1. CASE UNCHANGED vars
  BY <1>1 DEF Inv, vars, Book
<1>2. CASE Next
  <2>1. PICK t \in Quotes : on_tick(t)
    BY <1>2, NextTick
  <2>2. PICK b4, d : Follows(b4, d) /\ Book' = d /\ ticks < MaxTicks /\ ticks' = ticks + 1
    BY <2>1, TickSteps DEF Inv
  <2>3. Whole(d)
    BY <2>2 DEF Follows
  <2>4. (Whole(Book))'
    BY <2>2, <2>3
  <2>5. ticks' \in 0..MaxTicks
    BY <2>2, ParamsAssumption DEF Inv
  <2>6. QED
    BY <2>4, <2>5 DEF Inv
<1>3. QED
  BY <1>1, <1>2

LEMMA Invariance == Spec => []Inv
<1>1. Init => Inv
  BY InitWhole, ParamsAssumption DEF Init, Inv
<1>2. QED
  BY <1>1, InvStep, PTL DEF Spec

------------------------------------------------------------------------------
(* The theorems                                                            *)

\* An order is in one list, the one that its prices say, and has an id of its own.
THEOREM TypeCorrect == Spec => []TypeOK
<1>1. Inv => TypeOK
  <2> SUFFICES ASSUME Inv PROVE TypeOK
    OBVIOUS
  <2>1. PICK b : b = Book
    OBVIOUS
  <2>2. IsBook(b) /\ Placed(b) /\ ticks \in 0..MaxTicks
    BY <2>1 DEF Inv, Whole
  <2>3. /\ b.opened = opened_orders_ /\ b.closed = closed_orders_ /\ b.cycle = cycle_profit_
        /\ b.banked = banked
    BY <2>1 DEF Book
  <2>4. PICK s \in Seq(Position) : s = opened_orders_
    BY <2>2, <2>3 DEF IsBook
  <2>5. PICK u \in Seq(Position) : u = closed_orders_
    BY <2>2, <2>3 DEF IsBook
  <2>6. /\ IsInjective(s) /\ IsInjective(u)
        /\ \A p \in Range(s) : CanClose(p.order)
        /\ \A p \in Range(u) : IsClosed(p.order)
        /\ \A p, q \in Range(s) \cup Range(u) : p.id = q.id => p = q
    BY <2>2, <2>3, <2>4, <2>5 DEF Placed, All
  <2>7. Range(s) \cap Range(u) = {}
    BY <2>6 DEF CanClose
  <2>8. PICK w : w = s \o u
    OBVIOUS
  <2>9. IsInjective(w) /\ Range(w) = Range(s) \cup Range(u)
    BY <2>6, <2>7, <2>8, InjectiveConcat, RangeOfConcat
  <2>10. \A i, j \in DOMAIN w : i # j => w[i].id # w[j].id
    <3>1. \A i \in DOMAIN w : w[i] \in Range(s) \cup Range(u)
      BY <2>9 DEF Range
    <3>2. \A i, j \in DOMAIN w : w[i] = w[j] => i = j
      BY <2>9 DEF IsInjective
    <3>3. QED
      BY <2>6, <3>1, <3>2
  <2>11. /\ \A i \in DOMAIN s : CanClose(s[i].order)
         /\ \A i \in DOMAIN u : IsClosed(u[i].order)
    BY <2>6 DEF Range
  <2>12. cycle_profit_ \in Int /\ banked \in 0..Len(closed_orders_)
    BY <2>2, <2>3 DEF IsBook
  <2>13. QED
    BY <2>2, <2>4, <2>5, <2>8, <2>10, <2>11, <2>12 DEF TypeOK
<1>2. QED
  BY <1>1, Invariance, PTL

\* cycle_profit_ accounts for every way of closing an order.
THEOREM CycleAccounted == Spec => []CycleAccounts
<1>1. Inv => CycleAccounts
  BY DEF Inv, Whole, Accounted, Book, CycleAccounts
<1>2. QED
  BY <1>1, Invariance, PTL

\* check_orders_closing and what follows it leave no order that is due.
THEOREM NoneOverdue == Spec => []NothingOverdue
<1>1. Init => NothingOverdue
  BY DEF Init, NothingOverdue, Range
<1>2. Inv /\ NothingOverdue /\ [Next]_vars => NothingOverdue'
  <2> SUFFICES ASSUME Inv, NothingOverdue, [Next]_vars PROVE NothingOverdue'
    OBVIOUS
  <2>1. CASE UNCHANGED vars
    BY <2>1 DEF vars, NothingOverdue
  <2>2. CASE Next
    <3>1. PICK t \in Quotes : on_tick(t)
      BY <2>2, NextTick
    <3>2. PICK b3, b4, d :
            /\ \A p \in Range(b3.opened) : ~CheckClose(p.order, t)
            /\ Follows(b3, b4) /\ Follows(b4, d) /\ Book' = d /\ latest_tick_' = t
      BY <3>1, TickSteps DEF Inv
    <3>3. Range(d.opened) \subseteq Range(b3.opened)
      BY <3>2 DEF Follows, Shrinks
    <3>4. opened_orders_' = d.opened
      BY <3>2 DEF Book
    <3>5. QED
      BY <3>2, <3>3, <3>4 DEF NothingOverdue
  <2>3. QED
    BY <2>1, <2>2
<1>3. QED
  BY <1>1, <1>2, Invariance, PTL DEF Spec

\* A cycle ends with what it was to gain.
THEOREM CycleReached == Spec => CycleTarget
<1> DEFINE Reached == banked' # banked => Gained(closed_orders_', banked + 1, banked') >= CloseOnProfit
<1>1. Inv /\ [Next]_vars => [Reached]_vars
  <2> SUFFICES ASSUME Inv, Next PROVE Reached
    OBVIOUS
  <2>1. PICK t \in Quotes : on_tick(t)
    BY NextTick
  <2>2. PICK b, b2, b3, b4, d :
          /\ b = Book /\ b2.banked = b.banked /\ Whole(b)
          /\ Follows(b2, b3) /\ b3.banked = b2.banked
          /\ Follows(b3, b4)
          /\ b4 = b3 \/ Gained(b4.closed, b3.banked + 1, b4.banked) >= CloseOnProfit
          /\ Follows(b4, d) /\ d.banked = b4.banked
          /\ Book' = d
    BY <2>1, TickSteps DEF Inv, Fresh
  <2>3. b.banked = banked /\ d.banked = banked' /\ d.closed = closed_orders_'
    BY <2>2 DEF Book
  <2>4. banked \in Nat /\ b4.banked \in 0..Len(b4.closed)
    <3>1. Len(b.closed) \in Nat
      BY <2>2, LenProperties DEF Whole, IsBook
    <3>2. QED
      BY <2>2, <2>3, <3>1 DEF Follows, Whole, IsBook
  <2>5. Gained(d.closed, banked + 1, b4.banked) = Gained(b4.closed, banked + 1, b4.banked)
    <3>1. banked + 1 \in Nat \ {0}
      BY <2>4
    <3>2. QED
      BY <2>2, <2>4, <3>1 DEF Follows, SameGains
  <2>6. QED
    BY <2>2, <2>3, <2>5
<1>2. QED
  BY <1>1, Invariance, PTL DEF Spec, CycleTarget

LEMMA AtMostOne ==
  ASSUME NEW S, \A x, y \in S : x = y
  PROVE  Cardinality(S) = IF S = {} THEN 0 ELSE 1
<1>1. CASE S = {}
  BY <1>1, FS_EmptySet
<1>2. CASE S # {}
  <2>1. PICK x \in S : S = {x}
    BY <1>2
  <2>2. QED
    BY <1>2, <2>1, FS_Singleton
<1>3. QED
  BY <1>1, <1>2

LEMMA ExposureIsInt ==
  ASSUME NEW s \in Seq(Position)
  PROVE  Exposure(s) \in Int
<1>1. PICK N \in Nat : N = Len(s) /\ DOMAIN s = 1..N
  BY LenProperties
<1>2. PICK f : f = [i \in DOMAIN s |-> IF IsBuy(s[i]) THEN 1 ELSE -1]
  OBVIOUS
<1>3. f \in [1..N -> Int]
  BY <1>1, <1>2
<1>4. f \in Seq(Int)
  BY <1>3, SeqDef
<1>5. QED
  BY <1>2, <1>4, TotalProperties DEF Exposure

\* An order that is allowed drives the exposure beyond the limit only on its way back.
LEMMA Allowed ==
  ASSUME NEW before \in Int, NEW change \in Int, NEW c,
         c.exposure = before, c.section >= 0, MaxLots > 0, IsChangeLotsAllowed(c, change)
  PROVE  Abs(before + change) <= IF Abs(before) > MaxLots THEN Abs(before) ELSE MaxLots
<1>1. MaxLots \in Nat
  BY ParamsAssumption
<1>2. Abs(before + change) <= MaxLots \/ Abs(before + change) < Abs(before)
  BY <1>1 DEF IsChangeLotsAllowed
<1>3. Abs(before + change) \in Nat /\ Abs(before) \in Nat
  BY DEF Abs
<1>4. QED
  BY <1>1, <1>2, <1>3

\* Opening keeps the limit of lots inside the range.
THEOREM LimitOfLots == Spec => ExposureCapped
<1> DEFINE before == Exposure(opened_orders_)
           after  == before + Cardinality({p \in Sent : IsBuy(p)})
                            - Cardinality({p \in Sent : IsSell(p)})
           most   == IF Abs(before) > MaxLots THEN Abs(before) ELSE MaxLots
           Capped == MaxLots > 0 /\ Section(opened_orders_, latest_tick_') >= 0
                       => Abs(after) <= most
<1>1. Inv /\ [Next]_vars => [Capped]_vars
  <2> SUFFICES ASSUME Inv, Next, MaxLots > 0, Section(opened_orders_, latest_tick_') >= 0
               PROVE  Abs(after) <= most
    OBVIOUS
  <2>1. PICK t \in Quotes : on_tick(t)
    BY NextTick
  <2>2. PICK c : c = Compute(opened_orders_, t)
    OBVIOUS
  <2>3. PICK b, b2, b3, b4, d :
          /\ b = Book /\ Fresh(b, b2, t, c) /\ Follows(b2, b3) /\ Follows(b3, b4)
          /\ Follows(b4, d) /\ Book' = d /\ latest_tick_' = t
    BY <2>1, <2>2, TickSteps DEF Inv
  <2>4. Placed(d) /\ \A p \in All(d) : \E q \in All(b2) : q.id = p.id /\ q.order.side = p.order.side
    <3>1. Shrinks(b2, b3) /\ Shrinks(b3, b4) /\ Shrinks(b4, d) /\ Placed(d)
      BY <2>3 DEF Follows, Whole
    <3>2. ASSUME NEW p \in All(d)
          PROVE  \E q \in All(b2) : q.id = p.id /\ q.order.side = p.order.side
      <4>1. PICK x \in All(b4) : x.id = p.id /\ x.order.side = p.order.side
        BY <3>1 DEF Shrinks
      <4>2. PICK y \in All(b3) : y.id = x.id /\ y.order.side = x.order.side
        BY <3>1 DEF Shrinks
      <4>3. PICK z \in All(b2) : z.id = y.id /\ z.order.side = y.order.side
        BY <3>1 DEF Shrinks
      <4>4. QED
        BY <4>1, <4>2, <4>3
    <3>3. QED
      BY <3>1, <3>2
  <2>5. b.last_id \in Nat /\ b2.last_id \in Nat /\ b.last_id = auto_order_id_
    BY <2>3 DEF Inv, Book, Whole, IsBook, Fresh
  <2>6. Sent = {p \in All(d) : p.id > b.last_id}
    <3>1. opened_orders_' = d.opened /\ closed_orders_' = d.closed
      BY <2>3 DEF Book
    <3>2. QED
      BY <2>5, <3>1 DEF Sent, All
  <2>7. PICK buys : buys = {p \in Sent : IsBuy(p)}
    OBVIOUS
  <2>8. PICK sells : sells = {p \in Sent : IsSell(p)}
    OBVIOUS
  <2>9. ASSUME NEW p \in Sent
        PROVE  \/ IsBuy(p) /\ p.id = b.last_id + 1 /\ MayOpen(b, "buy", t, c)
               \/ IsSell(p) /\ p.id = b2.last_id /\ MayOpen(b, "sell", t, c)
    <3>1. PICK q \in All(b2) : q.id = p.id /\ q.order.side = p.order.side
      BY <2>4, <2>6
    <3>2. p.id > b.last_id
      BY <2>6
    <3>3. p.id \in Nat
      <4>1. p \in All(d) /\ IsBook(d)
        BY <2>3, <2>6 DEF Follows, Whole
      <4>2. p \in Position
        BY <4>1, RangeOfPositions DEF All, IsBook
      <4>3. QED
        BY <4>2 DEF Position
    <3>4. ~(q.id <= b.last_id)
      BY <2>5, <3>1, <3>2, <3>3
    <3>5. QED
      BY <2>3, <3>1, <3>4 DEF Fresh, IsBuy, IsSell
  <2>10. \A p \in Sent : ~(IsBuy(p) /\ IsSell(p))
    BY DEF IsBuy, IsSell
  <2>11. /\ \A x, y \in buys : x = y
         /\ \A x, y \in sells : x = y
         /\ buys # {} => MayOpen(b, "buy", t, c)
         /\ sells # {} => MayOpen(b, "sell", t, c)
    <3>1. /\ \A p \in buys : p \in All(d) /\ p.id = b.last_id + 1 /\ MayOpen(b, "buy", t, c)
          /\ \A p \in sells : p \in All(d) /\ p.id = b2.last_id /\ MayOpen(b, "sell", t, c)
      BY <2>6, <2>7, <2>8, <2>9, <2>10
    <3>2. QED
      BY <2>4, <3>1 DEF Placed
  <2>12. PICK x \in Int : x = before
    <3>1. opened_orders_ \in Seq(Position)
      BY DEF Inv, Whole, IsBook, Book
    <3>2. QED
      BY <3>1, ExposureIsInt
  <2>13. c.exposure = x /\ c.section >= 0
    BY <2>2, <2>3, <2>12 DEF Compute
  <2>14. /\ buys # {} => Abs(x + 1) <= IF Abs(x) > MaxLots THEN Abs(x) ELSE MaxLots
         /\ sells # {} => Abs(x + (-1)) <= IF Abs(x) > MaxLots THEN Abs(x) ELSE MaxLots
    <3>1. /\ buys # {} => IsChangeLotsAllowed(c, 1)
          /\ sells # {} => IsChangeLotsAllowed(c, -1)
      BY <2>11 DEF MayOpen, Lots
    <3>2. 1 \in Int /\ -1 \in Int
      OBVIOUS
    <3>3. QED
      BY <2>13, <3>1, <3>2, Allowed
  <2>15. after = x + (IF buys = {} THEN 0 ELSE 1) - (IF sells = {} THEN 0 ELSE 1)
    <3>1. /\ Cardinality(buys) = IF buys = {} THEN 0 ELSE 1
          /\ Cardinality(sells) = IF sells = {} THEN 0 ELSE 1
      BY <2>11, AtMostOne
    <3>2. QED
      BY <2>7, <2>8, <2>12, <3>1
  <2>16. Abs(x) <= IF Abs(x) > MaxLots THEN Abs(x) ELSE MaxLots
    <3>1. Abs(x) \in Int /\ MaxLots \in Int
      BY ParamsAssumption DEF Abs
    <3>2. QED
      BY <3>1
  <2>17. Abs(after) <= IF Abs(x) > MaxLots THEN Abs(x) ELSE MaxLots
    <3>1. CASE buys = {} <=> sells = {}
      <4>1. after = x
        BY <2>12, <2>15, <3>1
      <4>2. QED
        BY <2>16, <4>1
    <3>2. CASE buys # {} /\ sells = {}
      <4>1. after = x + 1
        BY <2>12, <2>15, <3>2
      <4>2. QED
        BY <2>14, <3>2, <4>1
    <3>3. CASE buys = {} /\ sells # {}
      <4>1. after = x + (-1)
        BY <2>12, <2>15, <3>3
      <4>2. QED
        BY <2>14, <3>3, <4>1
    <3>4. QED
      BY <3>1, <3>2, <3>3
  <2>18. QED
    BY <2>12, <2>17
<1>2. QED
  BY <1>1, Invariance, PTL DEF Spec, ExposureCapped

------------------------------------------------------------------------------
(* The rungs of the ladder                                                 *)

LEMMA Quotient ==
  ASSUME NEW m \in Nat \ {0}, NEW q \in Int, NEW e \in 0..(m - 1)
  PROVE  (m * q + e) \div m = q
<1>1. PICK x \in Int : x = m * q + e
  OBVIOUS
<1>2. PICK w \in Int : w = x \div m
  OBVIOUS
<1>3. PICK r \in 0..(m - 1) : r = x % m
  OBVIOUS
<1>4. x = m * w + r
  BY <1>2, <1>3
<1>5. m * (w - q) = e - r
  BY <1>1, <1>4
<1>6. w - q < 1
  <2>1. CASE w - q >= 1
    <3>1. m * (w - q) >= m
      BY <2>1
    <3>2. QED
      BY <1>5, <3>1
  <2>2. QED
    BY <2>1
<1>7. w - q > -1
  <2>1. CASE w - q <= -1
    <3>1. m * (w - q) <= -m
      BY <2>1
    <3>2. QED
      BY <1>5, <3>1
  <2>2. QED
    BY <2>1
<1>8. QED
  BY <1>1, <1>2, <1>6, <1>7

\* When the step is a whole number of the units that on_level compares and its cast cuts
\* nothing, the orders of one rung are those of one bucket.
LEMMA OneBucket ==
  ASSUME Step % 10 = 0, ShortLevels \cap Mids = {},
         NEW mid \in Mids
  PROVE  Bucket(mid) = (Step \div 10) * (NearestLevel(mid) \div Step)
<1>1. mid \in Nat /\ Step \in Nat \ {0}
  BY ParamsAssumption
<1>2. PICK points \in Int : points = IF mid \in ShortMids THEN mid - 1 ELSE mid
  BY <1>1
<1>3. PICK q \in Int : q = points \div Step
  BY <1>1
<1>4. PICK j \in Nat \ {0} : j = Step \div 10 /\ Step = 10 * j
  BY <1>1
<1>5. points - (points % Step) = Step * q
  BY <1>1, <1>3
<1>6. PICK e \in {0, 1} : mid = points + e
  BY <1>1, <1>2
<1>7. PICK level \in Int : level = NearestLevel(mid)
  BY Levels
<1>8. level = Step * q + e
  <2>1. level = mid - (points % Step)
    BY <1>2, <1>7 DEF NearestLevel
  <2>2. points % Step \in Int
    BY <1>1
  <2>3. PICK x \in Int : x = Step * q
    BY <1>1
  <2>4. QED
    BY <1>5, <1>6, <2>1, <2>2, <2>3
<1>9. level \div Step = q
  <2>1. e \in 0..(Step - 1)
    BY <1>4
  <2>2. QED
    BY <1>1, <1>8, <2>1, Quotient
<1>10. level \div 10 = j * q
  <2>1. PICK x \in Int : x = j * q
    OBVIOUS
  <2>2. Step * q = 10 * x
    BY <1>4, <2>1
  <2>3. e \in 0..(10 - 1) /\ 10 \in Nat \ {0}
    OBVIOUS
  <2>4. (10 * x + e) \div 10 = x
    BY <2>3, Quotient
  <2>5. QED
    BY <1>8, <2>1, <2>2, <2>4
<1>11. Bucket(mid) = level \div 10
  BY <1>7 DEF Bucket
<1>12. QED
  BY <1>4, <1>7, <1>9, <1>10, <1>11

\* the open orders of a side on a rung
Rung(b, side, rung) ==
  {q \in Range(b.opened) : q.order.side = side /\ q.level \div Step = rung}

\* Every order was opened at the level of a price, and no rung holds too many.
Rungs(b) ==
  /\ \A p \in Range(b.opened) :
       \E mid \in Mids : p.level = NearestLevel(mid) /\ p.bucket = Bucket(mid)
  /\ \A p \in Range(b.opened) :
       Cardinality(Rung(b, p.order.side, p.level \div Step)) <= TradesPerLevel

LEMMA RungIsFinite ==
  ASSUME NEW b, IsBook(b)
  PROVE  IsFiniteSet(Range(b.opened))
<1>1. PICK s \in Seq(Position) : s = b.opened
  BY DEF IsBook
<1>2. PICK N \in Nat : N = Len(s) /\ DOMAIN s = 1..N
  BY LenProperties
<1>3. IsFiniteSet(1..N)
  BY <1>2, FS_Interval
<1>4. s \in Surjection(1..N, Range(s))
  BY <1>2 DEF Surjection, Range
<1>5. QED
  BY <1>1, <1>3, <1>4, FS_Surjection

LEMMA ShrinkingKeepsRungs ==
  ASSUME NEW b, NEW d, IsBook(b), Rungs(b), Range(d.opened) \subseteq Range(b.opened)
  PROVE  Rungs(d)
<1>1. ASSUME NEW p \in Range(d.opened)
      PROVE  Cardinality(Rung(d, p.order.side, p.level \div Step)) <= TradesPerLevel
  <2>1. PICK S : S = Rung(b, p.order.side, p.level \div Step)
    OBVIOUS
  <2>2. PICK T : T = Rung(d, p.order.side, p.level \div Step)
    OBVIOUS
  <2>3. T \subseteq S /\ IsFiniteSet(S)
    BY <2>1, <2>2, RungIsFinite, FS_Subset DEF Rung
  <2>4. Cardinality(T) <= Cardinality(S) /\ Cardinality(T) \in Nat /\ Cardinality(S) \in Nat
    BY <2>3, FS_Subset, FS_CardinalityType
  <2>5. Cardinality(S) <= TradesPerLevel
    BY <2>1 DEF Rungs
  <2>6. QED
    BY <2>2, <2>4, <2>5, ParamsAssumption
<1>2. QED
  BY <1>1 DEF Rungs

LEMMA AddingKeepsRungs ==
  ASSUME Step % 10 = 0, ShortLevels \cap Mids = {},
         NEW b, IsBook(b), Rungs(b), NEW side, NEW t \in Quotes, NEW d, Adds(b, d, side, t),
         Cardinality(OnLevel(b, side, t)) < TradesPerLevel
  PROVE  Rungs(d)
<1>1. CASE d.opened = b.opened
  BY <1>1, ShrinkingKeepsRungs
<1>2. CASE d.opened # b.opened
  <2>1. PICK p \in Position :
          /\ p.order.side = side /\ p.level = NearestLevel(Mid(t)) /\ p.bucket = Bucket(Mid(t))
          /\ d.opened = Append(b.opened, p)
    BY <1>2 DEF Adds
  <2>2. Range(d.opened) = Range(b.opened) \cup {p}
    BY <2>1, RangeOfAppend DEF IsBook
  <2>3. Mid(t) \in Mids
    BY Quote
  <2>4. ASSUME NEW x \in Range(d.opened)
        PROVE  \E mid \in Mids : x.level = NearestLevel(mid) /\ x.bucket = Bucket(mid)
    BY <2>1, <2>2, <2>3 DEF Rungs
  <2>5. \A x \in Range(d.opened) : x.bucket = (Step \div 10) * (x.level \div Step)
    BY <2>4, OneBucket
  <2>6. PICK S : S = OnLevel(b, side, t)
    OBVIOUS
  <2>7. /\ IsFiniteSet(S) /\ Cardinality(S) \in Nat /\ Cardinality(S) + 1 <= TradesPerLevel
        /\ IsFiniteSet(S \cup {p}) /\ Cardinality(S \cup {p}) \in Nat
        /\ Cardinality(S \cup {p}) <= Cardinality(S) + 1
    <3>1. S \subseteq Range(b.opened)
      BY <2>6 DEF OnLevel
    <3>2. IsFiniteSet(S)
      BY <3>1, RungIsFinite, FS_Subset
    <3>3. Cardinality(S) \in Nat
      BY <3>2, FS_CardinalityType
    <3>4. /\ IsFiniteSet(S \cup {p})
          /\ Cardinality(S \cup {p}) = IF p \in S THEN Cardinality(S) ELSE Cardinality(S) + 1
      BY <3>2, FS_AddElement
    <3>5. Cardinality(S) + 1 <= TradesPerLevel
      BY <2>6, <3>3, ParamsAssumption
    <3>6. QED
      BY <3>2, <3>3, <3>4, <3>5
  <2>8. ASSUME NEW x \in Range(d.opened)
        PROVE  Cardinality(Rung(d, x.order.side, x.level \div Step)) <= TradesPerLevel
    <3>1. CASE x.order.side = side /\ x.level \div Step = p.level \div Step
      <4>1. PICK T : T = Rung(d, x.order.side, x.level \div Step)
        OBVIOUS
      <4>2. ASSUME NEW q \in T PROVE q \in S \cup {p}
        <5>1. /\ q \in Range(d.opened) /\ q.order.side = side
              /\ q.level \div Step = p.level \div Step
          BY <3>1, <4>1 DEF Rung
        <5>2. q.bucket = p.bucket
          BY <2>2, <2>5, <5>1
        <5>3. QED
          BY <2>1, <2>2, <2>6, <5>1, <5>2 DEF OnLevel
      <4>3. T \subseteq S \cup {p}
        BY <4>2
      <4>4. Cardinality(T) <= Cardinality(S \cup {p}) /\ Cardinality(T) \in Nat
        BY <2>7, <4>3, FS_Subset, FS_CardinalityType
      <4>5. QED
        BY <2>7, <4>1, <4>4, ParamsAssumption
    <3>2. CASE ~(x.order.side = side /\ x.level \div Step = p.level \div Step)
      <4>1. x \in Range(b.opened)
        BY <2>1, <2>2, <3>2
      <4>2. Rung(d, x.order.side, x.level \div Step) = Rung(b, x.order.side, x.level \div Step)
        BY <2>1, <2>2, <3>2 DEF Rung
      <4>3. QED
        BY <4>1, <4>2 DEF Rungs
    <3>3. QED
      BY <3>1, <3>2
  <2>9. QED
    BY <2>4, <2>8 DEF Rungs
<1>3. QED
  BY <1>1, <1>2

LEMMA OpeningKeepsRungs ==
  ASSUME Step % 10 = 0, ShortLevels \cap Mids = {},
         NEW b, Whole(b), Rungs(b), NEW t \in Quotes, NEW c
  PROVE  Rungs(TryOpening(b, t, c))
<1>1. PICK b1 :
        /\ b1 = b \/ (MayOpen(b, "buy", t, c) /\ Adds(b, b1, "buy", t))
        /\ \/ TryOpening(b, t, c) = b1
           \/ MayOpen(b, "sell", t, c) /\ Adds(b1, TryOpening(b, t, c), "sell", t)
  BY Opening
<1>2. IsBook(b) /\ IsBook(b1)
  BY <1>1 DEF Adds, Whole
<1>3. Rungs(b1)
  BY <1>1, <1>2, AddingKeepsRungs DEF MayOpen
<1>4. OnLevel(b1, "sell", t) = OnLevel(b, "sell", t)
  <2>1. CASE b1.opened = b.opened
    BY <2>1 DEF OnLevel
  <2>2. CASE b1.opened # b.opened
    <3>1. PICK p \in Position : p.order.side = "buy" /\ b1.opened = Append(b.opened, p)
      BY <1>1, <2>2 DEF Adds
    <3>2. Range(b1.opened) = Range(b.opened) \cup {p}
      BY <1>2, <3>1, RangeOfAppend DEF IsBook
    <3>3. QED
      BY <3>1, <3>2 DEF OnLevel
  <2>3. QED
    BY <2>1, <2>2
<1>5. QED
  BY <1>1, <1>2, <1>3, <1>4, AddingKeepsRungs DEF MayOpen

\* trades_per_lvl holds for every rung when the cast in on_level cuts no level that a
\* price of the ticks has.
THEOREM LimitPerLevel ==
  ASSUME Step % 10 = 0, ShortLevels \cap Mids = {}
  PROVE  Spec => []LevelLimit
<1>1. Init => Rungs(Book)
  BY DEF Init, Book, Rungs, Range
<1>2. Inv /\ Rungs(Book) /\ [Next]_vars => Rungs(Book)'
  <2> SUFFICES ASSUME Inv, Rungs(Book), [Next]_vars PROVE Rungs(Book)'
    OBVIOUS
  <2>1. CASE UNCHANGED vars
    BY <2>1 DEF vars, Book, Rungs, Rung
  <2>2. CASE Next
    <3>1. PICK t \in Quotes : on_tick(t)
      BY <2>2, NextTick
    <3>2. PICK c : c = Compute(opened_orders_, t)
      OBVIOUS
    <3>3. PICK b, b2, b3, b4, d :
            /\ b = Book /\ b2 = TryOpening(b, t, c) /\ Fresh(b, b2, t, c)
            /\ Follows(b2, b3) /\ Follows(b3, b4) /\ Follows(b4, d) /\ Book' = d
      BY <3>1, <3>2, TickSteps DEF Inv
    <3>4. Whole(b) /\ Rungs(b)
      BY <3>3 DEF Inv
    <3>5. Rungs(b2)
      BY <3>3, <3>4, OpeningKeepsRungs
    <3>6. IsBook(b2) /\ Range(d.opened) \subseteq Range(b2.opened)
      BY <3>3 DEF Fresh, Whole, Follows, Shrinks
    <3>7. Rungs(d)
      BY <3>5, <3>6, ShrinkingKeepsRungs
    <3>8. QED
      BY <3>3, <3>7
  <2>3. QED
    BY <2>1, <2>2
<1>3. Rungs(Book) => LevelLimit
  BY DEF Rungs, Rung, Book, LevelLimit
<1>4. QED
  BY <1>1, <1>2, <1>3, Invariance, PTL DEF Spec
===============================================================================
