------------------------------- MODULE OrderBook -------------------------------
(***************************************************************************)
(* What a strategy and its engine owe to the owner of an account: an order *)
(* is open or closed, never both, and none is lost; it is opened once and  *)
(* closed once, at the prices of one tick each, on the side of the market  *)
(* it belongs to; and what was paid never changes afterwards.  How orders  *)
(* wait, which lists hold them and why they are closed is left open.       *)
(***************************************************************************)
EXTENDS Integers

CONSTANTS Order,   \* whatever identifies an order
          Quote,   \* the ticks: records with bid and ask
          None     \* no price

VARIABLES quote,   \* the last tick
          held,    \* the orders that are open
          done,    \* the orders that are closed
          deal     \* deal[o]: its side, and the prices paid

bookvars == <<quote, held, done, deal>>

NoDeal == [side |-> "none", open |-> None, close |-> None]

\* tick_data()
NoQuote == [bid |-> 0, ask |-> 0]

Init == quote = NoQuote /\ held = {} /\ done = {} /\ deal = [o \in Order |-> NoDeal]

\* the prices a side is opened and closed at
Opening(side, q) == IF side = "buy" THEN q.ask ELSE q.bid
Closing(side, q) == IF side = "buy" THEN q.bid ELSE q.ask

Untouched(o) ==
  /\ o \in held' <=> o \in held
  /\ o \in done' <=> o \in done
  /\ deal'[o] = deal[o]

Opens(o, q) ==
  /\ o \notin held \cup done
  /\ o \in held' /\ o \notin done'
  /\ \E s \in {"buy", "sell"} :
       deal'[o] = [side |-> s, open |-> Opening(s, q), close |-> None]

Closes(o, q) ==
  /\ o \in held
  /\ o \notin held' /\ o \in done'
  /\ deal'[o] = [deal[o] EXCEPT !.close = Closing(deal[o].side, q)]

\* opened by a tick that reaches its stop loss or take profit already
OpensAndCloses(o, q) ==
  /\ o \notin held \cup done
  /\ o \notin held' /\ o \in done'
  /\ \E s \in {"buy", "sell"} :
       deal'[o] = [side |-> s, open |-> Opening(s, q), close |-> Closing(s, q)]

Trade(q) ==
  /\ quote' = q
  /\ held' \subseteq Order /\ done' \subseteq Order /\ DOMAIN deal' = Order
  /\ \A o \in Order :
       Untouched(o) \/ Opens(o, q) \/ Closes(o, q) \/ OpensAndCloses(o, q)

Next == \E q \in Quote : Trade(q)

Spec == Init /\ [][Next]_bookvars

------------------------------------------------------------------------------
\* Every order is in one place, and what it was dealt at says which.
Consistent ==
  /\ held \cap done = {}
  /\ held \cup done \subseteq Order
  /\ \A o \in Order :
       /\ o \in held \cup done <=> deal[o].open # None
       /\ o \in done <=> deal[o].close # None

\* What was paid for an order never changes: the opening of one that was opened, the
\* closing of one that was closed.
PaidOnce ==
  [][\A o \in Order :
       /\ deal[o].open # None => deal'[o].open = deal[o].open
       /\ deal[o].close # None => deal'[o].close = deal[o].close]_bookvars
===============================================================================
