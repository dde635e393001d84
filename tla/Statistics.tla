------------------------------ MODULE Statistics ------------------------------
(***************************************************************************)
(* fx_engine::calc_closed_trades_stats: one pass over the closed orders.   *)
(***************************************************************************)
EXTENDS Orders, SequencesExt

NoStats == [profit |-> 0, wins |-> 0, loses |-> 0, wins_in_row |-> 0, max_wins |-> 0,
            loses_in_row |-> 0, max_loses |-> 0, lowest |-> 0, highest |-> 0]

\* mutant: a loss does not end a row of wins
CountStubbornly(st, o) ==
  LET pr  == Profit(o)
      sum == st.profit + pr
  IN IF pr >= 0
       THEN [st EXCEPT !.profit = sum, !.wins = @ + 1, !.loses_in_row = 0,
                       !.wins_in_row = @ + 1,
                       !.max_wins = IF st.wins_in_row + 1 > @ THEN st.wins_in_row + 1 ELSE @,
                       !.highest = IF sum > @ THEN sum ELSE @]
       ELSE [st EXCEPT !.profit = sum, !.loses = @ + 1,
                       !.loses_in_row = @ + 1,
                       !.max_loses = IF st.loses_in_row + 1 > @ THEN st.loses_in_row + 1 ELSE @,
                       !.lowest = IF sum < @ THEN sum ELSE @]

\* one turn of the loop
CountOrder(st, o) ==
  LET pr    == Profit(o)
      sum   == st.profit + pr
      wins  == IF pr >= 0 THEN st.wins_in_row + 1 ELSE 0
      loses == IF pr >= 0 THEN 0 ELSE st.loses_in_row + 1
  IN [profit       |-> sum,
      wins         |-> st.wins + IF pr >= 0 THEN 1 ELSE 0,
      loses        |-> st.loses + IF pr >= 0 THEN 0 ELSE 1,
      wins_in_row  |-> wins,
      max_wins     |-> IF wins > st.max_wins THEN wins ELSE st.max_wins,
      loses_in_row |-> loses,
      max_loses    |-> IF loses > st.max_loses THEN loses ELSE st.max_loses,
      lowest       |-> IF sum < st.lowest THEN sum ELSE st.lowest,
      highest      |-> IF sum > st.highest THEN sum ELSE st.highest]

ClosedStats(closed) ==
  LET st[n \in 0..Len(closed)] ==
        IF n = 0 THEN NoStats ELSE CountOrder(st[n - 1], closed[n])
  IN st[Len(closed)]

------------------------------------------------------------------------------
(* What the numbers mean, by definition                                    *)

Wins(closed) == {i \in DOMAIN closed : Profit(closed[i]) >= 0}

\* the balance after each order, and before the first
Balance(closed) ==
  LET balance[n \in 0..Len(closed)] ==
        IF n = 0 THEN 0 ELSE balance[n - 1] + Profit(closed[n])
  IN balance

Balances(closed) == Range(Balance(closed))

\* the longest stretch of positions that lies in a set
LongestRow(closed, S) ==
  Max({0} \cup {n \in 1..Len(closed) : \E i \in DOMAIN closed : i..(i + n - 1) \subseteq S})

Exact(st, closed) ==
  LET wins == Wins(closed)
  IN /\ st.wins = Cardinality(wins)
     /\ st.loses = Len(closed) - Cardinality(wins)
     /\ st.max_wins = LongestRow(closed, wins)
     /\ st.max_loses = LongestRow(closed, DOMAIN closed \ wins)
     /\ st.highest = Max(Balances(closed)) /\ st.lowest = Min(Balances(closed))
     /\ st.profit = Balance(closed)[Len(closed)]
===============================================================================
