--------------------------- MODULE MCFirstStrategy ---------------------------
(***************************************************************************)
(* Bids are even, the spread is one and the distance of the lines is odd,  *)
(* so that no price is exactly at a line, a stop or a take profit, where   *)
(* the rounding of the doubles would decide.                               *)
(***************************************************************************)
EXTENDS FirstStrategy

ASSUME NoTies ==
  /\ \A b \in Bids : b % 2 = 0
  /\ Spread % 2 = 1 /\ LinesDist % 4 = 1 /\ MinCandle % 2 = 1
==============================================================================
