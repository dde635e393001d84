--------------------------- MODULE MCTradingEngine ---------------------------
(***************************************************************************)
(* Two orders of any side, kind, price and stops, three prices and three   *)
(* ticks: enough for an order to be put into the pending list again after  *)
(* it was opened and after it was closed, next to one that still waits.    *)
(***************************************************************************)
EXTENDS TradingEngine, TLC

Symmetry == Permutations(OrderId)
==============================================================================
