--------------------------- MODULE MCLadderStrategy ---------------------------
(***************************************************************************)
(* Real EURUSD prices around the levels 1.31370 and 1.31400 of the ladder  *)
(* with the shipped step (30) and tolerance (10).  Stop loss and take      *)
(* profit are shortened so that the few prices reach them.  ShortMids and  *)
(* ShortLevels of the configurations are those of the prices in Mids for   *)
(* which the IEEE doubles are cut.                                         *)
(***************************************************************************)
EXTENDS LadderStrategy, FiniteSets

ASSUME MidsAssumption == IsFiniteSet(Mids) /\ ShortMids \subseteq Mids

===============================================================================
