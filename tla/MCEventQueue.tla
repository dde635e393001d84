---------------------------- MODULE MCEventQueue ----------------------------
(***************************************************************************)
(* Instances of EventQueue for TLC.  Every event is pushed at most once,   *)
(* so the number of events bounds the behaviours: three events are enough  *)
(* for one to be pushed while another waits and a third executes.          *)
(* No symmetry: both runs check liveness.                                  *)
(***************************************************************************)
EXTENDS EventQueue

ASSUME BoundsAssumption == IsFiniteSet(Event) /\ IsFiniteSet(Workers)
=============================================================================
