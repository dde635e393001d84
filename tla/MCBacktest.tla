----------------------------- MODULE MCBacktest -----------------------------
(***************************************************************************)
(* Six ticks over five one-minute and two five-minute periods, with a    *)
(* minute of two ticks, a gap, and a high and a low inside a period.       *)
(***************************************************************************)
EXTENDS Backtest

T(time, bid) == [time |-> time, bid |-> bid]

MCData == <<T(6, 3), T(6, 1), T(7, 4), T(9, 2), T(11, 2), T(12, 3)>>

MCTimeFrames == <<1, 5>>
==============================================================================
