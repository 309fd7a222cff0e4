-------------------------- MODULE MCCandleStorage ---------------------------
(***************************************************************************)
(* Windows and files for TLC.  One candle is two ticks long: a window may  *)
(* begin or end within a candle, and a row of a file may lie there, with   *)
(* its low above its high.                                                 *)
(***************************************************************************)
EXTENDS CandleStorage

TwoWindows == {[start |-> 0, end |-> 2], [start |-> 1, end |-> 3]}

OneFile == {[t \in {0, 1} |-> [low |-> t + 1, high |-> 1]]}
=============================================================================
