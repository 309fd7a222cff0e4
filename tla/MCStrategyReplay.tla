-------------------------- MODULE MCStrategyReplay --------------------------
(***************************************************************************)
(* Configurations for TLC: the averages and the bands with a window that   *)
(* holds every bar and a warm restart, the bands with a short window and   *)
(* cold restarts, and the grid.                                            *)
(***************************************************************************)
EXTENDS StrategyReplay

Run(kind, lookback, warmup) == [kind |-> kind, lookback |-> lookback, warmup |-> warmup]

MCSetups == {Run("sma", 8, TRUE), Run("bollinger", 8, TRUE),
             Run("bollinger", 4, FALSE), Run("grid", 8, TRUE)}

MCMaxBars == [sma |-> 7, bollinger |-> 5, grid |-> 4]
=============================================================================
