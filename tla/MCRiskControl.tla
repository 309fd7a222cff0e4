---------------------------- MODULE MCRiskControl ----------------------------
(***************************************************************************)
(* A small instance of RiskControl: one engine of market orders alone, for *)
(* one symbol or two, or two engines of two processes (the live loop and a *)
(* command) over the same portfolio.                                       *)
(***************************************************************************)
EXTENDS RiskControl

CONSTANTS A, B, Shop, Limits, Cli, Live

TwoProcesses == [e \in Engine |-> IF e = Shop THEN Live ELSE Cli]

BadPrices == [buy |-> [p \in Price |-> p + 1], sell |-> [p \in Price |-> 1]]

OneOrTwo == {[engines |-> {Shop}, kinds |-> {"market"}, symbols |-> {A}, orders |-> 3],
             [engines |-> {Shop}, kinds |-> {"market"}, symbols |-> {A, B}, orders |-> 3],
             [engines |-> Engine, kinds |-> {"market", "limit"}, symbols |-> {A},
              orders |-> 2]}

=============================================================================
