------------------------------- MODULE Escrow -------------------------------
(***************************************************************************)
(* What the order ledger promises to whoever places an order: money set    *)
(* aside for an order is that order's alone.  It is taken from the free    *)
(* money once, when the order is placed; it can only be paid out for that  *)
(* order, bit by bit, or handed back in full to the currency it came from; *)
(* and an identifier is never given a second escrow.                       *)
(***************************************************************************)
EXTENDS Integers

CONSTANTS Currency, Id

VARIABLES
  free,      \* the free money of each currency
  escrow     \* the identifiers used so far -> [currency, amount]

vars == <<free, escrow>>

TypeOK ==
  /\ free \in [Currency -> Nat]
  /\ DOMAIN escrow \subseteq Id
  /\ escrow \in [DOMAIN escrow -> [currency : Currency, amount : Nat]]

Init ==
  /\ free = [c \in Currency |-> 0]
  /\ escrow = [i \in {} |-> 0]

\* Free money comes and goes by other means without touching an escrow.
Fund(c) ==
  /\ free'[c] \in Nat
  /\ free' = [free EXCEPT ![c] = free'[c]]
  /\ UNCHANGED escrow

Hold(i, c) ==
  /\ i \notin DOMAIN escrow
  /\ free'[c] \in 0..free[c]
  /\ free' = [free EXCEPT ![c] = free'[c]]
  /\ escrow' = [j \in DOMAIN escrow \cup {i} |->
                  IF j = i THEN [currency |-> c, amount |-> free[c] - free'[c]]
                  ELSE escrow[j]]

Pay(i) ==
  /\ i \in DOMAIN escrow
  /\ \E n \in 1..escrow[i].amount :
       escrow' = [escrow EXCEPT ![i].amount = @ - n]
  /\ UNCHANGED free

Return(i) ==
  /\ i \in DOMAIN escrow
  /\ escrow' = [escrow EXCEPT ![i].amount = 0]
  /\ free' = [free EXCEPT ![escrow[i].currency] = @ + escrow[i].amount]

Next ==
  \/ \E c \in Currency : Fund(c)
  \/ \E i \in Id : (\E c \in Currency : Hold(i, c)) \/ Pay(i) \/ Return(i)

Spec == Init /\ [][Next]_vars

=============================================================================
