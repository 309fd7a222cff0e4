-------------------------------- MODULE Sums --------------------------------
(***************************************************************************)
(* The sum of a function with natural values, as the number of its units.  *)
(* Counting units instead of folding keeps the sum within reach of the     *)
(* theorems on finite sets, which need no induction over the function.     *)
(***************************************************************************)
EXTENDS Integers, FiniteSets

\* One element per unit of each f[x].
Units(f) == UNION {{x} \X (1..f[x]) : x \in DOMAIN f}

Total(f) == Cardinality(Units(f))

=============================================================================
