-------------------------------- MODULE Sums --------------------------------
(* Sums of functions into the naturals, without recursion: a sum is the    *)
(* number of units, each paired with the argument it belongs to.           *)
EXTENDS Integers, FiniteSets

Units(f) == UNION {{x} \X (1..f[x]) : x \in DOMAIN f}

Sum(f) == Cardinality(Units(f))
=============================================================================
