------------------------------- MODULE MCSwap -------------------------------
(* An account that has 0.3 of a token and one that has 0.2, in units of a  *)
(* tenth.  "0.13" has a decimal too many.                                  *)
EXTENDS Swap

CONSTANT Rich

MCHolds == [w \in Account |-> IF w = Rich THEN [base |-> 3, fluid |-> 0] ELSE [base |-> 2, fluid |-> 0]]
MCTyped == {[whole |-> 0, digits |-> 13, places |-> 2]}
=============================================================================
