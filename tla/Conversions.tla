---------------------------- MODULE Conversions ----------------------------
(***************************************************************************)
(* What the swap and transfer pages promise: an order to convert or send   *)
(* an amount is carried out at most once, for the amount that was ordered, *)
(* from what an account holds, or it is dropped.  A token and its fluid    *)
(* counterpart are worth the same; what leaves an account is gone.         *)
(***************************************************************************)
EXTENDS Integers

CONSTANTS Account, Order

VARIABLES order, held

Kind == {"wrap", "unwrap", "send"}
From(kind) == IF kind = "wrap" THEN "base" ELSE "fluid"

\* What an account has after an order of that kind.
After(has, kind, amount) ==
  CASE kind = "wrap"   -> [base |-> has.base - amount, fluid |-> has.fluid + amount]
    [] kind = "unwrap" -> [base |-> has.base + amount, fluid |-> has.fluid - amount]
    [] kind = "send"   -> [has EXCEPT !.fluid = @ - amount]

None == [state |-> "none"]
Over == [state |-> "over"]

Init ==
  /\ order = [i \in Order |-> None]
  /\ held \in [Account -> [base : Nat, fluid : Nat]]

Place(i) ==
  /\ order[i] = None
  /\ order'[i] \in [state : {"placed"}, kind : Kind, amount : Nat \ {0}]
  /\ order' = [order EXCEPT ![i] = order'[i]]
  /\ held' = held

Fill(i) ==
  /\ order[i].state = "placed"
  /\ \E w \in Account :
       /\ held[w][From(order[i].kind)] >= order[i].amount
       /\ held' = [held EXCEPT ![w] = After(@, order[i].kind, order[i].amount)]
  /\ order' = [order EXCEPT ![i] = Over]

Drop(i) ==
  /\ order[i].state = "placed"
  /\ order' = [order EXCEPT ![i] = Over]
  /\ held' = held

Next == \E i \in Order : Place(i) \/ Fill(i) \/ Drop(i)

Spec == Init /\ [][Next]_<<order, held>>
=============================================================================
