------------------------------- MODULE MCDraw -------------------------------
(* Constants for model checking Draw.                                      *)
EXTENDS Draw

Addresses == {"alice", "bob", "vault", "pool", "lps", "null"}
PaidInstead == [a \in Addresses |-> IF a = "vault" THEN "alice" ELSE a]

TokenLog(b, tx, from, to, n) ==
  [block |-> b, tx |-> tx, app |-> "none", hasFee |-> FALSE, volume |-> n,
   from |-> from, to |-> to]
AppLog(b, tx, app, n, hasFee) ==
  [block |-> b, tx |-> tx, app |-> app, hasFee |-> hasFee, volume |-> n,
   from |-> "alice", to |-> "pool"]

\* A swap, a send, a deposit in a vault of one's own, a mint and a swap of
\* other tokens, in one block.
SwapAndSends == <<
  TokenLog(1, 1, "alice", "pool", 1), AppLog(1, 1, "seawater", 1, TRUE),
  TokenLog(1, 2, "bob", "alice", 1), TokenLog(1, 3, "alice", "vault", 1),
  TokenLog(1, 4, "null", "bob", 1), AppLog(1, 5, "camelot", 1, FALSE) >>

\* A swap on another exchange, and one that its fee shows to be no swap.
Swaps == << TokenLog(1, 1, "alice", "pool", 1), AppLog(1, 1, "camelot", 1, TRUE),
            AppLog(1, 2, "camelot", 1, FALSE) >>

AllServices == Service
=============================================================================
