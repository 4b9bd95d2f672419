---------------------------- MODULE AtLeastOnce ----------------------------
(***************************************************************************)
(* What the microservices rely on when they call queue.GetMessages and     *)
(* queue.SendMessage: every message routed to a worker id is handed to the *)
(* handler until the handler has returned once and the message is          *)
(* acknowledged, or the library gives the message up to the dead letter    *)
(* exchange.  It is deliberately silent on how often and by whom a handler *)
(* is run: that is what "at least once" leaves to the handlers.            *)
(***************************************************************************)
EXTENDS Naturals

CONSTANTS Worker,     \* the worker ids consuming the topic
          NMessages   \* the messages are 1..NMessages, in publication order

VARIABLES outcome,    \* what the broker knows of each message, per worker id
          completed   \* the messages whose handler has returned at least once

vars == <<outcome, completed>>

Message == 1..NMessages

Outcome == {"unrouted", "pending", "acked", "dead"}

Init ==
  /\ outcome = [w \in Worker |-> [m \in Message |-> "unrouted"]]
  /\ completed = [w \in Worker |-> {}]

\* A publication reaches the queues of some of the worker ids, once.
Route(m, W) ==
  /\ \A w \in Worker : outcome[w][m] = "unrouted"
  /\ outcome' = [w \in Worker |-> [outcome[w] EXCEPT ![m] = IF w \in W THEN "pending" ELSE @]]
  /\ UNCHANGED completed

Complete(w, m) ==
  /\ outcome[w][m] # "unrouted"
  /\ completed' = [completed EXCEPT ![w] = @ \cup {m}]
  /\ UNCHANGED outcome

Acknowledge(w, m) ==
  /\ outcome[w][m] = "pending"
  /\ m \in completed[w]
  /\ outcome' = [outcome EXCEPT ![w][m] = "acked"]
  /\ UNCHANGED completed

GiveUp(w, m) ==
  /\ outcome[w][m] = "pending"
  /\ outcome' = [outcome EXCEPT ![w][m] = "dead"]
  /\ UNCHANGED completed

Next ==
  \/ \E m \in Message, W \in SUBSET Worker : Route(m, W)
  \/ \E w \in Worker, m \in Message :
       Complete(w, m) \/ Acknowledge(w, m) \/ GiveUp(w, m)

Spec == Init /\ [][Next]_vars

=============================================================================
