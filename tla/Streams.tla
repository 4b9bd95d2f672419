------------------------------ MODULE Streams ------------------------------
(***************************************************************************)
(* The stream of notifications that the web server keeps for clients of    *)
(* its own (server.ts and drivers/): each subscription of a client listens *)
(* to the transfers of the fluid tokens on its chain, and watches the      *)
(* newest winner and the newest pending winner of its address.  A client   *)
(* that subscribes again stops the transfers it was told of before, and    *)
(* nothing else; one that leaves stops nothing.                            *)
(***************************************************************************)
EXTENDS Naturals, Sequences, FiniteSets

CONSTANTS
  Client, Address,
  MaxSubscriptions, MaxTransfers, MaxRows, MaxReconnects \* bounds

VARIABLES
  protocol,            \* the chain that the clients of a behaviour subscribe to
  here, registry,      \* the clients that are connected, their subscription to transfers
  subs,                \* the subscriptions: whose, on or off, and their listener
  transfers, notices,  \* the transfers, and the logs of Solana that are being read
  lastSignature,       \* of the Solana driver, for all of its subscriptions
  rows, reconnects,    \* the winners of each address; connections to the database that were renewed
  sent, sentRow        \* how often each client was told of a transfer; the row it was last told of

clients == <<here, registry, subs>>
chain == <<protocol, transfers, notices, lastSignature>>
database == <<rows, reconnects>>
vars == <<clients, chain, database, sent, sentRow>>

Subs == 1..Len(subs)
Transfers == 1..Len(transfers)

Init ==
  /\ protocol \in {"ethereum", "solana"}
  /\ here = Client /\ registry = [k \in Client |-> 0] /\ subs = <<>>
  /\ transfers = <<>> /\ notices = [d \in {} |-> 0] /\ lastSignature = 0
  /\ rows = [a \in Address |-> 0] /\ reconnects = 0
  /\ sent = [k \in Client |-> [t \in 1..MaxTransfers |-> 0]]
  /\ sentRow = [k \in Client |-> [a \in Address |-> 0]]

-----------------------------------------------------------------------------
(* The clients.                                                            *)

\* A subscription with its listener, and its watch, which has not emitted.
Subscription(k, a) ==
  [of |-> k, address |-> a, on |-> TRUE, listener |-> "up", seen |-> 0]

\* A bug to be caught: the subscription before goes on.
Replaced(k) == subs

\* The subscription of the client to transfers is stopped; its watches go on.
Stopped(k) ==
  [s \in Subs |-> IF s = registry[k] THEN [subs[s] EXCEPT !.on = FALSE] ELSE subs[s]]

Subscribe(k, a) ==
  /\ k \in here /\ Len(subs) < MaxSubscriptions
  /\ subs' = Append(Stopped(k), Subscription(k, a))
  /\ registry' = [registry EXCEPT ![k] = Len(subs) + 1]
  /\ UNCHANGED <<here, chain, database, sent, sentRow>>

\* registry.delete: what the client had goes on, and is sent to nobody.
Leave(k) ==
  /\ k \in here /\ here' = here \ {k} /\ registry' = [registry EXCEPT ![k] = 0]
  /\ UNCHANGED <<subs, chain, database, sent, sentRow>>

-----------------------------------------------------------------------------
(* The transfers.                                                          *)

Concerns(s, t) == subs[s].on /\ subs[s].address \in {transfers'[t].from, transfers'[t].to}

\* How many subscriptions of a client emit a transfer, of those that hear of it.
Emits(k, t, heard) ==
  IF k \in here THEN Cardinality({s \in heard : subs[s].of = k /\ Concerns(s, t)}) ELSE 0

Tell(t, heard) == sent' = [k \in Client |-> [sent[k] EXCEPT ![t] = @ + Emits(k, t, heard)]]

\* A transfer to another address, while somebody listens: an Ethereum node tells every listener of it, a Solana node tells
\* each of them twice, and the transaction is read each time.
Transfer(a, b) ==
  LET t == Len(transfers) + 1
      up == {s \in Subs : subs[s].listener = "up"}
  IN /\ t <= MaxTransfers /\ a # b /\ up # {} /\ transfers' = Append(transfers, [from |-> a, to |-> b])
     /\ IF protocol = "ethereum"
        THEN Tell(t, up) /\ UNCHANGED notices
        ELSE /\ notices' = [d \in DOMAIN notices \cup (up \X {t}) |-> IF d[2] = t THEN 2 ELSE notices[d]]
             /\ UNCHANGED sent
     /\ UNCHANGED <<clients, protocol, lastSignature, database, sentRow>>

\* The transaction of a log was read: it is dropped if it is the last one that any
\* subscription was sent of.
ReadLog(d) ==
  /\ d \in DOMAIN notices /\ notices[d] > 0
  /\ notices' = [notices EXCEPT ![d] = @ - 1]
  /\ lastSignature' = d[2]
  /\ transfers' = transfers
  /\ IF lastSignature = d[2] THEN sent' = sent ELSE Tell(d[2], {d[1]})
  /\ UNCHANGED <<clients, protocol, database, sentRow>>

\* It could not be read: the error has no handler, and the process ends.
ReadFails(d) ==
  /\ d \in DOMAIN notices /\ notices[d] > 0
  /\ here' = {} /\ registry' = [k \in Client |-> 0] /\ notices' = [e \in {} |-> 0] /\ lastSignature' = 0
  /\ subs' = [s \in Subs |-> [subs[s] EXCEPT !.on = FALSE, !.listener = "down", !.seen = rows[subs[s].address]]]
  /\ UNCHANGED <<protocol, transfers, database, sent, sentRow>>

\* The connection of an Ethereum listener fails; 5 seconds later an observable is
\* made in its place, which nobody subscribes to.
ListenerFails(s) ==
  /\ protocol = "ethereum" /\ subs[s].listener = "up"
  /\ subs' = [subs EXCEPT ![s].listener = "retrying"]
  /\ UNCHANGED <<here, registry, chain, database, sent, sentRow>>

Retry(s) ==
  /\ subs[s].listener = "retrying"
  /\ subs' = [subs EXCEPT ![s].listener = "down"]
  /\ UNCHANGED <<here, registry, chain, database, sent, sentRow>>

-----------------------------------------------------------------------------
(* The winners.                                                            *)

\* Another winner; to keep the states few, all wins are of one address.
Win(a) ==
  /\ \A b \in Address \ {a} : rows[b] = 0
  /\ rows[a] < MaxRows /\ rows' = [rows EXCEPT ![a] = @ + 1]
  /\ UNCHANGED <<clients, chain, reconnects, sent, sentRow>>

\* The row of the query: the newest, if there is one.
Newest(a) == rows[a]

\* The result of the query is another than the one that was sent: rows in between
\* are never seen.
Watch(s) ==
  LET a == subs[s].address IN
  /\ subs[s].seen # Newest(a)
  /\ subs' = [subs EXCEPT ![s].seen = Newest(a)]
  /\ sentRow' = IF subs[s].of \in here THEN [sentRow EXCEPT ![subs[s].of][a] = Newest(a)] ELSE sentRow
  /\ UNCHANGED <<here, registry, chain, database, sent>>

\* The connection to the database is renewed, and the query sent again.
Reconnect(s) ==
  /\ reconnects < MaxReconnects /\ reconnects' = reconnects + 1
  /\ subs[s].listener # "down" /\ subs' = [subs EXCEPT ![s].seen = 0]
  /\ UNCHANGED <<here, registry, chain, rows, sent, sentRow>>

-----------------------------------------------------------------------------
Next ==
  \/ \E k \in Client, a \in Address : Subscribe(k, a)
  \/ \E k \in Client : Leave(k)
  \/ \E a, b \in Address : Transfer(a, b)
  \/ \E d \in DOMAIN notices : ReadLog(d) \/ ReadFails(d)
  \/ \E s \in Subs : ListenerFails(s) \/ Retry(s) \/ Watch(s) \/ Reconnect(s)
  \/ \E a \in Address : Win(a)

\* The database sends results, and the timer of a listener fires.
Fairness == \A s \in 1..MaxSubscriptions : WF_vars(s \in Subs /\ Watch(s)) /\ WF_vars(s \in Subs /\ Retry(s))

Spec == Init /\ [][Next]_vars /\ Fairness

-----------------------------------------------------------------------------
(* Properties.                                                             *)

\* A client is told of a transfer on Ethereum at most once, however often it has
\* subscribed, also to an address it was subscribed to before.
ToldOnce == protocol = "ethereum" => \A k \in Client, t \in Transfers : sent[k][t] <= 1

\* A client that stays is told of the newest winner of an address it subscribed to,
\* also after the connection to the database was renewed.
Untold(s) ==
  s \in Subs /\ subs[s].of \in here /\ sentRow[subs[s].of][subs[s].address] # rows[subs[s].address]
=============================================================================
