-------------------------------- MODULE Draw --------------------------------
(***************************************************************************)
(* How a transfer on Ethereum comes to win: the application server finds   *)
(* the transfers in the logs of a block and decorates them, the worker     *)
(* server draws for each of them, and the worker client judges the draws   *)
(* and announces the wins to the spooler.  The services share nothing but  *)
(* their queues, whose contract is AtLeastOnce, and a table of the         *)
(* transfers that were drawn for, the failsafe.                            *)
(*                                                                         *)
(* A transfer has one draw, won or not: the normal payout and those of     *)
(* special utilities are announced and judged together.  Fees, emissions,  *)
(* moving averages and the probabilities are left out.                     *)
(***************************************************************************)
EXTENDS FiniteSets, Naturals, Sequences

CONSTANTS
  NBlocks,           \* blocks whose logs arrive
  NTransfers, Log,   \* transfer logs, in the order of their index
  Address, Null,     \* the addresses involved, and the zero address
  FeeSwitch,         \* the table of fee switches: who is paid in whose stead
  Seawater, AmmPool, \* the AMM application, and who gets its share
  Unsupported,       \* transactions whose type has no fee calculation
  Goroutines,        \* of each service
  MessageRetries,    \* of the queue library
  Mortal, MaxCrashes \* bounds: the services that are killed, and how often

Block == 1..NBlocks
Transfer == 1..NTransfers
Service == {"application-server", "worker-server", "worker-client"}

\* A log of the fluid token has application "none"; an application's log may
\* have nothing to do with the token, and then has no fee.
ASSUME DrawAssumption ==
  /\ NBlocks \in Nat /\ NTransfers \in Nat
  /\ Log \in [Transfer -> [block : Block, tx : Nat, app : STRING, hasFee : BOOLEAN,
                           volume : Nat, from : Address, to : Address]]
  /\ FeeSwitch \in [Address -> Address] /\ {Null, AmmPool} \subseteq Address
  /\ Unsupported \subseteq Nat
  /\ Goroutines \in Nat \ {0} /\ MessageRetries \in Nat \ {0}
  /\ Mortal \subseteq Service /\ MaxCrashes \in Nat

VARIABLES
  blocks,     \* the application server's queue, one message per block
  actions,    \* the transfers published as user actions, once or more
  work,       \* the worker server's queue of decorated blocks
  failsafe,   \* table: transfers that were drawn for
  announced,  \* the worker client's queue of the draws for a block
  won,        \* the spooler's queue of wins
  lpWins,     \* table: wins recorded for the liquidity providers of the AMM
  crashes,    \* bounded by MaxCrashes
  killed      \* history: the services that were killed

counters == <<crashes, killed>>
vars == <<blocks, actions, work, failsafe, announced, won, lpWins, counters>>

Draws == [transfer : Transfer, wins : BOOLEAN]

IsQueue(q, Contents) ==
  /\ q \in Seq([of : Contents, state : {"ready", "unacked", "sent", "acked", "dead"},
                attempts : 0..MessageRetries, left : SUBSET Transfer,
                drawn : SUBSET Draws])

TypeOK ==
  /\ IsQueue(blocks, Block) /\ actions \subseteq Transfer
  /\ IsQueue(work, Block) /\ failsafe \subseteq Transfer
  /\ IsQueue(announced, SUBSET Draws)
  /\ IsQueue(won, SUBSET Transfer) /\ lpWins \subseteq Transfer
  /\ crashes \in 0..MaxCrashes /\ killed \subseteq Service

-----------------------------------------------------------------------------
(* The queues.                                                             *)

\* A message, and how far the handler that has it is: "sent" means that it
\* published its results and returns, after which the library acknowledges.
Message(content, attempts) ==
  [of |-> content, state |-> "ready", attempts |-> attempts, left |-> {}, drawn |-> {}]

\* The library counts deliveries by the hash of the content: messages with the
\* same content share a counter, which the one that is settled resets.
Put(q, content) ==
  LET alike == {j \in DOMAIN q : q[j].of = content}
  IN  Append(q, Message(content, IF alike = {} THEN 0 ELSE q[CHOOSE j \in alike : TRUE].attempts))

Counted(q, k, n) ==
  [j \in DOMAIN q |-> [q[j] EXCEPT !.attempts = IF q[j].of = q[k].of THEN n ELSE @]]

Init ==
  /\ blocks = [b \in Block |-> Message(b, 0)] /\ actions = {}
  /\ work = <<>> /\ failsafe = {} /\ announced = <<>> /\ won = <<>> /\ lpWins = {}
  /\ crashes = 0 /\ killed = {}

InProgress(q) == {k \in DOMAIN q : q[k].state \in {"unacked", "sent"}}

\* Messages are given to a service in order, as long as it has a goroutine
\* for them.
Deliverable(q, k) ==
  /\ q[k].state = "ready"
  /\ \A j \in 1..k - 1 : q[j].state # "ready"
  /\ Cardinality(InProgress(q)) < Goroutines

\* GetMessages counts the delivery, and gives the message up or to the
\* handler, which finds transfers to go through.
Delivered(q, k, found, state) ==
  LET n == q[k].attempts + 1 IN
  IF n < MessageRetries
  THEN [Counted(q, k, n) EXCEPT ![k].state = state, ![k].left = found]
  ELSE [Counted(q, k, 0) EXCEPT ![k].state = "dead"]

Sent(q, k) == [q EXCEPT ![k].state = "sent", ![k].drawn = {}]

Acked(q, k) == [Counted(q, k, 0) EXCEPT ![k].state = "acked"]

\* The process is gone: what it had not acknowledged is delivered again.
Requeued(q) ==
  [k \in DOMAIN q |-> IF k \in InProgress(q)
                      THEN [q[k] EXCEPT !.state = "ready", !.left = {}, !.drawn = {}]
                      ELSE q[k]]

-----------------------------------------------------------------------------
(* What the services make of a transfer.                                   *)

OfApp(t) == Log[t].app # "none"

\* The transfers of a block that the application server passes on: those of
\* applications with a fee, and of the token unless it is minted or burnt.
Decorated(b) ==
  {t \in Transfer : /\ Log[t].block = b
                    /\ IF OfApp(t) THEN Log[t].hasFee ELSE Null \notin {Log[t].from, Log[t].to}}

\* The decorator of a token transfer gets the application of its
\* transaction's first transfer, that of an application transfer no volume.
Application(t) ==
  LET first == {u \in Decorated(Log[t].block) :
                  /\ OfApp(u) /\ Log[u].tx = Log[t].tx
                  /\ \A s \in Decorated(Log[t].block) :
                       OfApp(s) /\ Log[s].tx = Log[t].tx => u <= s}
  IN  IF OfApp(t) THEN Log[t].app
      ELSE IF first = {} THEN "none" ELSE Log[CHOOSE u \in first : TRUE].app

Volume(t) == IF OfApp(t) THEN 0 ELSE Log[t].volume

\* What the worker server does not draw for.
Ignored(t) ==
  \/ Log[t].tx \in Unsupported
  \/ Volume(t) = 0
  \/ FeeSwitch[Log[t].from] = FeeSwitch[Log[t].to]

\* Who is announced as the winners.
Parties(t) ==
  {FeeSwitch[Log[t].from],
   IF Application(t) = Seawater THEN AmmPool ELSE FeeSwitch[Log[t].to]}

\* The application in the announcement of a win: the worker client does not
\* fill it in.
WinApplication == "none"

-----------------------------------------------------------------------------
(* The application server.                                                 *)

ReceiveBlock(b) ==
  /\ Deliverable(blocks, b)
  /\ blocks' = Delivered(blocks, b, Decorated(blocks[b].of), "unacked")
  /\ UNCHANGED <<actions, work, failsafe, announced, won, lpWins, counters>>

\* Decorates a transfer and publishes it as a user action; applications first.
Decorate(b, t) ==
  /\ blocks[b].state = "unacked" /\ t \in blocks[b].left
  /\ ~OfApp(t) => \A u \in blocks[b].left : ~OfApp(u)
  /\ actions' = IF Null \in {Log[t].from, Log[t].to} THEN actions ELSE actions \cup {t}
  /\ blocks' = [blocks EXCEPT ![b].left = @ \ {t}]
  /\ UNCHANGED <<work, failsafe, announced, won, lpWins, counters>>

PublishHintedBlock(b) ==
  /\ blocks[b].state = "unacked" /\ blocks[b].left = {}
  /\ work' = Put(work, blocks[b].of)
  /\ blocks' = Sent(blocks, b)
  /\ UNCHANGED <<actions, failsafe, announced, won, lpWins, counters>>

AckBlock(b) ==
  /\ blocks[b].state = "sent"
  /\ blocks' = Acked(blocks, b)
  /\ UNCHANGED <<actions, work, failsafe, announced, won, lpWins, counters>>

ApplicationServer(b) ==
  \/ ReceiveBlock(b) \/ PublishHintedBlock(b) \/ AckBlock(b)
  \/ \E t \in Transfer : Decorate(b, t)

-----------------------------------------------------------------------------
(* The worker server.                                                      *)

\* A block without transfers is done with at once.
ReceiveWork(k) ==
  LET found == Decorated(work[k].of) IN
  /\ Deliverable(work, k)
  /\ work' = Delivered(work, k, found, IF found = {} THEN "sent" ELSE "unacked")
  /\ UNCHANGED <<blocks, actions, failsafe, announced, won, lpWins, counters>>

At(k, t) == work[k].state = "unacked" /\ t \in work[k].left

Skip(k, t) ==
  /\ At(k, t) /\ Ignored(t)
  /\ work' = [work EXCEPT ![k].left = @ \ {t}]
  /\ UNCHANGED <<blocks, actions, failsafe, announced, won, lpWins, counters>>

\* Commits the transfer to the failsafe and draws for it.
RedrawTransfer(k, t) ==
  /\ At(k, t) /\ ~Ignored(t)
  /\ failsafe' = failsafe \cup {t}
  /\ \E wins \in BOOLEAN :
       work' = [work EXCEPT ![k].left = @ \ {t},
                            ![k].drawn = @ \cup {[transfer |-> t, wins |-> wins]}]
  /\ UNCHANGED <<blocks, actions, announced, won, lpWins, counters>>

DrawTransfer(k, t) ==
  /\ At(k, t) /\ ~Ignored(t) /\ t \notin failsafe
  /\ failsafe' = failsafe \cup {t}
  /\ \E wins \in BOOLEAN :
       work' = [work EXCEPT ![k].left = @ \ {t},
                            ![k].drawn = @ \cup {[transfer |-> t, wins |-> wins]}]
  /\ UNCHANGED <<blocks, actions, announced, won, lpWins, counters>>

\* The transfer is in the failsafe already: log.Fatal ends the process, with
\* all its goroutines.
SkipDrawn(k, t) ==
  /\ At(k, t) /\ ~Ignored(t) /\ t \in failsafe
  /\ work' = [work EXCEPT ![k].left = @ \ {t}]
  /\ UNCHANGED <<blocks, actions, failsafe, announced, won, lpWins, counters>>

FailFailsafe(k, t) ==
  /\ At(k, t) /\ ~Ignored(t) /\ t \in failsafe
  /\ work' = Requeued(work)
  /\ UNCHANGED <<blocks, actions, failsafe, announced, won, lpWins, counters>>

PublishAnnouncements(k) ==
  /\ work[k].state = "unacked" /\ work[k].left = {}
  /\ announced' = Put(announced, work[k].drawn)
  /\ work' = Sent(work, k)
  /\ UNCHANGED <<blocks, actions, failsafe, won, lpWins, counters>>

AckWork(k) ==
  /\ work[k].state = "sent"
  /\ work' = Acked(work, k)
  /\ UNCHANGED <<blocks, actions, failsafe, announced, won, lpWins, counters>>

WorkerServer(k) ==
  \/ ReceiveWork(k) \/ PublishAnnouncements(k) \/ AckWork(k)
  \/ \E t \in Transfer : Skip(k, t) \/ DrawTransfer(k, t) \/ FailFailsafe(k, t)

-----------------------------------------------------------------------------
(* The worker client, and the spooler's branch for the AMM.                *)

ReceiveAnnouncements(k) ==
  /\ Deliverable(announced, k)
  /\ announced' = Delivered(announced, k, {}, "unacked")
  /\ UNCHANGED <<blocks, actions, work, failsafe, won, lpWins, counters>>

\* NaiveIsWinning on numbers that were drawn before: the same at any delivery.
Winners(draws) == {d.transfer : d \in {e \in draws : e.wins /\ Null \notin Parties(e.transfer)}}

JudgeWinners(k) ==
  /\ announced[k].state = "unacked" /\ Winners(announced[k].of) # {}
  /\ won' = Put(won, Winners(announced[k].of))
  /\ announced' = Sent(announced, k)
  /\ UNCHANGED <<blocks, actions, work, failsafe, lpWins, counters>>

ProcessAnnouncements(k) ==
  /\ announced[k].state = "unacked"
  /\ won' = IF Winners(announced[k].of) = {} THEN won
            ELSE Put(won, Winners(announced[k].of))
  /\ announced' = Sent(announced, k)
  /\ UNCHANGED <<blocks, actions, work, failsafe, lpWins, counters>>

AckAnnouncements(k) ==
  /\ announced[k].state = "sent"
  /\ announced' = Acked(announced, k)
  /\ UNCHANGED <<blocks, actions, work, failsafe, won, lpWins, counters>>

WorkerClient(k) ==
  ReceiveAnnouncements(k) \/ ProcessAnnouncements(k) \/ AckAnnouncements(k)

\* What the rest of the spooler does with a win is in Payouts.
InsertAmmWinnings(k) ==
  /\ won[k].state = "ready"
  /\ lpWins' = lpWins \cup {t \in won[k].of : WinApplication = Seawater}
  /\ won' = Acked(won, k)
  /\ UNCHANGED <<blocks, actions, work, failsafe, announced, counters>>

-----------------------------------------------------------------------------
(* Failures: a process is killed, or a call to the chain, a database or the *)
(* queue fails, which ends it as well.                                      *)

Down(s, queue) ==
  /\ s \in Mortal /\ InProgress(queue) # {}
  /\ crashes < MaxCrashes /\ crashes' = crashes + 1
  /\ killed' = killed \cup {s}

Crash ==
  /\ \/ /\ Down("application-server", blocks)
        /\ blocks' = Requeued(blocks) /\ UNCHANGED <<work, announced>>
     \/ /\ Down("worker-server", work)
        /\ work' = Requeued(work) /\ UNCHANGED <<blocks, announced>>
     \/ /\ Down("worker-client", announced)
        /\ announced' = Requeued(announced) /\ UNCHANGED <<blocks, work>>
  /\ UNCHANGED <<actions, failsafe, won, lpWins>>

-----------------------------------------------------------------------------

Services ==
  \/ \E b \in DOMAIN blocks : ApplicationServer(b)
  \/ \E k \in DOMAIN work : WorkerServer(k)
  \/ \E k \in DOMAIN announced : WorkerClient(k)
  \/ \E k \in DOMAIN won : InsertAmmWinnings(k)

Next == Services \/ Crash

Spec == Init /\ [][Next]_vars

\* Services do not all stop while one of them has a message to take or a
\* handler to run; deliveries are bounded, so that this is enough for each to
\* get its turn.  Nothing is assumed of failures.
Fairness == WF_vars(Services)

FairSpec == Spec /\ Fairness

-----------------------------------------------------------------------------
(* What the services promise.                                              *)

Transfers(draws) == {d.transfer : d \in draws}

Apart(D, E) == Transfers(D) \cap Transfers(E) = {}
Single(D) == \A d, e \in D : d.transfer = e.transfer => d = e

\* The failsafe: whatever is delivered again, to how many goroutines, a
\* transfer is never drawn for a second time with another outcome, by those
\* who hold draws in memory (work) or in what they announced.
DrawnOnce ==
  /\ \A j, k \in DOMAIN work : j # k => Apart(work[j].drawn, work[k].drawn)
  /\ \A j, k \in DOMAIN announced : j # k => Apart(announced[j].of, announced[k].of)
  /\ \A j \in DOMAIN work, k \in DOMAIN announced : Apart(work[j].drawn, announced[k].of)
  /\ \A k \in DOMAIN work : Single(work[k].drawn)
  /\ \A k \in DOMAIN announced : Single(announced[k].of)

\* A transfer of tokens that someone else receives, or is paid for.
Deserving(t) ==
  /\ ~OfApp(t) /\ Log[t].volume > 0 /\ Log[t].tx \notin Unsupported
  /\ Null \notin {Log[t].from, Log[t].to}
  /\ FeeSwitch[Log[t].from] # FeeSwitch[Log[t].to]

\* An announcement has the draws of all the transfers of a block that deserve
\* one, or of none: goroutines that have the same block do not split it.
WholeBlocks ==
  \A k \in DOMAIN announced : \E b \in Block :
    Transfers(announced[k].of) = {t \in Transfer : Deserving(t) /\ Log[t].block = b}

\* Nothing is drawn for before the transfer was published as a user action,
\* to which a win is matched later.
DrawnWasRecorded == failsafe \subseteq actions

\* An announcement has the draws of all the transfers of a block that deserve
\* one or of none, and nothing is drawn for before the user action that a win
\* is matched to was published (worker-server's failsafe, the order of
\* publishing in application-server).
WholeAndRecorded == TypeOK /\ WholeBlocks /\ DrawnWasRecorded

\* The wins of a transfer are announced again only because the worker client
\* went down, whatever happens to the services before it.
WonOnceUnlessKilled ==
  \A j, k \in DOMAIN won :
    j # k /\ won[j].of \cap won[k].of # {} => "worker-client" \in killed

\* Every transfer that deserves a draw is drawn for and judged, kills of the
\* worker client notwithstanding as long as they leave it a delivery; but not
\* when the application server or the worker server was killed: the failsafe
\* then refuses the block that is delivered again, or the one sent twice.
EventuallyJudged ==
  \A t \in Transfer : Deserving(t) =>
    <>(\/ killed \cap {"application-server", "worker-server"} # {}
       \/ crashes + 1 >= MessageRetries
       \/ \E k \in DOMAIN announced :
            t \in Transfers(announced[k].of) /\ announced[k].state = "acked")

-----------------------------------------------------------------------------
(* What the code says of itself, and does not keep.                        *)

\* cmd/microservice-ethereum-worker-server/main.go:502: "if the amount
\* transferred was exactly 0, then we skip to the next transfer"; other
\* transfers are skipped for their parties or their transaction's type only.
OnlyEmptySkipped ==
  [][\A k \in DOMAIN work : \A t \in Transfer : Skip(k, t) =>
       \/ Log[t].volume = 0
       \/ Log[t].tx \in Unsupported
       \/ FeeSwitch[Log[t].from] = FeeSwitch[Log[t].to]]_vars
=============================================================================
