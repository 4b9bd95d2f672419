------------------------------ MODULE Payouts ------------------------------
(***************************************************************************)
(* How a win becomes a payment on Ethereum: the spooler records winners    *)
(* and flushes them in batches, a daily release flushes what is left, the  *)
(* sender pays one batch at a time, the chain mines the payments and       *)
(* track-winners reports who was paid.  All of them share two tables and   *)
(* talk over the message queue, whose contract is AtLeastOnce.             *)
(*                                                                         *)
(* A win is one payout of a transfer, to its sender or to its recipient    *)
(* and of one utility: each has a row of its own in both tables, written   *)
(* one after the other, in the order of the announcement. One token is     *)
(* modelled: the tables are partitioned by token and network.              *)
(***************************************************************************)
EXTENDS Sums, Sequences

CONSTANTS
  Win,                \* the wins that the worker client announces
  TransferOf, Sending,\* the transfer of each, and those that are the sender's
  Account,            \* the winners
  NMessages, WinsIn,  \* announcement messages, and the wins listed in each
  BlockOf, WinnerOf, PrizeOf,        \* per win: its block, account and value in USD
  InstantThreshold, BatchThreshold,  \* the worker configuration
  Goroutine,          \* the spooler's goroutines for its queue
  DailyRelease,       \* whether the payout release is scheduled
  Quarantined,        \* accounts whose reward the token may block
  MayRevert,          \* whether a mined payment may have reverted
  MessageRetries,     \* of the queue library
  Mortal, MaxCrashes  \* bounds: the services that are killed, and how often

Message == 1..NMessages

ASSUME PayoutsAssumption ==
  /\ IsFiniteSet(Win) /\ NMessages \in Nat
  /\ WinsIn \in [Message -> Seq(Win) \ {<<>>}]
  /\ Sending \subseteq Win
  /\ BlockOf \in [Win -> Nat] /\ WinnerOf \in [Win -> Account] /\ PrizeOf \in [Win -> Nat]
  /\ InstantThreshold \in Nat /\ BatchThreshold \in Nat
  /\ DailyRelease \in BOOLEAN /\ MayRevert \in BOOLEAN
  /\ Quarantined \subseteq Account
  /\ MessageRetries \in Nat \ {0} /\ MaxCrashes \in Nat
  /\ Mortal \subseteq {"spooler", "release", "sender", "tracker"}

\* A win is an entry of an announcement: what is announced again is another.
ASSUME WinsAreAnnouncedOnce ==
  \A m, n \in Message : \A i \in DOMAIN WinsIn[m], j \in DOMAIN WinsIn[n] :
    WinsIn[m][i] = WinsIn[n][j] => m = n /\ i = j

\* An announcement lists the payouts of one transfer.
ASSUME TransfersAreTogether ==
  \A m \in Message : \A i, j \in DOMAIN WinsIn[m] : \A k \in i..j :
    TransferOf[WinsIn[m][i]] = TransferOf[WinsIn[m][j]] => TransferOf[WinsIn[m][k]] = TransferOf[WinsIn[m][i]]

VARIABLES
  inbox, attempts,  \* the spooler's queue: each message's state and deliveries
  spool,            \* the spooler's goroutines
  pending,          \* table of pending winners: each row's win, and reward_sent
  types,            \* table of pending reward types: rows per win
  told,             \* wins in the pending winners messages
  release,          \* rows the daily release has taken and not yet published
  batches,          \* the sender's queue: rows and state of each message
  sender,           \* the main loop of the sender
  txs,              \* payments submitted to the chain
  events, done,     \* logs of the token, and those that track-winners has handled
  tracker,          \* the log track-winners is working on
  reported,         \* winner messages per win
  crashes,          \* bounded by MaxCrashes
  restarted         \* history: the services that went down

spooler == <<inbox, attempts, spool>>
tables == <<pending, types>>
sending == <<batches, sender>>
tracking == <<done, tracker, reported>>
vars == <<spooler, tables, told, release, sending, txs, events, tracking, crashes, restarted>>

Idle == [pc |-> "idle", msg |-> 0, at |-> 0, typed |-> 0, toSend |-> FALSE, rows |-> {}]
Waiting == [pc |-> "idle", batch |-> 0, tx |-> 0]
NoEvent == [tx |-> 0, winner |-> "none", kind |-> "none"]
NoWins == [w \in Win |-> 0]
Resting == [event |-> NoEvent, left |-> NoWins]

Service == {"spooler", "release", "sender", "tracker"}
Row == DOMAIN pending
Event == [tx : Nat, winner : Account, kind : {"reward", "blocked", "unblocked"}]

TypeOK ==
  /\ inbox \in [Message -> {"ready", "unacked", "acked", "dead"}]
  /\ attempts \in [Message -> 0..MessageRetries]
  /\ \A g \in Goroutine :
       /\ spool[g].pc \in {"idle", "insert", "type", "weigh", "tell", "flush", "publish", "handled"}
       /\ spool[g].pc # "idle" => /\ spool[g].msg \in Message
                                  /\ spool[g].at \in DOMAIN WinsIn[spool[g].msg]
                                  /\ spool[g].typed \in 1..spool[g].at
       /\ spool[g].toSend \in BOOLEAN /\ spool[g].rows \subseteq Row
  /\ pending \in Seq([win : Win, sent : BOOLEAN])
  /\ types \in [Win -> Nat] /\ reported \in [Win -> Nat] /\ told \subseteq Win
  /\ release \subseteq Row
  /\ \A k \in DOMAIN batches : /\ batches[k].rows \in (SUBSET Row) \ {{}}
                               /\ batches[k].state \in {"ready", "handed", "acked"}
  /\ sender.pc \in {"idle", "call", "wait"}
  /\ sender.pc # "idle" => sender.batch \in DOMAIN batches
  /\ sender.pc = "wait" => sender.tx \in DOMAIN txs
  /\ \A t \in DOMAIN txs : /\ txs[t].batch \in DOMAIN batches
                           /\ txs[t].state \in {"pending", "mined", "reverted"}
                           /\ txs[t].blocked \subseteq Account
  /\ events \subseteq Event /\ done \subseteq events
  /\ tracker.event \in events \cup {NoEvent} /\ tracker.left \in [Win -> Nat]
  /\ crashes \in 0..MaxCrashes /\ restarted \subseteq Service

Init ==
  /\ inbox = [m \in Message |-> "ready"] /\ attempts = [m \in Message |-> 0]
  /\ spool = [g \in Goroutine |-> Idle]
  /\ pending = <<>> /\ types = NoWins /\ told = {} /\ release = {}
  /\ batches = <<>> /\ sender = Waiting /\ txs = <<>>
  /\ events = {} /\ done = {} /\ tracker = Resting /\ reported = NoWins
  /\ crashes = 0 /\ restarted = {}

-----------------------------------------------------------------------------
(* The table of pending winners.                                           *)

WinOf(r) == pending[r].win

Unsent == {r \in Row : ~pending[r].sent}

\* UPDATE ... SET reward_sent = true ... RETURNING: one statement, so the
\* rows it returns are no one else's.
SelectOnly(S) == UNCHANGED pending

MarkSent(S) ==
  pending' = [r \in Row |-> [pending[r] EXCEPT !.sent = @ \/ r \in S]]

UnpaidWinnings == Sum([r \in Unsent |-> PrizeOf[WinOf(r)]])

Enqueue(S) == batches' = Append(batches, [rows |-> S, state |-> "ready"])

-----------------------------------------------------------------------------
(* The spooler.                                                            *)

Ready == {m \in Message : inbox[m] = "ready"}
First(S) == CHOOSE x \in S : \A y \in S : x <= y

\* The win that a goroutine records next in the one table, and in the other.
Current(g) == WinsIn[spool[g].msg][spool[g].at]
Typing(g) == WinsIn[spool[g].msg][spool[g].typed]

\* The wins of the message that it has come to, and those of the announcement among them.
SoFar(g) == {WinsIn[spool[g].msg][i] : i \in 1..spool[g].at}
OfAnnouncement(g) == {w \in SoFar(g) : TransferOf[w] = TransferOf[Current(g)]}

IsLastOfList(g) == spool[g].at = Len(WinsIn[spool[g].msg])
IsLast(g) ==
  IsLastOfList(g) \/ TransferOf[WinsIn[spool[g].msg][spool[g].at + 1]] # TransferOf[Current(g)]

Goto(g, pc) == spool' = [spool EXCEPT ![g].pc = pc]

\* GetMessages: messages are delivered in order, or given up.
Receive(g) ==
  /\ spool[g].pc = "idle" /\ Ready # {}
  /\ LET m == First(Ready) IN
     /\ attempts' = [attempts EXCEPT ![m] = @ + 1]
     /\ \/ /\ attempts[m] + 1 < MessageRetries
           /\ inbox' = [inbox EXCEPT ![m] = "unacked"]
           /\ spool' = [spool EXCEPT ![g] = [Idle EXCEPT !.pc = "insert", !.msg = m, !.at = 1, !.typed = 1]]
        \/ /\ attempts[m] + 1 >= MessageRetries
           /\ inbox' = [inbox EXCEPT ![m] = "dead"]
           /\ UNCHANGED spool
  /\ UNCHANGED <<tables, told, release, sending, txs, events, tracking, crashes, restarted>>

\* One INSERT for each payout of the announcement ...
InsertPendingWinners(g) ==
  /\ spool[g].pc = "insert"
  /\ pending' = Append(pending, [win |-> Current(g), sent |-> FALSE])
  /\ spool' = [spool EXCEPT ![g].pc = IF IsLast(g) THEN "type" ELSE "insert",
                            ![g].at = IF IsLast(g) THEN @ ELSE @ + 1]
  /\ UNCHANGED <<inbox, attempts, types, told, release, sending, txs, events, tracking,
                 crashes, restarted>>

\* ... and then one for each in the other table.
InsertPendingRewardType(g) ==
  /\ spool[g].pc = "type"
  /\ types' = [types EXCEPT ![Typing(g)] = @ + 1]
  /\ LET last == spool[g].typed = spool[g].at IN
     spool' = [spool EXCEPT ![g].pc = IF last THEN "weigh" ELSE "type",
                            ![g].typed = IF last THEN @ ELSE @ + 1]
  /\ UNCHANGED <<inbox, attempts, pending, told, release, sending, txs, events, tracking,
                 crashes, restarted>>

\* Whether what the transfer won, or all that is unpaid, is worth a payment. What
\* the sender wins is counted for the transfer.
TotalWinAmount(g) == Sum([w \in OfAnnouncement(g) \cap Sending |-> PrizeOf[w]])
ReachesThreshold(g) == TotalWinAmount(g) > InstantThreshold \/ UnpaidWinnings > BatchThreshold

Weigh(g) ==
  /\ spool[g].pc = "weigh"
  /\ spool' = [spool EXCEPT ![g].pc = "tell", ![g].toSend = @ \/ ReachesThreshold(g)]
  /\ UNCHANGED <<inbox, attempts, tables, told, release, sending, txs, events, tracking,
                 crashes, restarted>>

\* The pending winners of the message so far are published after each announcement,
\* and the next is begun.
TellPending(g) ==
  /\ spool[g].pc = "tell"
  /\ told' = told \cup SoFar(g)
  /\ LET next == IF IsLastOfList(g) THEN spool[g].at ELSE spool[g].at + 1 IN
     spool' = [spool EXCEPT ![g].pc = IF IsLastOfList(g) THEN "flush" ELSE "insert",
                            ![g].at = next, ![g].typed = next]
  /\ UNCHANGED <<inbox, attempts, tables, release, sending, txs, events, tracking,
                 crashes, restarted>>

\* GetRewards: take every unsent row.
Flush(g) ==
  /\ spool[g].pc = "flush" /\ spool[g].toSend /\ Unsent # {}
  /\ MarkSent(Unsent)
  /\ spool' = [spool EXCEPT ![g].pc = "publish", ![g].rows = Unsent]
  /\ UNCHANGED <<inbox, attempts, types, told, release, sending, txs, events, tracking,
                 crashes, restarted>>

SkipFlush(g) ==
  /\ spool[g].pc = "flush" /\ ~spool[g].toSend
  /\ Goto(g, "handled")
  /\ UNCHANGED <<inbox, attempts, tables, told, release, sending, txs, events, tracking,
                 crashes, restarted>>

PublishBatch(g) ==
  /\ spool[g].pc = "publish"
  /\ Enqueue(spool[g].rows)
  /\ spool' = [spool EXCEPT ![g].pc = "handled", ![g].rows = {}]
  /\ UNCHANGED <<inbox, attempts, tables, told, release, sender, txs, events, tracking,
                 crashes, restarted>>

Ack(g) ==
  /\ spool[g].pc = "handled"
  /\ inbox' = [inbox EXCEPT ![spool[g].msg] = "acked"]
  /\ spool' = [spool EXCEPT ![g] = Idle]
  /\ UNCHANGED <<attempts, tables, told, release, sending, txs, events, tracking,
                 crashes, restarted>>

\* The process ends and is started again: unanswered messages come back.
SpoolerDown ==
  /\ inbox' = [m \in Message |-> IF inbox[m] = "unacked" THEN "ready" ELSE inbox[m]]
  /\ spool' = [g \in Goroutine |-> Idle]
  /\ restarted' = restarted \cup {"spooler"}
  /\ UNCHANGED <<attempts, tables, told, release, sending, txs, events, tracking>>

\* "Trying to send rewards for token %s but no rewards found!"
FlushFindsNothing(g) ==
  /\ spool[g].pc = "flush" /\ spool[g].toSend /\ Unsent = {}
  /\ SpoolerDown
  /\ UNCHANGED crashes

Spooler(g) ==
  \/ Receive(g) \/ InsertPendingWinners(g) \/ InsertPendingRewardType(g) \/ Weigh(g) \/ TellPending(g)
  \/ Flush(g) \/ SkipFlush(g) \/ PublishBatch(g) \/ Ack(g) \/ FlushFindsNothing(g)

-----------------------------------------------------------------------------
(* The daily payout release.                                               *)

Release ==
  /\ DailyRelease /\ release = {} /\ Unsent # {}
  /\ MarkSent(Unsent)
  /\ release' = Unsent
  /\ UNCHANGED <<spooler, types, told, sending, txs, events, tracking, crashes, restarted>>

PublishRelease ==
  /\ release # {}
  /\ Enqueue(release)
  /\ release' = {}
  /\ UNCHANGED <<spooler, tables, told, sender, txs, events, tracking, crashes, restarted>>

-----------------------------------------------------------------------------
(* The sender.                                                             *)

SetBatch(k, state) == batches' = [batches EXCEPT ![k].state = state]

\* A handler puts the batch on the unbuffered channel the main loop reads.
Hand ==
  /\ sender.pc = "idle"
  /\ \E k \in DOMAIN batches :
       /\ batches[k].state = "ready"
       /\ SetBatch(k, "handed")
       /\ sender' = [Waiting EXCEPT !.pc = "call", !.batch = k]
  /\ UNCHANGED <<spooler, tables, told, release, txs, events, tracking, crashes, restarted>>

\* The handler returns, and the library acknowledges the batch.
AckBatch(k) ==
  /\ batches[k].state = "handed"
  /\ SetBatch(k, "acked")
  /\ UNCHANGED <<spooler, tables, told, release, sender, txs, events, tracking, crashes,
                 restarted>>

\* callRewardFunction submits one transaction for the batch.
Call ==
  /\ sender.pc = "call"
  /\ txs' = Append(txs, [batch |-> sender.batch, state |-> "pending", blocked |-> {}])
  /\ sender' = [sender EXCEPT !.pc = "wait", !.tx = Len(txs) + 1]
  /\ UNCHANGED <<spooler, tables, told, release, batches, events, tracking, crashes, restarted>>

\* WaitMined returns a receipt, whose status nobody looks at.
RetryReverted ==
  /\ sender.pc = "wait" /\ txs[sender.tx].state # "pending"
  /\ sender' = IF txs[sender.tx].state = "mined" THEN Waiting ELSE [sender EXCEPT !.pc = "call"]
  /\ UNCHANGED <<spooler, tables, told, release, batches, txs, events, tracking, crashes,
                 restarted>>

Receipt ==
  /\ sender.pc = "wait" /\ txs[sender.tx].state # "pending"
  /\ sender' = Waiting
  /\ UNCHANGED <<spooler, tables, told, release, batches, txs, events, tracking, crashes,
                 restarted>>

-----------------------------------------------------------------------------
(* The chain.                                                              *)

RowsOf(t) == batches[txs[t].batch].rows
WinsOf(t) == {WinOf(r) : r \in RowsOf(t)}
WinnersOf(t) == {WinnerOf[w] : w \in WinsOf(t)}
Blocks(t) == {BlockOf[w] : w \in WinsOf(t)}

\* Executor.reward pays the whole batch or nothing; the token may block the
\* reward of some winners, and logs one event per winner.
Mine(t) ==
  /\ txs[t].state = "pending"
  /\ \E blocked \in SUBSET (Quarantined \cap WinnersOf(t)) :
       /\ txs' = [txs EXCEPT ![t].state = "mined", ![t].blocked = blocked]
       /\ events' = events \cup
            {[tx |-> t, winner |-> a, kind |-> IF a \in blocked THEN "blocked" ELSE "reward"] :
               a \in WinnersOf(t)}
  /\ UNCHANGED <<spooler, tables, told, release, sending, tracking, crashes, restarted>>

Revert(t) ==
  /\ MayRevert /\ txs[t].state = "pending"
  /\ txs' = [txs EXCEPT ![t].state = "reverted"]
  /\ UNCHANGED <<spooler, tables, told, release, sending, events, tracking, crashes, restarted>>

\* The operator pays out a blocked reward (microservice-ethereum-release-blocked-payout).
Unblock(e) ==
  /\ e.kind = "blocked" /\ e \in done
  /\ events' = events \cup {[e EXCEPT !.kind = "unblocked"]}
  /\ UNCHANGED <<spooler, tables, told, release, sending, txs, tracking, crashes, restarted>>

-----------------------------------------------------------------------------
(* track-winners.                                                          *)

\* Whether a pending reward type row is one the event is taken to pay.
AnyBlock(e, w) == WinnerOf[w] = e.winner

AfterFirst(e, w) ==
  /\ WinnerOf[w] = e.winner
  /\ \E lo, hi \in Blocks(e.tx) : lo < BlockOf[w] /\ BlockOf[w] <= hi

PaidBy(e, w) ==
  /\ WinnerOf[w] = e.winner
  /\ \E lo, hi \in Blocks(e.tx) : lo <= BlockOf[w] /\ BlockOf[w] <= hi

TrackBlocked ==
  /\ tracker = Resting
  /\ \E e \in events \ done : e.kind = "blocked" /\ done' = done \cup {e}
  /\ UNCHANGED <<spooler, tables, told, release, sending, txs, events, tracker, reported,
                 crashes, restarted>>

\* GetAndRemovePendingRewardData: DELETE ... RETURNING.
Remove(e) == [w \in Win |-> IF PaidBy(e, w) THEN 0 ELSE types[w]]

TrackReward ==
  /\ tracker = Resting
  /\ \E e \in events \ done :
       /\ e.kind \in {"reward", "unblocked"}
       /\ types' = Remove(e)
       /\ tracker' = [event |-> e,
                      left |-> [w \in Win |-> IF PaidBy(e, w) THEN types[w] ELSE 0]]
  /\ UNCHANGED <<spooler, pending, told, release, sending, txs, events, done, reported,
                 crashes, restarted>>

\* sendRewards publishes the winners one by one.
PublishWinner(w) ==
  /\ tracker.left[w] > 0
  /\ reported' = [reported EXCEPT ![w] = @ + 1]
  /\ tracker' = [tracker EXCEPT !.left[w] = @ - 1]
  /\ UNCHANGED <<spooler, tables, told, release, sending, txs, events, done, crashes, restarted>>

AckEvent ==
  /\ tracker # Resting /\ tracker.left = NoWins
  /\ done' = done \cup {tracker.event}
  /\ tracker' = Resting
  /\ UNCHANGED <<spooler, tables, told, release, sending, txs, events, reported, crashes,
                 restarted>>

-----------------------------------------------------------------------------
(* Failures.                                                               *)

Down(s) ==
  /\ s \in Mortal /\ crashes < MaxCrashes /\ crashes' = crashes + 1
  /\ s # "spooler" => restarted' = restarted \cup {s}

SpoolerCrash ==
  /\ \E g \in Goroutine : spool[g] # Idle
  /\ Down("spooler") /\ SpoolerDown

ReleaseCrash ==
  /\ release # {}
  /\ Down("release")
  /\ release' = {}
  /\ UNCHANGED <<spooler, tables, told, sending, txs, events, tracking>>

\* Batches that were not acknowledged are delivered again, the others are not.
Redelivered == [k \in DOMAIN batches |->
  IF batches[k].state = "handed" THEN [batches[k] EXCEPT !.state = "ready"] ELSE batches[k]]

\* The process is killed, an RPC call fails, or the payment is not mined
\* within five minutes: all end the process.
SenderCrash ==
  /\ sender.pc # "idle" \/ \E k \in DOMAIN batches : batches[k].state = "handed"
  /\ Down("sender")
  /\ batches' = Redelivered
  /\ sender' = Waiting
  /\ UNCHANGED <<spooler, tables, told, release, txs, events, tracking>>

TrackerCrash ==
  /\ tracker # Resting
  /\ Down("tracker")
  /\ tracker' = Resting
  /\ UNCHANGED <<spooler, tables, told, release, sending, txs, events, done, reported>>

-----------------------------------------------------------------------------

Sender == Hand \/ Call \/ Receipt \/ \E k \in DOMAIN batches : AckBatch(k)
Chain == \E t \in DOMAIN txs : Mine(t) \/ Revert(t)
Tracker == TrackBlocked \/ TrackReward \/ AckEvent \/ \E w \in Win : PublishWinner(w)

Next ==
  \/ \E g \in Goroutine : Spooler(g)
  \/ Release \/ PublishRelease
  \/ Sender \/ Chain \/ Tracker
  \/ \E e \in events : Unblock(e)
  \/ SpoolerCrash \/ ReleaseCrash \/ SenderCrash \/ TrackerCrash

Spec == Init /\ [][Next]_vars

\* Every process keeps running its handlers, the cron job comes every day and
\* the chain mines what it was sent.  Nothing makes an operator release a
\* blocked reward, and nothing is assumed of failures.
Fairness ==
  /\ \A g \in Goroutine : WF_vars(Spooler(g))
  /\ WF_vars(Release) /\ WF_vars(PublishRelease)
  /\ WF_vars(Sender)
  /\ WF_vars(Chain)
  /\ WF_vars(Tracker)

FairSpec == Spec /\ Fairness

-----------------------------------------------------------------------------
(* What the payout services promise.                                       *)

RowsHolding(w) == {r \in Row : WinOf(r) = w}

Submissions(r) == {t \in DOMAIN txs : r \in RowsOf(t)}

\* The payments of a row that reached its winner.
Payments(r) == {t \in Submissions(r) :
  /\ txs[t].state = "mined"
  /\ WinnerOf[WinOf(r)] \in txs[t].blocked =>
       [tx |-> t, winner |-> WinnerOf[WinOf(r)], kind |-> "unblocked"] \in events}

IsPaid(w) == \E r \in RowsHolding(w) : Payments(r) # {}

\* GetRewards: whoever flushes, goroutines and the daily release at once, a
\* row is part of a single batch and only once it is marked as sent.
RowInOneBatch ==
  LET holders == {<<"spooler", g>> : g \in Goroutine} \cup {<<"release", 0>>}
                   \cup {<<"batch", k>> : k \in DOMAIN batches}
      held(h) == CASE h[1] = "spooler" -> spool[h[2]].rows
                   [] h[1] = "release" -> release
                   [] OTHER -> batches[h[2]].rows
  IN  /\ \A h, i \in holders : h # i => held(h) \cap held(i) = {}
      /\ \A h \in holders : held(h) \cap Unsent = {}

\* Redelivery may record a win again, but never more than once for each
\* delivery of its announcement.
RecordedWithinDeliveries ==
  \A m \in Message : \A i \in DOMAIN WinsIn[m] :
    Cardinality(RowsHolding(WinsIn[m][i])) <= attempts[m]

\* A row is paid once; only a sender that went down before its batch was
\* acknowledged can submit it again, once for each time it went down.
SubmittedWithinCrashes ==
  \A r \in Row : /\ Cardinality(Submissions(r)) <= 1 + crashes
                 /\ "sender" \notin restarted => Cardinality(Submissions(r)) <= 1

\* A winner is paid more than once, or misses a row that was marked as sent,
\* only if the spooler, the release or the sender went down.
ExactlyOnceUnlessDown ==
  restarted \subseteq {"tracker"} =>
    \A w \in Win : /\ Cardinality(RowsHolding(w)) <= 1
                   /\ \A r \in RowsHolding(w) \ Unsent :
                        \/ \E g \in Goroutine : r \in spool[g].rows
                        \/ r \in release
                        \/ \E k \in DOMAIN batches : /\ r \in batches[k].rows
                                                     /\ \/ batches[k].state = "ready"
                                                        \/ sender.batch = k
                                                        \/ Submissions(r) # {}

\* Whoever flushes and whatever fails, a row is part of one batch, and a win
\* is paid twice or missed only if a service that pays went down
\* (GetRewards, InsertPendingWinners, the sender's acknowledgement).
PaidOnce == RowInOneBatch /\ ExactlyOnceUnlessDown

\* A winner message is only published for a win that was paid, although its
\* rows are found by winner and block range.
ReportedIsPaid == \A w \in Win : reported[w] > 0 => IsPaid(w)

\* A winner message is never published for a win that nobody was told of.
ReportedWasTold == \A w \in Win : reported[w] > 0 => w \in told

BlockedByToken(w) ==
  \E t \in DOMAIN txs : w \in WinsOf(t) /\ WinnerOf[w] \in txs[t].blocked

\* Every announced win is paid and reported in the end, or blocked by the
\* token.
EventuallyReported ==
  \A m \in Message : \A i \in DOMAIN WinsIn[m] :
    LET w == WinsIn[m][i] IN <>(BlockedByToken(w) \/ (IsPaid(w) /\ reported[w] > 0))

-----------------------------------------------------------------------------
(* What the code says of itself, and does not keep.                        *)

\* cmd/microservice-ethereum-worker-spooler/main.go:217 treats as an error
\* that there is nothing to flush when a threshold was reached.
FlushFindsRewards ==
  \A g \in Goroutine : spool[g].pc = "flush" /\ spool[g].toSend => Unsent # {}
=============================================================================
