----------------------------- MODULE DrawProofs -----------------------------
(***************************************************************************)
(* Type correctness of Draw, that no transfer is drawn for twice, that     *)
(* announcements are of whole blocks and that wins are sent once, for any  *)
(* blocks, any number of goroutines and any crashes.  IInv adds to the     *)
(* first two that every transfer somebody holds a draw of is in the        *)
(* failsafe: a draw is only made for a transfer outside of it.  Recorded   *)
(* and Whole say how far a handler is with its block; JudgedOnce says      *)
(* which announcements the wins are of.                                    *)
(***************************************************************************)
EXTENDS Draw, TLAPS

Committed ==
  /\ \A k \in DOMAIN work : Transfers(work[k].drawn) \subseteq failsafe
  /\ \A k \in DOMAIN announced : Transfers(announced[k].of) \subseteq failsafe

IInv == TypeOK /\ DrawnOnce /\ Committed

Entries(Contents) ==
  [of : Contents, state : {"ready", "unacked", "sent", "acked", "dead"},
   attempts : 0..MessageRetries, left : SUBSET Transfer, drawn : SUBSET Draws]

-----------------------------------------------------------------------------
(* What the operations of the library do to a queue.                       *)

\* A queue whose entries are each replaced by an entry is a queue.
LEMMA QueueMapped ==
  ASSUME NEW C, NEW q, IsQueue(q, C), NEW r, DOMAIN r = DOMAIN q,
         r = [j \in DOMAIN q |-> r[j]], \A j \in DOMAIN q : r[j] \in Entries(C)
  PROVE  IsQueue(r, C)
<1>1. q \in Seq(Entries(C)) /\ DOMAIN q = 1..Len(q) /\ Len(q) \in Nat
  BY DEF IsQueue, Entries
<1>2. r \in [1..Len(q) -> Entries(C)]
  BY <1>1
<1>3. r \in Seq(Entries(C))
  BY <1>1, <1>2
<1> QED BY <1>3 DEF IsQueue, Entries

\* The messages of a queue are entries.
LEMMA QueueEntry ==
  ASSUME NEW C, NEW q, IsQueue(q, C), NEW j \in DOMAIN q
  PROVE  q[j] \in Entries(C)
<1>1. q \in Seq(Entries(C))
  BY DEF IsQueue, Entries
<1> QED BY <1>1

\* Put appends a message without draws.
LEMMA QueuePut ==
  ASSUME NEW C, NEW q, IsQueue(q, C), NEW c \in C
  PROVE  /\ IsQueue(Put(q, c), C)
         /\ DOMAIN q = 1..Len(q) /\ DOMAIN Put(q, c) = 1..Len(q) + 1 /\ Len(q) \in Nat
         /\ \A j \in DOMAIN q : Put(q, c)[j] = q[j]
         /\ Put(q, c)[Len(q) + 1].drawn = {} /\ Put(q, c)[Len(q) + 1].of = c
<1> DEFINE alike == {j \in DOMAIN q : q[j].of = c}
           n == IF alike = {} THEN 0 ELSE q[CHOOSE j \in alike : TRUE].attempts
<1>1. q \in Seq(Entries(C))
  BY DEF IsQueue, Entries
<1>2. n \in 0..MessageRetries
  <2>1. CASE alike = {}
    BY <2>1, DrawAssumption
  <2>2. CASE alike # {}
    <3>1. (CHOOSE j \in alike : TRUE) \in DOMAIN q
      BY <2>2
    <3> QED BY <2>2, <3>1, QueueEntry DEF Entries
  <2> QED BY <2>1, <2>2
<1>3. Put(q, c) = Append(q, Message(c, n))
  BY DEF Put
<1> HIDE DEF n
<1>4. /\ Message(c, n) \in Entries(C)
      /\ Message(c, n).drawn = {} /\ Message(c, n).of = c
  BY <1>2 DEF Message, Entries
<1> HIDE DEF Entries
<1> QED
  <2>1. Put(q, c) \in Seq(Entries(C))
    BY <1>1, <1>3, <1>4
  <2>2. IsQueue(Put(q, c), C)
    BY <2>1 DEF IsQueue, Entries
  <2> QED BY <1>1, <1>3, <1>4, <2>2

\* What a step does to a queue when it neither adds draws nor contents.
Kept(q, r) ==
  /\ DOMAIN r = DOMAIN q
  /\ \A j \in DOMAIN q : r[j].of = q[j].of /\ r[j].drawn \in {q[j].drawn, {}}

\* Counting a delivery changes a counter.
LEMMA QueueCounted ==
  ASSUME NEW C, NEW q, IsQueue(q, C), NEW k \in DOMAIN q, NEW n \in 0..MessageRetries
  PROVE  \A j \in DOMAIN q : /\ Counted(q, k, n)[j] \in Entries(C)
                            /\ Counted(q, k, n)[j].of = q[j].of
                            /\ Counted(q, k, n)[j].drawn = q[j].drawn
<1> TAKE j \in DOMAIN q
<1> DEFINE m == IF q[j].of = q[k].of THEN n ELSE q[j].attempts
<1>1. q[j] \in Entries(C)
  BY QueueEntry
<1>2. Counted(q, k, n)[j] = [q[j] EXCEPT !.attempts = m]
  BY DEF Counted
<1>3. m \in 0..MessageRetries
  BY <1>1 DEF Entries
<1> HIDE DEF m
<1> QED BY <1>1, <1>2, <1>3 DEF Entries

\* A delivery keeps a queue a queue, and adds neither draws nor contents.
LEMMA QueueDelivered ==
  ASSUME NEW C, NEW q, IsQueue(q, C), NEW k \in DOMAIN q, NEW found \in SUBSET Transfer,
         NEW state \in {"unacked", "sent"}
  PROVE  IsQueue(Delivered(q, k, found, state), C) /\ Kept(q, Delivered(q, k, found, state))
<1> DEFINE n == q[k].attempts + 1
           r == Delivered(q, k, found, state)
<1>1. \A j \in DOMAIN q : q[j] \in Entries(C)
  BY QueueEntry
<1>2. CASE n < MessageRetries
  <2>1. r = [Counted(q, k, n) EXCEPT ![k].state = state, ![k].left = found]
    BY <1>2 DEF Delivered
  <2>2. n \in 0..MessageRetries
    BY <1>1, <1>2, DrawAssumption DEF Entries
  <2>3. DOMAIN r = DOMAIN q /\ r = [j \in DOMAIN q |-> r[j]]
    BY <2>1 DEF Counted
  <2>4. \A j \in DOMAIN q : r[j] \in Entries(C) /\ r[j].of = q[j].of /\ r[j].drawn = q[j].drawn
    <3> TAKE j \in DOMAIN q
    <3> DEFINE c == Counted(q, k, n)[j]
    <3>1. r[j] = IF j = k THEN [[c EXCEPT !.state = state] EXCEPT !.left = found] ELSE c
      BY <2>1 DEF Counted
    <3>2. c \in Entries(C) /\ c.of = q[j].of /\ c.drawn = q[j].drawn
      BY <2>2, QueueCounted
    <3> HIDE DEF c, r
    <3> QED BY <3>1, <3>2 DEF Entries
  <2> QED BY <2>3, <2>4, QueueMapped DEF Kept
<1>3. CASE ~(n < MessageRetries)
  <2>1. r = [Counted(q, k, 0) EXCEPT ![k].state = "dead"]
    BY <1>3 DEF Delivered
  <2>2. DOMAIN r = DOMAIN q /\ r = [j \in DOMAIN q |-> r[j]]
    BY <2>1 DEF Counted
  <2>3. \A j \in DOMAIN q : r[j] \in Entries(C) /\ r[j].of = q[j].of /\ r[j].drawn = q[j].drawn
    <3> TAKE j \in DOMAIN q
    <3> DEFINE c == Counted(q, k, 0)[j]
    <3>1. r[j] = IF j = k THEN [c EXCEPT !.state = "dead"] ELSE c
      BY <2>1 DEF Counted
    <3>2. c \in Entries(C) /\ c.of = q[j].of /\ c.drawn = q[j].drawn
      BY QueueCounted, DrawAssumption
    <3> HIDE DEF c, r
    <3> QED BY <3>1, <3>2 DEF Entries
  <2> QED BY <2>2, <2>3, QueueMapped DEF Kept
<1> QED BY <1>2, <1>3

\* So does the end of a handler, which forgets the draws it held.
LEMMA QueueSent ==
  ASSUME NEW C, NEW q, IsQueue(q, C), NEW k \in DOMAIN q
  PROVE  IsQueue(Sent(q, k), C) /\ Kept(q, Sent(q, k)) /\ Sent(q, k)[k].drawn = {}
<1>1. \A j \in DOMAIN q : q[j] \in Entries(C)
  BY QueueEntry
<1>2. DOMAIN Sent(q, k) = DOMAIN q /\ Sent(q, k) = [j \in DOMAIN q |-> Sent(q, k)[j]]
  BY DEF Sent
<1>3. /\ \A j \in DOMAIN q : /\ Sent(q, k)[j] \in Entries(C) /\ Sent(q, k)[j].of = q[j].of
                             /\ Sent(q, k)[j].drawn \in {q[j].drawn, {}}
      /\ Sent(q, k)[k].drawn = {}
  BY <1>1 DEF Sent, Entries
<1> QED BY <1>2, <1>3, QueueMapped DEF Kept

\* So does an acknowledgement.
LEMMA QueueAcked ==
  ASSUME NEW C, NEW q, IsQueue(q, C), NEW k \in DOMAIN q
  PROVE  IsQueue(Acked(q, k), C) /\ Kept(q, Acked(q, k))
<1>2. DOMAIN Acked(q, k) = DOMAIN q /\ Acked(q, k) = [j \in DOMAIN q |-> Acked(q, k)[j]]
  BY DEF Acked, Counted
<1>3. \A j \in DOMAIN q : /\ Acked(q, k)[j] \in Entries(C) /\ Acked(q, k)[j].of = q[j].of
                          /\ Acked(q, k)[j].drawn = q[j].drawn
  <2> TAKE j \in DOMAIN q
  <2> DEFINE c == Counted(q, k, 0)[j]
             r == Acked(q, k)[j]
  <2>1. r = IF j = k THEN [c EXCEPT !.state = "acked"] ELSE c
    BY DEF Acked, Counted
  <2>2. c \in Entries(C) /\ c.of = q[j].of /\ c.drawn = q[j].drawn
    BY QueueCounted, DrawAssumption
  <2> HIDE DEF c, r
  <2>3. r \in Entries(C) /\ r.of = q[j].of /\ r.drawn = q[j].drawn
    BY <2>1, <2>2 DEF Entries
  <2> QED BY <2>3 DEF r
<1> QED BY <1>2, <1>3, QueueMapped DEF Kept

\* So does the end of the process.
LEMMA QueueRequeued ==
  ASSUME NEW C, NEW q, IsQueue(q, C)
  PROVE  IsQueue(Requeued(q), C) /\ Kept(q, Requeued(q))
<1>1. \A j \in DOMAIN q : q[j] \in Entries(C)
  BY QueueEntry
<1>2. DOMAIN Requeued(q) = DOMAIN q /\ Requeued(q) = [j \in DOMAIN q |-> Requeued(q)[j]]
  BY DEF Requeued
<1>3. \A j \in DOMAIN q : /\ Requeued(q)[j] \in Entries(C) /\ Requeued(q)[j].of = q[j].of
                          /\ Requeued(q)[j].drawn \in {q[j].drawn, {}}
  BY <1>1 DEF Requeued, Entries
<1> QED BY <1>2, <1>3, QueueMapped DEF Kept

-----------------------------------------------------------------------------
(* What the steps do to the draws.                                         *)

\* No handler holds draws that it did not hold before.
NoneAdded(q, r) ==
  \A k \in DOMAIN r : r[k].drawn = {} \/ (k \in DOMAIN q /\ r[k].drawn = q[k].drawn)

SameContents(q, r) == DOMAIN r = DOMAIN q /\ \A k \in DOMAIN q : r[k].of = q[k].of

\* Without new draws, none is a second one.
LEMMA NoNewDraws ==
  ASSUME DrawnOnce, Committed, NoneAdded(work, work'), SameContents(announced, announced'),
         failsafe' = failsafe
  PROVE  DrawnOnce' /\ Committed'
<1> USE DEF NoneAdded, SameContents, Apart, Single, Transfers
<1>1. \A j, k \in DOMAIN work' : j # k => Apart(work'[j].drawn, work'[k].drawn)
  BY DEF DrawnOnce
<1>2. \A j, k \in DOMAIN announced' : j # k => Apart(announced'[j].of, announced'[k].of)
  BY DEF DrawnOnce
<1>3. \A j \in DOMAIN work', k \in DOMAIN announced' : Apart(work'[j].drawn, announced'[k].of)
  BY DEF DrawnOnce
<1>4. /\ \A k \in DOMAIN work' : Single(work'[k].drawn)
      /\ \A k \in DOMAIN announced' : Single(announced'[k].of)
  BY DEF DrawnOnce
<1>5. Committed'
  BY DEF Committed
<1> QED BY <1>1, <1>2, <1>3, <1>4, <1>5 DEF DrawnOnce

\* The operations of the library add no draws.
LEMMA KeptAddsNone ==
  ASSUME NEW q, NEW r, Kept(q, r)
  PROVE  NoneAdded(q, r) /\ SameContents(q, r)
BY DEF Kept, NoneAdded, SameContents

\* The application server passes on transfers.
LEMMA DecoratedType == ASSUME NEW b  PROVE Decorated(b) \in SUBSET Transfer
BY DEF Decorated

\* A draw is for a transfer that nobody holds a draw of.
LEMMA StepDraw ==
  ASSUME IInv, NEW k \in DOMAIN work, NEW t \in Transfer, DrawTransfer(k, t)
  PROVE  IInv'
<1>1. PICK wins \in BOOLEAN :
        work' = [work EXCEPT ![k].left = @ \ {t},
                             ![k].drawn = @ \cup {[transfer |-> t, wins |-> wins]}]
  BY DEF DrawTransfer
<1>2. t \notin failsafe /\ failsafe' = failsafe \cup {t} /\ announced' = announced
  BY DEF DrawTransfer
<1> DEFINE d == [transfer |-> t, wins |-> wins]
<1>3. d \in Draws /\ d.transfer = t
  BY DEF Draws
<1>4. IsQueue(work, Block)
  BY DEF IInv, TypeOK
<1>5. \A j \in DOMAIN work : work[j] \in Entries(Block)
  BY <1>4, QueueEntry
<1> HIDE DEF d
<1>6. DOMAIN work' = DOMAIN work /\ work' = [j \in DOMAIN work |-> work'[j]]
  BY <1>1
<1>7. \A j \in DOMAIN work : j # k => work'[j] = work[j]
  BY <1>1
<1>9. work'[k] \in Entries(Block) /\ work'[k].drawn = work[k].drawn \cup {d}
  <2> DEFINE m == work[k]
             r == work'[k]
  <2>1. r = [[m EXCEPT !.left = m.left \ {t}] EXCEPT !.drawn = m.drawn \cup {d}]
    BY <1>1 DEF d
  <2>2. m \in Entries(Block)
    BY <1>5
  <2> HIDE DEF m, r
  <2>3. r \in Entries(Block) /\ r.drawn = m.drawn \cup {d}
    BY <1>3, <2>1, <2>2 DEF Entries
  <2> QED BY <2>3 DEF m, r
<1>10. TypeOK'
  <2>1. IsQueue(work', Block)
    BY <1>4, <1>5, <1>6, <1>7, <1>9, QueueMapped
  <2> QED BY <1>2, <2>1 DEF IInv, TypeOK, DrawTransfer, counters
<1>11. Transfers(work'[k].drawn) = Transfers(work[k].drawn) \cup {t}
  BY <1>3, <1>9 DEF Transfers
<1>12. Committed'
  BY <1>2, <1>6, <1>7, <1>11 DEF IInv, Committed
<1>13. \A j \in DOMAIN work : t \notin Transfers(work[j].drawn)
  BY <1>2 DEF IInv, Committed
<1>14. \A j \in DOMAIN announced : t \notin Transfers(announced[j].of)
  BY <1>2 DEF IInv, Committed
<1>15. Single(work'[k].drawn)
  <2>1. Single(work[k].drawn)
    BY DEF IInv, DrawnOnce
  <2>2. \A e \in work[k].drawn : e.transfer # t
    BY <1>13 DEF Transfers
  <2> QED BY <1>3, <1>9, <2>1, <2>2 DEF Single
<1>16. DrawnOnce'
  <2>1. \A i, j \in DOMAIN work' : i # j => Apart(work'[i].drawn, work'[j].drawn)
    BY <1>6, <1>7, <1>11, <1>13 DEF IInv, DrawnOnce, Apart
  <2>2. \A i \in DOMAIN work', j \in DOMAIN announced' : Apart(work'[i].drawn, announced'[j].of)
    BY <1>2, <1>6, <1>7, <1>11, <1>14 DEF IInv, DrawnOnce, Apart
  <2>3. \A i \in DOMAIN work' : Single(work'[i].drawn)
    BY <1>6, <1>7, <1>15 DEF IInv, DrawnOnce
  <2> QED BY <1>2, <2>1, <2>2, <2>3 DEF IInv, DrawnOnce
<1> QED BY <1>10, <1>12, <1>16 DEF IInv

\* What was announced is what the handler held, which it holds no more.
LEMMA StepPublish ==
  ASSUME IInv, NEW k \in DOMAIN work, PublishAnnouncements(k)
  PROVE  IInv'
<1> DEFINE D == work[k].drawn
           n == Len(announced)
<1>1. /\ announced' = Put(announced, D) /\ work' = Sent(work, k) /\ failsafe' = failsafe
  BY DEF PublishAnnouncements
<1>2. IsQueue(work, Block) /\ IsQueue(announced, SUBSET Draws)
  BY DEF IInv, TypeOK
<1>3. D \in SUBSET Draws
  BY <1>2, QueueEntry DEF Entries
<1> HIDE DEF D
<1>4. /\ IsQueue(announced', SUBSET Draws)
      /\ DOMAIN announced = 1..n /\ DOMAIN announced' = 1..n + 1 /\ n \in Nat
      /\ \A j \in DOMAIN announced : announced'[j] = announced[j]
      /\ announced'[n + 1].of = D
  BY <1>1, <1>2, <1>3, QueuePut
<1> HIDE DEF n
<1>5. IsQueue(work', Block) /\ Kept(work, work') /\ work'[k].drawn = {}
  BY <1>1, <1>2, QueueSent
<1>6. TypeOK'
  BY <1>4, <1>5 DEF IInv, TypeOK, PublishAnnouncements, counters
<1>7. \A j \in DOMAIN announced' : j \in DOMAIN announced \/ j = n + 1
  BY <1>4
<1>8. Single(D) /\ Transfers(D) \subseteq failsafe
  BY DEF IInv, DrawnOnce, Committed, D
<1>9. \A j \in DOMAIN announced : Apart(D, announced[j].of) /\ Apart(announced[j].of, D)
  BY DEF IInv, DrawnOnce, D, Apart
<1>10. \A j \in DOMAIN work' :
         /\ j \in DOMAIN work /\ work'[j].drawn \in {work[j].drawn, {}}
         /\ Apart(work'[j].drawn, D)
  BY <1>5 DEF IInv, DrawnOnce, D, Apart, Kept, Transfers
<1>11. Committed'
  BY <1>1, <1>4, <1>7, <1>8, <1>10 DEF IInv, Committed, Transfers
<1>12. DrawnOnce'
  <2>1. \A i, j \in DOMAIN work' : i # j => Apart(work'[i].drawn, work'[j].drawn)
    BY <1>10 DEF IInv, DrawnOnce, Apart, Transfers
  <2>2. \A i, j \in DOMAIN announced' : i # j => Apart(announced'[i].of, announced'[j].of)
    BY <1>4, <1>7, <1>9 DEF IInv, DrawnOnce
  <2>3. \A i \in DOMAIN work', j \in DOMAIN announced' : Apart(work'[i].drawn, announced'[j].of)
    <3> SUFFICES ASSUME NEW i \in DOMAIN work', NEW j \in DOMAIN announced'
                 PROVE  Apart(work'[i].drawn, announced'[j].of)
      OBVIOUS
    <3>1. CASE j = n + 1
      BY <1>4, <1>10, <3>1
    <3>2. CASE j \in DOMAIN announced
      <4>1. Apart(work[i].drawn, announced[j].of) /\ Apart({}, announced[j].of)
        BY <1>10, <3>2 DEF IInv, DrawnOnce, Apart, Transfers
      <4> QED BY <1>4, <1>10, <3>2, <4>1
    <3> QED BY <1>7, <3>1, <3>2
  <2>4. /\ \A i \in DOMAIN work' : Single(work'[i].drawn)
        /\ \A j \in DOMAIN announced' : Single(announced'[j].of)
    BY <1>4, <1>7, <1>8, <1>10 DEF IInv, DrawnOnce, Single
  <2> QED BY <2>1, <2>2, <2>3, <2>4 DEF DrawnOnce
<1> QED BY <1>6, <1>11, <1>12 DEF IInv

\* A step that keeps the draws where they are, and the types.
LEMMA StepQuiet ==
  ASSUME IInv, TypeOK', NoneAdded(work, work'), SameContents(announced, announced'),
         failsafe' = failsafe
  PROVE  IInv'
BY NoNewDraws DEF IInv

\* Nor does it when a queue is left alone.
LEMMA Unchanged == ASSUME NEW q  PROVE NoneAdded(q, q) /\ SameContents(q, q)
BY DEF NoneAdded, SameContents

-----------------------------------------------------------------------------
(* The services.                                                           *)

\* Every step of the application server preserves the invariant.
LEMMA StepApplicationServer ==
  ASSUME IInv, NEW b \in DOMAIN blocks, ApplicationServer(b)
  PROVE  IInv'
<1>1. IsQueue(blocks, Block) /\ IsQueue(work, Block) /\ blocks[b].of \in Block
  BY QueueEntry DEF IInv, TypeOK, Entries
<1>2. CASE ReceiveBlock(b)
  <2>1. IsQueue(blocks', Block)
    BY <1>1, <1>2, QueueDelivered, DecoratedType DEF ReceiveBlock
  <2>2. TypeOK'
    BY <1>2, <2>1 DEF IInv, TypeOK, ReceiveBlock, counters
  <2> QED BY <1>2, <2>2, StepQuiet, Unchanged DEF ReceiveBlock
<1>3. ASSUME NEW t \in Transfer, Decorate(b, t)  PROVE IInv'
  <2>1. IsQueue(blocks', Block)
    <3> DEFINE m == blocks[b]
               r == blocks'[b]
    <3>1. DOMAIN blocks' = DOMAIN blocks /\ blocks' = [j \in DOMAIN blocks |-> blocks'[j]]
      BY <1>3 DEF Decorate
    <3>2. r = [m EXCEPT !.left = m.left \ {t}] /\ \A j \in DOMAIN blocks : j # b => blocks'[j] = blocks[j]
      BY <1>3 DEF Decorate
    <3>3. \A j \in DOMAIN blocks : blocks[j] \in Entries(Block)
      BY <1>1, QueueEntry
    <3>4. m \in Entries(Block)
      BY <3>3
    <3> HIDE DEF m, r
    <3>5. r \in Entries(Block)
      BY <3>2, <3>4 DEF Entries
    <3> QED BY <1>1, <3>1, <3>2, <3>3, <3>5, QueueMapped DEF r
  <2>2. TypeOK'
    BY <1>3, <2>1 DEF IInv, TypeOK, Decorate, counters
  <2> QED BY <1>3, <2>2, StepQuiet, Unchanged DEF Decorate
<1>4. CASE PublishHintedBlock(b)
  <2>1. IsQueue(blocks', Block)
    BY <1>1, <1>4, QueueSent DEF PublishHintedBlock
  <2>2. IsQueue(work', Block) /\ NoneAdded(work, work')
    BY <1>1, <1>4, QueuePut, SMTT(30) DEF PublishHintedBlock, NoneAdded
  <2>3. TypeOK'
    BY <1>4, <2>1, <2>2 DEF IInv, TypeOK, PublishHintedBlock, counters
  <2> QED BY <1>4, <2>2, <2>3, StepQuiet, Unchanged DEF PublishHintedBlock
<1>5. CASE AckBlock(b)
  <2>1. IsQueue(blocks', Block)
    BY <1>1, <1>5, QueueAcked DEF AckBlock
  <2>2. TypeOK'
    BY <1>5, <2>1 DEF IInv, TypeOK, AckBlock, counters
  <2> QED BY <1>5, <2>2, StepQuiet, Unchanged DEF AckBlock
<1> QED BY <1>2, <1>3, <1>4, <1>5 DEF ApplicationServer

\* Every step of the worker server preserves the invariant.
LEMMA StepWorkerServer ==
  ASSUME IInv, NEW k \in DOMAIN work, WorkerServer(k)
  PROVE  IInv'
<1>1. IsQueue(work, Block)
  BY DEF IInv, TypeOK
<1>2. CASE ReceiveWork(k)
  <2>1. IsQueue(work', Block) /\ Kept(work, work')
    BY <1>1, <1>2, QueueDelivered, DecoratedType DEF ReceiveWork
  <2>2. TypeOK'
    BY <1>2, <2>1 DEF IInv, TypeOK, ReceiveWork, counters
  <2> QED BY <1>2, <2>1, <2>2, StepQuiet, KeptAddsNone, Unchanged DEF ReceiveWork
<1>3. ASSUME NEW t \in Transfer, Skip(k, t)  PROVE IInv'
  <2>1. IsQueue(work', Block) /\ Kept(work, work')
    <3> DEFINE m == work[k]
               r == work'[k]
    <3>1. DOMAIN work' = DOMAIN work /\ work' = [j \in DOMAIN work |-> work'[j]]
      BY <1>3 DEF Skip
    <3>2. r = [m EXCEPT !.left = m.left \ {t}] /\ \A j \in DOMAIN work : j # k => work'[j] = work[j]
      BY <1>3 DEF Skip
    <3>3. \A j \in DOMAIN work : work[j] \in Entries(Block)
      BY <1>1, QueueEntry
    <3>4. m \in Entries(Block)
      BY <3>3
    <3> HIDE DEF m, r
    <3>5. r \in Entries(Block) /\ r.of = m.of /\ r.drawn = m.drawn
      BY <3>2, <3>4 DEF Entries
    <3> QED BY <1>1, <3>1, <3>2, <3>3, <3>5, QueueMapped DEF m, r, Kept
  <2>2. TypeOK'
    BY <1>3, <2>1 DEF IInv, TypeOK, Skip, counters
  <2> QED BY <1>3, <2>1, <2>2, StepQuiet, KeptAddsNone, Unchanged DEF Skip
<1>4. ASSUME NEW t \in Transfer, DrawTransfer(k, t)  PROVE IInv'
  BY <1>4, StepDraw
<1>5. ASSUME NEW t \in Transfer, FailFailsafe(k, t)  PROVE IInv'
  <2>1. IsQueue(work', Block) /\ Kept(work, work')
    BY <1>1, <1>5, QueueRequeued DEF FailFailsafe
  <2>2. TypeOK'
    BY <1>5, <2>1 DEF IInv, TypeOK, FailFailsafe, counters
  <2> QED BY <1>5, <2>1, <2>2, StepQuiet, KeptAddsNone, Unchanged DEF FailFailsafe
<1>6. CASE PublishAnnouncements(k)
  BY <1>6, StepPublish
<1>7. CASE AckWork(k)
  <2>1. IsQueue(work', Block) /\ Kept(work, work')
    BY <1>1, <1>7, QueueAcked DEF AckWork
  <2>2. TypeOK'
    BY <1>7, <2>1 DEF IInv, TypeOK, AckWork, counters
  <2> QED BY <1>7, <2>1, <2>2, StepQuiet, KeptAddsNone, Unchanged DEF AckWork
<1> QED BY <1>2, <1>3, <1>4, <1>5, <1>6, <1>7 DEF WorkerServer

\* Every step of the worker client preserves the invariant.
LEMMA StepWorkerClient ==
  ASSUME IInv, NEW k \in DOMAIN announced, WorkerClient(k)
  PROVE  IInv'
<1>1. IsQueue(announced, SUBSET Draws) /\ IsQueue(won, SUBSET Transfer)
  BY DEF IInv, TypeOK
<1>2. Winners(announced[k].of) \in SUBSET Transfer
  BY <1>1, QueueEntry DEF Winners, Draws, Entries
<1>3. IsQueue(announced', SUBSET Draws) /\ Kept(announced, announced')
  BY <1>1, QueueDelivered, QueueSent, QueueAcked
     DEF WorkerClient, ReceiveAnnouncements, ProcessAnnouncements, AckAnnouncements
<1>4. IsQueue(won', SUBSET Transfer)
  BY <1>1, <1>2, QueuePut
     DEF WorkerClient, ReceiveAnnouncements, ProcessAnnouncements, AckAnnouncements
<1>5. /\ UNCHANGED <<blocks, actions, work, failsafe, lpWins, counters>>
  BY DEF WorkerClient, ReceiveAnnouncements, ProcessAnnouncements, AckAnnouncements
<1>6. TypeOK'
  BY <1>3, <1>4, <1>5 DEF IInv, TypeOK, counters
<1> QED BY <1>3, <1>5, <1>6, StepQuiet, KeptAddsNone, Unchanged

\* The branch of the spooler for the AMM preserves the invariant.
LEMMA StepAmmWinnings ==
  ASSUME IInv, NEW k \in DOMAIN won, InsertAmmWinnings(k)
  PROVE  IInv'
<1>1. IsQueue(won, SUBSET Transfer) /\ won[k].of \subseteq Transfer
  BY QueueEntry DEF IInv, TypeOK, Entries
<1>2. IsQueue(won', SUBSET Transfer)
  BY <1>1, QueueAcked DEF InsertAmmWinnings
<1>3. lpWins' \subseteq Transfer
  BY <1>1 DEF IInv, TypeOK, InsertAmmWinnings
<1>4. TypeOK'
  BY <1>2, <1>3 DEF IInv, TypeOK, InsertAmmWinnings, counters
<1> QED BY <1>4, StepQuiet, Unchanged DEF InsertAmmWinnings

\* The kill of any service preserves the invariant.
LEMMA StepCrash ==
  ASSUME IInv, Crash
  PROVE  IInv'
<1>1. IsQueue(blocks, Block) /\ IsQueue(work, Block) /\ IsQueue(announced, SUBSET Draws)
  BY DEF IInv, TypeOK
<1>2. /\ IsQueue(blocks', Block)
      /\ IsQueue(work', Block) /\ NoneAdded(work, work')
      /\ IsQueue(announced', SUBSET Draws) /\ SameContents(announced, announced')
  BY <1>1, QueueRequeued, KeptAddsNone, Unchanged DEF Crash
<1>3. crashes' \in 0..MaxCrashes /\ killed' \subseteq Service
  BY DrawAssumption DEF Crash, Down, IInv, TypeOK
<1>4. TypeOK'
  BY <1>2, <1>3 DEF IInv, TypeOK, Crash
<1> QED BY <1>2, <1>4, StepQuiet DEF Crash

-----------------------------------------------------------------------------
(* The theorems.                                                           *)

\* The invariant holds before any block arrives.
THEOREM InitIInv == Init => IInv
<1> SUFFICES ASSUME Init PROVE IInv
  OBVIOUS
<1>1. IsQueue(blocks, Block)
  <2>1. blocks = [b \in 1..NBlocks |-> Message(b, 0)] /\ NBlocks \in Nat
    BY DrawAssumption DEF Init, Block
  <2>2. \A b \in 1..NBlocks : Message(b, 0) \in Entries(Block)
    BY DrawAssumption DEF Message, Entries, Block
  <2>3. blocks \in Seq(Entries(Block))
    BY <2>1, <2>2
  <2> QED BY <2>3 DEF IsQueue, Entries
<1>2. TypeOK
  BY <1>1, DrawAssumption DEF Init, TypeOK, IsQueue
<1>3. DrawnOnce /\ Committed
  BY DEF Init, DrawnOnce, Committed
<1> QED BY <1>2, <1>3 DEF IInv

\* Every step of a service and every kill preserves the invariant.
THEOREM StepIInv == IInv /\ [Next]_vars => IInv'
<1> SUFFICES ASSUME IInv, [Next]_vars PROVE IInv'
  OBVIOUS
<1>1. CASE Services
  BY <1>1, StepApplicationServer, StepWorkerServer, StepWorkerClient, StepAmmWinnings
     DEF Services
<1>2. CASE Crash
  BY <1>2, StepCrash
<1>3. CASE UNCHANGED vars
  BY <1>3 DEF vars, counters, IInv, TypeOK, DrawnOnce, Committed
<1> QED BY <1>1, <1>2, <1>3 DEF Next

\* The invariant holds in every reachable state.
THEOREM Invariance == Spec => []IInv
BY InitIInv, StepIInv, PTL DEF Spec

\* Every reachable state is well typed.
THEOREM TypeCorrect == Spec => []TypeOK
<1>1. IInv => TypeOK
  BY DEF IInv
<1> QED BY <1>1, Invariance, PTL

\* However often blocks are delivered and services are killed, no transfer
\* has a second draw.
THEOREM NeverDrawnTwice == Spec => []DrawnOnce
<1>1. IInv => DrawnOnce
  BY DEF IInv
<1> QED BY <1>1, Invariance, PTL

-----------------------------------------------------------------------------
(* What the library's operations do to the progress of a handler.           *)

\* The messages of q but k, and what they are about, are untouched in r.
Others(q, r, k) ==
  /\ DOMAIN r = DOMAIN q
  /\ \A j \in DOMAIN q : r[j].of = q[j].of
  /\ \A j \in DOMAIN q : j # k =>
       r[j].state = q[j].state /\ r[j].left = q[j].left /\ r[j].drawn = q[j].drawn

LEMMA CountedKeeps ==
  ASSUME NEW C, NEW q, IsQueue(q, C), NEW k \in DOMAIN q, NEW n
  PROVE  /\ DOMAIN Counted(q, k, n) = DOMAIN q
         /\ \A j \in DOMAIN q :
              /\ Counted(q, k, n)[j].of = q[j].of /\ Counted(q, k, n)[j].state = q[j].state
              /\ Counted(q, k, n)[j].left = q[j].left /\ Counted(q, k, n)[j].drawn = q[j].drawn
              /\ DOMAIN Counted(q, k, n)[j] = DOMAIN q[j]
              /\ DOMAIN q[j] = {"of", "state", "attempts", "left", "drawn"}
<1>1. \A j \in DOMAIN q : q[j] \in Entries(C)
  BY QueueEntry
<1>2. DOMAIN Counted(q, k, n) = DOMAIN q
  BY DEF Counted
<1>3. ASSUME NEW j \in DOMAIN q
      PROVE  /\ Counted(q, k, n)[j].of = q[j].of /\ Counted(q, k, n)[j].state = q[j].state
             /\ Counted(q, k, n)[j].left = q[j].left /\ Counted(q, k, n)[j].drawn = q[j].drawn
             /\ DOMAIN Counted(q, k, n)[j] = DOMAIN q[j]
             /\ DOMAIN q[j] = {"of", "state", "attempts", "left", "drawn"}
  <2> DEFINE m == IF q[j].of = q[k].of THEN n ELSE q[j].attempts
  <2>1. Counted(q, k, n)[j] = [q[j] EXCEPT !.attempts = m]
    BY DEF Counted
  <2> HIDE DEF m
  <2> QED BY <1>1, <2>1 DEF Entries
<1> QED BY <1>2, <1>3

LEMMA DeliveredEffect ==
  ASSUME NEW C, NEW q, IsQueue(q, C), NEW k \in DOMAIN q, NEW found, NEW state
  PROVE  LET r == Delivered(q, k, found, state) IN
         /\ Others(q, r, k) /\ r[k].drawn = q[k].drawn
         /\ \/ r[k].state = state /\ r[k].left = found
            \/ r[k].state = "dead"
<1> DEFINE n == q[k].attempts + 1
           r == Delivered(q, k, found, state)
<1>1. CASE n < MessageRetries
  <2> DEFINE c == Counted(q, k, n)
  <2>1. /\ DOMAIN c = DOMAIN q
        /\ \A j \in DOMAIN q : /\ c[j].of = q[j].of /\ c[j].state = q[j].state
                               /\ c[j].left = q[j].left /\ c[j].drawn = q[j].drawn
        /\ DOMAIN c[k] = {"of", "state", "attempts", "left", "drawn"}
    BY CountedKeeps
  <2>2. r = [c EXCEPT ![k].state = state, ![k].left = found]
    BY <1>1 DEF Delivered
  <2> HIDE DEF c, r
  <2>3. DOMAIN r = DOMAIN q /\ \A j \in DOMAIN q : j # k => r[j] = c[j]
    BY <2>1, <2>2
  <2>4. r[k] = [[c[k] EXCEPT !.state = state] EXCEPT !.left = found]
    BY <2>1, <2>2
  <2>5. r[k].of = c[k].of /\ r[k].drawn = c[k].drawn /\ r[k].state = state /\ r[k].left = found
    BY <2>1, <2>4
  <2>6. Others(q, r, k) /\ r[k].drawn = q[k].drawn /\ r[k].state = state /\ r[k].left = found
    BY <2>1, <2>3, <2>5 DEF Others
  <2> QED BY <2>6 DEF r
<1>2. CASE ~(n < MessageRetries)
  <2> DEFINE c == Counted(q, k, 0)
  <2>1. /\ DOMAIN c = DOMAIN q
        /\ \A j \in DOMAIN q : /\ c[j].of = q[j].of /\ c[j].state = q[j].state
                               /\ c[j].left = q[j].left /\ c[j].drawn = q[j].drawn
        /\ DOMAIN c[k] = {"of", "state", "attempts", "left", "drawn"}
    BY CountedKeeps
  <2>2. r = [c EXCEPT ![k].state = "dead"]
    BY <1>2 DEF Delivered
  <2> HIDE DEF c, r
  <2>3. DOMAIN r = DOMAIN q /\ \A j \in DOMAIN q : j # k => r[j] = c[j]
    BY <2>1, <2>2
  <2>4. r[k] = [c[k] EXCEPT !.state = "dead"]
    BY <2>1, <2>2
  <2>5. r[k].of = c[k].of /\ r[k].drawn = c[k].drawn /\ r[k].state = "dead"
    BY <2>1, <2>4
  <2>6. Others(q, r, k) /\ r[k].drawn = q[k].drawn /\ r[k].state = "dead"
    BY <2>1, <2>3, <2>5 DEF Others
  <2> QED BY <2>6 DEF r
<1> QED BY <1>1, <1>2

LEMMA SentEffect ==
  ASSUME NEW C, NEW q, IsQueue(q, C), NEW k \in DOMAIN q
  PROVE  Others(q, Sent(q, k), k) /\ Sent(q, k)[k].state = "sent" /\ Sent(q, k)[k].drawn = {}
<1>1. \A j \in DOMAIN q : q[j] \in Entries(C)
  BY QueueEntry
<1>2. DOMAIN Sent(q, k) = DOMAIN q /\ \A j \in DOMAIN q : j # k => Sent(q, k)[j] = q[j]
  BY DEF Sent
<1>3. Sent(q, k)[k] = [[q[k] EXCEPT !.state = "sent"] EXCEPT !.drawn = {}]
  BY DEF Sent
<1>4. Sent(q, k)[k].of = q[k].of /\ Sent(q, k)[k].state = "sent" /\ Sent(q, k)[k].drawn = {}
  BY <1>1, <1>3 DEF Entries
<1> QED BY <1>2, <1>4 DEF Others

LEMMA AckedEffect ==
  ASSUME NEW C, NEW q, IsQueue(q, C), NEW k \in DOMAIN q
  PROVE  Others(q, Acked(q, k), k) /\ Acked(q, k)[k].state = "acked"
         /\ Acked(q, k)[k].drawn = q[k].drawn
<1> DEFINE c == Counted(q, k, 0)
           r == Acked(q, k)
<1>1. /\ DOMAIN c = DOMAIN q
      /\ \A j \in DOMAIN q : /\ c[j].of = q[j].of /\ c[j].state = q[j].state
                             /\ c[j].left = q[j].left /\ c[j].drawn = q[j].drawn
      /\ DOMAIN c[k] = {"of", "state", "attempts", "left", "drawn"}
  BY CountedKeeps
<1>2. r = [c EXCEPT ![k].state = "acked"]
  BY DEF Acked
<1> HIDE DEF c, r
<1>3. DOMAIN r = DOMAIN q /\ \A j \in DOMAIN q : j # k => r[j] = c[j]
  BY <1>1, <1>2
<1>4. r[k] = [c[k] EXCEPT !.state = "acked"]
  BY <1>1, <1>2
<1>5. r[k].of = c[k].of /\ r[k].drawn = c[k].drawn /\ r[k].state = "acked"
  BY <1>1, <1>4
<1>6. Others(q, r, k) /\ r[k].state = "acked" /\ r[k].drawn = q[k].drawn
  BY <1>1, <1>3, <1>5 DEF Others
<1> QED BY <1>6 DEF r

LEMMA RequeuedEffect ==
  ASSUME NEW C, NEW q, IsQueue(q, C)
  PROVE  /\ DOMAIN Requeued(q) = DOMAIN q
         /\ \A j \in DOMAIN q :
              /\ Requeued(q)[j].of = q[j].of
              /\ IF q[j].state \in {"unacked", "sent"}
                 THEN Requeued(q)[j].state = "ready" /\ Requeued(q)[j].drawn = {}
                 ELSE Requeued(q)[j] = q[j]
<1>1. \A j \in DOMAIN q : q[j] \in Entries(C)
  BY QueueEntry
<1> QED BY <1>1 DEF Requeued, InProgress, Entries

LEMMA PutEffect ==
  ASSUME NEW C, NEW q, IsQueue(q, C), NEW c \in C
  PROVE  /\ DOMAIN q = 1..Len(q) /\ DOMAIN Put(q, c) = 1..Len(q) + 1 /\ Len(q) \in Nat
         /\ \A j \in DOMAIN q : Put(q, c)[j] = q[j]
         /\ Put(q, c)[Len(q) + 1].of = c /\ Put(q, c)[Len(q) + 1].drawn = {}
         /\ Put(q, c)[Len(q) + 1].state = "ready"
<1> DEFINE alike == {j \in DOMAIN q : q[j].of = c}
           n == IF alike = {} THEN 0 ELSE q[CHOOSE j \in alike : TRUE].attempts
<1>1. q \in Seq(Entries(C))
  BY DEF IsQueue, Entries
<1>2. Put(q, c) = Append(q, Message(c, n))
  BY DEF Put
<1> HIDE DEF n, Entries
<1>3. Put(q, c)[Len(q) + 1] = Message(c, n)
  BY <1>1, <1>2
<1>4. Put(q, c)[Len(q) + 1].state = "ready"
  BY <1>3 DEF Message
<1> QED BY <1>4, QueuePut

-----------------------------------------------------------------------------
(* Whole blocks, drawn for after they were recorded.  A handler of the      *)
(* application server has recorded what it no longer has to go through; one *)
(* of the worker server holds draws of what it no longer has to go through. *)

Recordable(b) == {t \in Decorated(b) : Null \notin {Log[t].from, Log[t].to}}

DeservingOf(b) == {t \in Transfer : Deserving(t) /\ Log[t].block = b}

Recorded ==
  /\ \A b \in DOMAIN blocks :
       blocks[b].state = "unacked" => Recordable(blocks[b].of) \subseteq actions \cup blocks[b].left
  /\ \A k \in DOMAIN work : Recordable(work[k].of) \subseteq actions
  /\ DrawnWasRecorded

Progress(m) ==
  IF m.state = "unacked"
  THEN /\ m.left \subseteq Decorated(m.of)
       /\ Transfers(m.drawn) = DeservingOf(m.of) \ m.left
  ELSE m.drawn = {}

Whole ==
  /\ \A k \in DOMAIN work : Progress(work[k])
  /\ WholeBlocks

\* The worker server skips just what deserves no draw.
LEMMA SkippedUndeserving ==
  ASSUME NEW b, NEW t \in Decorated(b)
  PROVE  t \in Transfer /\ Log[t].block = b /\ (Ignored(t) <=> ~Deserving(t))
<1>1. t \in Transfer /\ Log[t].block = b
  BY DEF Decorated
<1>2. /\ OfApp(t) \in BOOLEAN /\ Log[t].volume \in Nat
      /\ ~OfApp(t) => Null \notin {Log[t].from, Log[t].to}
  BY <1>1, DrawAssumption DEF Decorated, OfApp
<1> QED BY <1>1, <1>2 DEF Ignored, Deserving, Volume

LEMMA DeservingDecorated ==
  ASSUME NEW b
  PROVE  DeservingOf(b) \subseteq Decorated(b) /\ DeservingOf(b) \subseteq Recordable(b)
BY DEF DeservingOf, Deserving, Decorated, Recordable

\* The steps that add to no queue but progress in blocks.
LEMMA RecordedFrame ==
  ASSUME Recorded, actions \subseteq actions', failsafe' = failsafe,
         DOMAIN work' = DOMAIN work, \A k \in DOMAIN work : work'[k].of = work[k].of,
         DOMAIN blocks' = DOMAIN blocks,
         \A b \in DOMAIN blocks : blocks'[b].state = "unacked" =>
           Recordable(blocks'[b].of) \subseteq actions' \cup blocks'[b].left
  PROVE  Recorded'
<1>1. \A k \in DOMAIN work' : Recordable(work'[k].of) \subseteq actions'
  BY DEF Recorded
<1>2. DrawnWasRecorded'
  BY DEF Recorded, DrawnWasRecorded
<1> QED BY <1>1, <1>2 DEF Recorded, Recordable, Decorated, OfApp

LEMMA RecordedStep == IInv /\ Recorded /\ Whole /\ [Next]_vars => Recorded'
<1> SUFFICES ASSUME IInv, Recorded, Whole, [Next]_vars  PROVE Recorded'
  OBVIOUS
<1>0. /\ IsQueue(blocks, Block) /\ IsQueue(work, Block)
      /\ \A b \in DOMAIN blocks : blocks[b].of \in Block
  BY QueueEntry DEF IInv, TypeOK, Entries
<1>1. ASSUME NEW b \in DOMAIN blocks, ReceiveBlock(b)  PROVE Recorded'
  <2>1. /\ Others(blocks, blocks', b)
        /\ \/ blocks'[b].state = "unacked" /\ blocks'[b].left = Decorated(blocks[b].of)
           \/ blocks'[b].state = "dead"
        /\ UNCHANGED <<actions, work, failsafe>>
    BY <1>0, <1>1, DeliveredEffect DEF ReceiveBlock
  <2>2. \A c \in DOMAIN blocks : blocks'[c].state = "unacked" =>
          Recordable(blocks'[c].of) \subseteq actions \cup blocks'[c].left
    <3> SUFFICES ASSUME NEW c \in DOMAIN blocks, blocks'[c].state = "unacked"
                 PROVE  Recordable(blocks'[c].of) \subseteq actions \cup blocks'[c].left
      OBVIOUS
    <3>1. CASE c = b
      BY <2>1, <3>1 DEF Recordable, Others
    <3>2. CASE c # b
      BY <2>1, <3>2 DEF Recorded, Others
    <3> QED BY <3>1, <3>2
  <2> QED BY <2>1, <2>2, RecordedFrame DEF Others
<1>2. ASSUME NEW b \in DOMAIN blocks, NEW t \in Transfer, Decorate(b, t)  PROVE Recorded'
  <2>1. /\ blocks[b].state = "unacked" /\ blocks' = [blocks EXCEPT ![b].left = @ \ {t}]
        /\ actions' = IF Null \in {Log[t].from, Log[t].to} THEN actions ELSE actions \cup {t}
        /\ UNCHANGED <<work, failsafe>>
    BY <1>2 DEF Decorate
  <2>2. blocks[b] \in Entries(Block)
    BY <1>0, QueueEntry
  <2>3. /\ blocks'[b].of = blocks[b].of /\ blocks'[b].left = blocks[b].left \ {t}
        /\ DOMAIN blocks' = DOMAIN blocks
        /\ \A c \in DOMAIN blocks : c # b => blocks'[c] = blocks[c]
    BY <2>1, <2>2 DEF Entries
  <2>4. \A c \in DOMAIN blocks : blocks'[c].state = "unacked" =>
          Recordable(blocks'[c].of) \subseteq actions' \cup blocks'[c].left
    <3> SUFFICES ASSUME NEW c \in DOMAIN blocks, blocks'[c].state = "unacked"
                 PROVE  Recordable(blocks'[c].of) \subseteq actions' \cup blocks'[c].left
      OBVIOUS
    <3>1. CASE c = b
      <4>1. Recordable(blocks[b].of) \subseteq actions \cup blocks[b].left
        BY <2>1 DEF Recorded
      <4>2. t \in Recordable(blocks[b].of) => t \in actions'
        BY <2>1 DEF Recordable
      <4> QED BY <2>1, <2>3, <3>1, <4>1, <4>2
    <3>2. CASE c # b
      BY <2>1, <2>3, <3>2 DEF Recorded
    <3> QED BY <3>1, <3>2
  <2> QED BY <2>1, <2>3, <2>4, RecordedFrame
<1>3. ASSUME NEW b \in DOMAIN blocks, PublishHintedBlock(b)  PROVE Recorded'
  <2>1. /\ blocks[b].state = "unacked" /\ blocks[b].left = {} /\ work' = Put(work, blocks[b].of)
        /\ Others(blocks, blocks', b) /\ blocks'[b].state = "sent"
        /\ UNCHANGED <<actions, failsafe>>
    BY <1>0, <1>3, SentEffect DEF PublishHintedBlock
  <2>2. Recordable(blocks[b].of) \subseteq actions
    BY <2>1 DEF Recorded
  <2>3. \A k \in DOMAIN work' : \/ k \in DOMAIN work /\ work'[k].of = work[k].of
                                \/ work'[k].of = blocks[b].of
    <3> DEFINE n == blocks[b].of
    <3>1. n \in Block
      BY <1>0
    <3> HIDE DEF n
    <3>2. /\ DOMAIN work = 1..Len(work) /\ DOMAIN Put(work, n) = 1..Len(work) + 1 /\ Len(work) \in Nat
          /\ \A j \in DOMAIN work : Put(work, n)[j] = work[j]
          /\ Put(work, n)[Len(work) + 1].of = n
      BY <1>0, <3>1, PutEffect
    <3> QED BY <2>1, <3>2 DEF n
  <2>4. \A k \in DOMAIN work' : Recordable(work'[k].of) \subseteq actions'
    BY <2>1, <2>2, <2>3 DEF Recorded
  <2>5. \A c \in DOMAIN blocks' : blocks'[c].state = "unacked" =>
          Recordable(blocks'[c].of) \subseteq actions' \cup blocks'[c].left
    BY <2>1 DEF Recorded, Others
  <2>6. DrawnWasRecorded'
    BY <2>1 DEF Recorded, DrawnWasRecorded
  <2> QED BY <2>4, <2>5, <2>6 DEF Recorded, Recordable, Decorated, OfApp
<1>4. ASSUME NEW b \in DOMAIN blocks, AckBlock(b)  PROVE Recorded'
  <2>1. /\ Others(blocks, blocks', b) /\ blocks'[b].state = "acked"
        /\ UNCHANGED <<actions, work, failsafe>>
    BY <1>0, <1>4, AckedEffect DEF AckBlock
  <2>2. \A c \in DOMAIN blocks : blocks'[c].state = "unacked" =>
          Recordable(blocks'[c].of) \subseteq actions \cup blocks'[c].left
    BY <2>1 DEF Recorded, Others
  <2> QED BY <2>1, <2>2, RecordedFrame DEF Others
<1>5. ASSUME NEW k \in DOMAIN work, NEW t \in Transfer, DrawTransfer(k, t)  PROVE Recorded'
  <2>1. /\ At(k, t) /\ ~Ignored(t) /\ failsafe' = failsafe \cup {t} /\ UNCHANGED <<blocks, actions>>
    BY <1>5 DEF DrawTransfer
  <2>2. PICK wins \in BOOLEAN :
          work' = [work EXCEPT ![k].left = @ \ {t},
                               ![k].drawn = @ \cup {[transfer |-> t, wins |-> wins]}]
    BY <1>5 DEF DrawTransfer
  <2>3. work[k] \in Entries(Block)
    BY <1>0, QueueEntry
  <2>4. DOMAIN work' = DOMAIN work /\ \A j \in DOMAIN work : work'[j].of = work[j].of
    <3>1. DOMAIN work' = DOMAIN work /\ \A j \in DOMAIN work : j # k => work'[j] = work[j]
      BY <2>2
    <3>2. work'[k] = [[work[k] EXCEPT !.left = @ \ {t}] EXCEPT
                        !.drawn = @ \cup {[transfer |-> t, wins |-> wins]}]
      BY <2>2
    <3>3. work'[k].of = work[k].of
      BY <2>3, <3>2 DEF Entries
    <3> QED BY <3>1, <3>3
  <2>5. t \in actions
    <3>1. t \in Decorated(work[k].of)
      BY <2>1 DEF At, Whole, Progress
    <3>2. Deserving(t) /\ t \in Transfer /\ Log[t].block = work[k].of
      BY <2>1, <3>1, SkippedUndeserving
    <3>3. t \in Recordable(work[k].of)
      BY <3>2, DeservingDecorated DEF DeservingOf
    <3> QED BY <3>3 DEF Recorded
  <2>6. DrawnWasRecorded'
    BY <2>1, <2>5 DEF Recorded, DrawnWasRecorded
  <2> QED BY <2>1, <2>4, <2>6 DEF Recorded, Recordable, Decorated, OfApp
<1>6. ASSUME UNCHANGED <<actions, failsafe, blocks>>, DOMAIN work' = DOMAIN work,
             \A k \in DOMAIN work : work'[k].of = work[k].of
      PROVE  Recorded'
  BY <1>6, RecordedFrame DEF Recorded
<1>7. ASSUME NEW k \in DOMAIN work, ReceiveWork(k)  PROVE Recorded'
  BY <1>0, <1>6, <1>7, DeliveredEffect DEF ReceiveWork, Others
<1>8. ASSUME NEW k \in DOMAIN work, NEW t \in Transfer, Skip(k, t)  PROVE Recorded'
  <2>1. work[k] \in Entries(Block)
    BY <1>0, QueueEntry
  <2>2. DOMAIN work' = DOMAIN work /\ \A j \in DOMAIN work : work'[j].of = work[j].of
    BY <1>8, <2>1 DEF Skip, Entries
  <2> QED BY <1>6, <1>8, <2>2 DEF Skip
<1>9. ASSUME NEW k \in DOMAIN work, NEW t \in Transfer, FailFailsafe(k, t)  PROVE Recorded'
  BY <1>0, <1>6, <1>9, RequeuedEffect DEF FailFailsafe
<1>10. ASSUME NEW k \in DOMAIN work, PublishAnnouncements(k)  PROVE Recorded'
  BY <1>0, <1>6, <1>10, SentEffect DEF PublishAnnouncements, Others
<1>11. ASSUME NEW k \in DOMAIN work, AckWork(k)  PROVE Recorded'
  BY <1>0, <1>6, <1>11, AckedEffect DEF AckWork, Others
<1>12. ASSUME \/ \E k \in DOMAIN announced : WorkerClient(k)
              \/ \E k \in DOMAIN won : InsertAmmWinnings(k)
              \/ UNCHANGED vars
       PROVE  Recorded'
  <2>1. UNCHANGED <<blocks, actions, work, failsafe>>
    BY <1>12 DEF WorkerClient, ReceiveAnnouncements, ProcessAnnouncements, AckAnnouncements,
                 InsertAmmWinnings, vars
  <2> QED BY <1>6, <2>1
<1>13. ASSUME Crash  PROVE Recorded'
  <2>1. /\ blocks' = blocks \/ blocks' = Requeued(blocks)
        /\ work' = work \/ work' = Requeued(work)
        /\ UNCHANGED <<actions, failsafe>>
    BY <1>13 DEF Crash
  <2>2. DOMAIN work' = DOMAIN work /\ \A k \in DOMAIN work : work'[k].of = work[k].of
    BY <1>0, <2>1, RequeuedEffect
  <2>3. DOMAIN blocks' = DOMAIN blocks /\
        \A b \in DOMAIN blocks : blocks'[b].state = "unacked" => blocks'[b] = blocks[b]
    BY <1>0, <2>1, RequeuedEffect
  <2>4. \A b \in DOMAIN blocks : blocks'[b].state = "unacked" =>
           Recordable(blocks'[b].of) \subseteq actions \cup blocks'[b].left
    BY <2>3 DEF Recorded
  <2> QED BY <2>1, <2>2, <2>3, <2>4, RecordedFrame
<1> QED BY <1>1, <1>2, <1>3, <1>4, <1>5, <1>7, <1>8, <1>9, <1>10, <1>11, <1>12, <1>13
       DEF Next, Services, ApplicationServer, WorkerServer

\* A message that is as it was keeps its progress.
LEMMA ProgressOfOthers ==
  ASSUME Whole, NEW k \in DOMAIN work, Others(work, work', k)
  PROVE  \A j \in DOMAIN work : j # k => Progress(work'[j])
BY DEF Whole, Progress, Others

\* The steps that announce nothing.
LEMMA WholeFrame ==
  ASSUME WholeBlocks, SameContents(announced, announced'),
         \A k \in DOMAIN work' : Progress(work'[k])
  PROVE  Whole'
<1>1. WholeBlocks'
  BY DEF WholeBlocks, SameContents, Deserving, OfApp, Transfers
<1> QED BY <1>1 DEF Whole, Progress, Transfers, DeservingOf, Deserving, Decorated, OfApp

\* What deserves a draw moves from what is left to what is drawn.
LEMMA WholeDraw ==
  ASSUME IInv, Whole, NEW k \in DOMAIN work, NEW t \in Transfer, Skip(k, t) \/ DrawTransfer(k, t)
  PROVE  Whole'
<1> DEFINE m == work[k]
           r == work'[k]
           b == m.of
<1>1. /\ m \in Entries(Block) /\ m.state = "unacked" /\ t \in m.left
      /\ m.left \subseteq Decorated(b) /\ Transfers(m.drawn) = DeservingOf(b) \ m.left
  BY QueueEntry DEF IInv, TypeOK, At, Skip, DrawTransfer, Whole, Progress
<1>2. t \in Transfer /\ Log[t].block = b /\ (Ignored(t) <=> ~Deserving(t))
  BY <1>1, SkippedUndeserving
<1>3. DOMAIN work' = DOMAIN work /\ \A j \in DOMAIN work : j # k => work'[j] = work[j]
  BY DEF Skip, DrawTransfer
<1>4. r.of = b /\ r.state = "unacked" /\ r.left = m.left \ {t}
      /\ Transfers(r.drawn) = DeservingOf(b) \ r.left
  <2>1. CASE Skip(k, t)
    <3>1. r = [m EXCEPT !.left = m.left \ {t}]
      BY <2>1 DEF Skip
    <3> HIDE DEF m, r
    <3>2. r.of = m.of /\ r.state = m.state /\ r.left = m.left \ {t} /\ r.drawn = m.drawn
      BY <1>1, <3>1 DEF Entries
    <3>3. t \notin DeservingOf(b)
      BY <1>2, <2>1 DEF Skip, DeservingOf
    <3> QED BY <1>1, <3>2, <3>3
  <2>2. CASE DrawTransfer(k, t)
    <3>1. PICK wins \in BOOLEAN :
            r = [[m EXCEPT !.left = m.left \ {t}]
                   EXCEPT !.drawn = m.drawn \cup {[transfer |-> t, wins |-> wins]}]
      BY <2>2 DEF DrawTransfer
    <3> HIDE DEF m, r
    <3>2. /\ r.of = m.of /\ r.state = m.state /\ r.left = m.left \ {t}
          /\ r.drawn = m.drawn \cup {[transfer |-> t, wins |-> wins]}
      BY <1>1, <3>1 DEF Entries
    <3>3. t \in DeservingOf(b)
      BY <1>2, <2>2 DEF DrawTransfer, DeservingOf
    <3>4. Transfers(r.drawn) = Transfers(m.drawn) \cup {t}
      <4> DEFINE d == [transfer |-> t, wins |-> wins]
      <4>1. r.drawn = m.drawn \cup {d} /\ d.transfer = t
        BY <3>2
      <4> HIDE DEF d
      <4> QED BY <4>1 DEF Transfers
    <3> QED BY <1>1, <3>2, <3>3, <3>4
  <2> QED BY <2>1, <2>2
<1>5. Progress(r)
  BY <1>1, <1>4 DEF Progress
<1>6. \A j \in DOMAIN work' : Progress(work'[j])
  BY <1>3, <1>5 DEF Whole
<1>7. UNCHANGED announced
  BY DEF Skip, DrawTransfer
<1> QED BY <1>6, <1>7, Unchanged, WholeFrame DEF Whole

\* A handler with nothing left announces all that its block deserves.
LEMMA WholePublish ==
  ASSUME IInv, Whole, NEW k \in DOMAIN work, PublishAnnouncements(k)
  PROVE  Whole'
<1> DEFINE D == work[k].drawn
           n == Len(announced)
<1>1. /\ announced' = Put(announced, D) /\ work' = Sent(work, k)
      /\ work[k].state = "unacked" /\ work[k].left = {}
  BY DEF PublishAnnouncements
<1>2. IsQueue(work, Block) /\ IsQueue(announced, SUBSET Draws) /\ work[k] \in Entries(Block)
  BY QueueEntry DEF IInv, TypeOK
<1>3. D \in SUBSET Draws /\ work[k].of \in Block
  BY <1>2 DEF Entries
<1>4. Transfers(D) = DeservingOf(work[k].of)
  BY <1>1 DEF Whole, Progress
<1> HIDE DEF D
<1>5. /\ DOMAIN announced = 1..n /\ DOMAIN announced' = 1..n + 1 /\ n \in Nat
      /\ \A j \in DOMAIN announced : announced'[j] = announced[j]
      /\ announced'[n + 1].of = D
  BY <1>1, <1>2, <1>3, PutEffect
<1> HIDE DEF n
<1>6. \A j \in DOMAIN announced' : \E b \in Block : Transfers(announced'[j].of) = DeservingOf(b)
  <2>1. \A j \in DOMAIN announced : \E b \in Block : Transfers(announced[j].of) = DeservingOf(b)
    BY DEF Whole, WholeBlocks, DeservingOf
  <2>2. \A j \in DOMAIN announced' : j \in DOMAIN announced \/ j = n + 1
    BY <1>5
  <2> QED BY <1>3, <1>4, <1>5, <2>1, <2>2
<1>7. WholeBlocks'
  BY <1>6 DEF WholeBlocks, DeservingOf, Deserving, OfApp, Transfers
<1>8. \A j \in DOMAIN work' : Progress(work'[j])
  <2>1. Others(work, work', k) /\ work'[k].state = "sent" /\ work'[k].drawn = {}
    BY <1>1, <1>2, SentEffect
  <2>2. Progress(work'[k])
    BY <2>1 DEF Progress
  <2> QED BY <2>1, <2>2, ProgressOfOthers DEF Others
<1> QED BY <1>7, <1>8 DEF Whole, Progress, Transfers, DeservingOf, Deserving, Decorated, OfApp

LEMMA WholeStep == IInv /\ Whole /\ [Next]_vars => Whole'
<1> SUFFICES ASSUME IInv, Whole, [Next]_vars  PROVE Whole'
  OBVIOUS
<1>0. /\ IsQueue(work, Block) /\ IsQueue(announced, SUBSET Draws)
      /\ \A b \in DOMAIN work : work[b].of \in Block
  BY QueueEntry DEF IInv, TypeOK, Entries
<1>1. ASSUME UNCHANGED work, SameContents(announced, announced')  PROVE Whole'
  <2>1. \A k \in DOMAIN work' : Progress(work'[k])
    BY <1>1 DEF Whole
  <2> QED BY <1>1, <2>1, WholeFrame DEF Whole
<1>2. ASSUME NEW b \in DOMAIN blocks, ApplicationServer(b)  PROVE Whole'
  <2>1. CASE PublishHintedBlock(b)
    <3> DEFINE n == blocks[b].of
    <3>1. n \in Block /\ work' = Put(work, n) /\ UNCHANGED announced
      BY <2>1, QueueEntry DEF IInv, TypeOK, Entries, PublishHintedBlock
    <3> HIDE DEF n
    <3>2. /\ DOMAIN work = 1..Len(work) /\ DOMAIN work' = 1..Len(work) + 1 /\ Len(work) \in Nat
          /\ \A j \in DOMAIN work : work'[j] = work[j]
          /\ work'[Len(work) + 1].drawn = {} /\ work'[Len(work) + 1].state = "ready"
      BY <1>0, <3>1, PutEffect
    <3>3. \A j \in DOMAIN work' : j \in DOMAIN work \/ j = Len(work) + 1
      BY <3>2
    <3>4. Progress(work'[Len(work) + 1])
      BY <3>2 DEF Progress
    <3>5. \A j \in DOMAIN work' : Progress(work'[j])
      BY <3>2, <3>3, <3>4 DEF Whole
    <3> QED BY <3>1, <3>5, Unchanged, WholeFrame DEF Whole
  <2>2. CASE ~PublishHintedBlock(b)
    <3>1. UNCHANGED <<work, announced>>
      BY <1>2, <2>2 DEF ApplicationServer, ReceiveBlock, Decorate, AckBlock
    <3> QED BY <1>1, <3>1, Unchanged
  <2> QED BY <2>1, <2>2
<1>3. ASSUME NEW k \in DOMAIN work, ReceiveWork(k)  PROVE Whole'
  <2> DEFINE found == Decorated(work[k].of)
             state == IF found = {} THEN "sent" ELSE "unacked"
  <2>1. /\ Others(work, work', k) /\ work'[k].drawn = work[k].drawn
        /\ \/ work'[k].state = state /\ work'[k].left = found
           \/ work'[k].state = "dead"
        /\ work[k].state = "ready" /\ UNCHANGED announced
    BY <1>0, <1>3, DeliveredEffect DEF ReceiveWork, Deliverable
  <2>2. work'[k].drawn = {} /\ work'[k].of = work[k].of
    BY <2>1 DEF Whole, Progress, Others
  <2>3. Progress(work'[k])
    <3>1. Transfers({}) = DeservingOf(work[k].of) \ found
      BY DeservingDecorated DEF Transfers
    <3> QED BY <2>1, <2>2, <3>1 DEF Progress
  <2> QED BY <2>1, <2>3, ProgressOfOthers, Unchanged, WholeFrame DEF Whole, Others
<1>4. ASSUME NEW k \in DOMAIN work, NEW t \in Transfer, Skip(k, t) \/ DrawTransfer(k, t)
      PROVE  Whole'
  BY <1>4, WholeDraw
<1>5. ASSUME work' = Requeued(work), SameContents(announced, announced')  PROVE Whole'
  <2>1. \A k \in DOMAIN work' : Progress(work'[k])
    BY <1>0, <1>5, RequeuedEffect DEF Whole, Progress
  <2> QED BY <1>5, <2>1, WholeFrame DEF Whole
<1>6. ASSUME NEW k \in DOMAIN work, PublishAnnouncements(k)  PROVE Whole'
  BY <1>6, WholePublish
<1>7. ASSUME NEW k \in DOMAIN work, AckWork(k)  PROVE Whole'
  <2>1. /\ Others(work, work', k) /\ work'[k].state = "acked" /\ work'[k].drawn = work[k].drawn
        /\ work[k].state = "sent" /\ UNCHANGED announced
    BY <1>0, <1>7, AckedEffect DEF AckWork
  <2>2. Progress(work'[k])
    BY <2>1 DEF Whole, Progress
  <2> QED BY <2>1, <2>2, ProgressOfOthers, Unchanged, WholeFrame DEF Whole, Others
<1>8. ASSUME NEW k \in DOMAIN announced, WorkerClient(k)  PROVE Whole'
  <2>1. SameContents(announced, announced') /\ UNCHANGED work
    BY <1>0, <1>8, QueueDelivered, QueueSent, QueueAcked, KeptAddsNone
       DEF WorkerClient, ReceiveAnnouncements, ProcessAnnouncements, AckAnnouncements
  <2> QED BY <1>1, <2>1
<1>9. ASSUME (\E k \in DOMAIN won : InsertAmmWinnings(k)) \/ UNCHANGED vars  PROVE Whole'
  BY <1>1, <1>9, Unchanged DEF InsertAmmWinnings, vars
<1>10. ASSUME Crash  PROVE Whole'
  <2>1. SameContents(announced, announced') /\ (UNCHANGED work \/ work' = Requeued(work))
    BY <1>0, <1>10, QueueRequeued, KeptAddsNone, Unchanged DEF Crash
  <2> QED BY <1>1, <1>5, <2>1
<1>11. ASSUME NEW k \in DOMAIN work, NEW t \in Transfer, FailFailsafe(k, t)  PROVE Whole'
  BY <1>5, <1>11, Unchanged DEF FailFailsafe
<1> QED BY <1>2, <1>3, <1>4, <1>6, <1>7, <1>8, <1>9, <1>10, <1>11
       DEF Next, Services, WorkerServer

\* An announcement has all the draws its block deserves and is about
\* transfers that were published as user actions before, for any blocks,
\* goroutines and kills (worker-server, application-server).
THEOREM AnnouncedWhole == Spec => []WholeAndRecorded
<1>1. Init => Recorded /\ Whole
  BY DrawAssumption DEF Init, Recorded, Whole, DrawnWasRecorded, WholeBlocks, Message
<1>2. IInv /\ Recorded /\ Whole /\ [Next]_vars => (Recorded /\ Whole)'
  BY RecordedStep, WholeStep
<1>3. IInv /\ Recorded /\ Whole => WholeAndRecorded
  BY DEF IInv, Recorded, Whole, WholeAndRecorded
<1> QED BY <1>1, <1>2, <1>3, InitIInv, StepIInv, PTL DEF Spec

-----------------------------------------------------------------------------
(* The wins.  As long as the worker client was not killed, what it sent to  *)
(* the spooler is of announcements it is done with, and an announcement is  *)
(* judged but once.                                                         *)

\* Announcements that were judged.
Judged == {k \in DOMAIN announced : announced[k].state \in {"sent", "acked"}}

JudgedOnce ==
  "worker-client" \notin killed =>
    /\ \A j \in DOMAIN won : \A t \in won[j].of :
         \E k \in Judged : t \in Transfers(announced[k].of)
    /\ \A i, j \in DOMAIN won : i # j => won[i].of \cap won[j].of = {}

\* The steps that send no win.
LEMMA JudgedFrame ==
  ASSUME JudgedOnce, "worker-client" \in killed => "worker-client" \in killed',
         SameContents(won, won'), Judged \subseteq Judged',
         \A k \in DOMAIN announced : announced'[k].of = announced[k].of
  PROVE  JudgedOnce'
<1> SUFFICES ASSUME "worker-client" \notin killed'  PROVE JudgedOnce'
  BY DEF JudgedOnce
<1>1. /\ \A j \in DOMAIN won : \A t \in won[j].of :
           \E k \in Judged : t \in Transfers(announced[k].of)
      /\ \A i, j \in DOMAIN won : i # j => won[i].of \cap won[j].of = {}
  BY DEF JudgedOnce
<1>2. \A k \in Judged : k \in Judged' /\ announced'[k].of = announced[k].of
  BY DEF Judged
<1>3. \A j \in DOMAIN won' : \A t \in won'[j].of :
        \E k \in Judged' : t \in Transfers(announced'[k].of)
  <2> SUFFICES ASSUME NEW j \in DOMAIN won', NEW t \in won'[j].of
               PROVE  \E k \in Judged' : t \in Transfers(announced'[k].of)
    OBVIOUS
  <2>1. j \in DOMAIN won /\ t \in won[j].of
    BY DEF SameContents
  <2>2. PICK k \in Judged : t \in Transfers(announced[k].of)
    BY <1>1, <2>1
  <2> QED BY <1>2, <2>2
<1>4. \A i, j \in DOMAIN won' : i # j => won'[i].of \cap won'[j].of = {}
  BY <1>1 DEF SameContents
<1> QED BY <1>3, <1>4 DEF JudgedOnce, Transfers

\* A judged announcement's winners are no others' winners: no announcement
\* shares a transfer with another, and this one was not judged before.
LEMMA JudgedProcess ==
  ASSUME IInv, JudgedOnce, NEW k \in DOMAIN announced, ProcessAnnouncements(k)
  PROVE  JudgedOnce'
<1> SUFFICES ASSUME "worker-client" \notin killed'  PROVE JudgedOnce'
  BY DEF JudgedOnce
<1> DEFINE W == Winners(announced[k].of)
           n == Len(won)
<1>1. /\ announced[k].state = "unacked" /\ announced' = Sent(announced, k)
      /\ won' = IF W = {} THEN won ELSE Put(won, W)
      /\ "worker-client" \notin killed
  BY DEF ProcessAnnouncements, counters
<1>2. IsQueue(announced, SUBSET Draws) /\ IsQueue(won, SUBSET Transfer)
  BY DEF IInv, TypeOK
<1>3. W \in SUBSET Transfer /\ W \subseteq Transfers(announced[k].of)
  BY <1>2, QueueEntry DEF Winners, Transfers, Draws, Entries
<1>4. /\ \A j \in DOMAIN won : \A t \in won[j].of :
           \E i \in Judged : t \in Transfers(announced[i].of)
      /\ \A i, j \in DOMAIN won : i # j => won[i].of \cap won[j].of = {}
  BY <1>1 DEF JudgedOnce
<1>5. Others(announced, announced', k) /\ announced'[k].state = "sent"
  BY <1>1, <1>2, SentEffect
<1>6. k \notin Judged /\ k \in Judged' /\ Judged \subseteq Judged'
      /\ \A i \in DOMAIN announced : announced'[i].of = announced[i].of
  BY <1>1, <1>5 DEF Judged, Others
<1> HIDE DEF W
<1>7. CASE W = {}
  <2>1. won' = won
    BY <1>1, <1>7
  <2> QED BY <1>1, <1>6, <2>1, JudgedFrame, Unchanged
<1>8. CASE W # {}
  <2>1. /\ DOMAIN won = 1..n /\ DOMAIN won' = 1..n + 1 /\ n \in Nat
        /\ \A j \in DOMAIN won : won'[j] = won[j]
        /\ won'[n + 1].of = W
    BY <1>1, <1>2, <1>3, <1>8, PutEffect
  <2> HIDE DEF n
  <2>2. \A j \in DOMAIN won' : j \in DOMAIN won \/ j = n + 1
    BY <2>1
  <2>3. \A j \in DOMAIN won : won[j].of \cap W = {}
    <3> SUFFICES ASSUME NEW j \in DOMAIN won, NEW t \in won[j].of  PROVE t \notin W
      OBVIOUS
    <3>1. PICK i \in Judged : t \in Transfers(announced[i].of)
      BY <1>4
    <3>2. i # k /\ i \in DOMAIN announced
      BY <1>6 DEF Judged
    <3>3. Apart(announced[i].of, announced[k].of)
      BY <3>2 DEF IInv, DrawnOnce
    <3> QED BY <1>3, <3>1, <3>3 DEF Apart
  <2>4. \A i, j \in DOMAIN won' : i # j => won'[i].of \cap won'[j].of = {}
    BY <1>4, <2>1, <2>2, <2>3
  <2>5. \A j \in DOMAIN won' : \A t \in won'[j].of :
          \E i \in Judged' : t \in Transfers(announced'[i].of)
    <3> SUFFICES ASSUME NEW j \in DOMAIN won', NEW t \in won'[j].of
                 PROVE  \E i \in Judged' : t \in Transfers(announced'[i].of)
      OBVIOUS
    <3>1. CASE j = n + 1
      BY <1>3, <1>6, <2>1, <3>1
    <3>2. CASE j \in DOMAIN won
      <4>1. PICK i \in Judged : t \in Transfers(announced[i].of)
        BY <1>4, <2>1, <3>2
      <4> QED BY <1>6, <4>1 DEF Judged
    <3> QED BY <2>2, <3>1, <3>2
  <2> QED BY <2>4, <2>5 DEF JudgedOnce, Transfers
<1> QED BY <1>7, <1>8

LEMMA JudgedStep == IInv /\ JudgedOnce /\ [Next]_vars => JudgedOnce'
<1> SUFFICES ASSUME IInv, JudgedOnce, [Next]_vars  PROVE JudgedOnce'
  OBVIOUS
<1>0. IsQueue(announced, SUBSET Draws) /\ IsQueue(won, SUBSET Transfer)
  BY DEF IInv, TypeOK
<1>1. ASSUME UNCHANGED <<announced, won, killed>>  PROVE JudgedOnce'
  BY <1>1, JudgedFrame, Unchanged DEF Judged
<1>2. ASSUME NEW b \in DOMAIN blocks, ApplicationServer(b)  PROVE JudgedOnce'
  BY <1>1, <1>2
     DEF ApplicationServer, ReceiveBlock, Decorate, PublishHintedBlock, AckBlock, counters
<1>3. ASSUME NEW k \in DOMAIN work, WorkerServer(k), ~PublishAnnouncements(k)  PROVE JudgedOnce'
  BY <1>1, <1>3
     DEF WorkerServer, ReceiveWork, Skip, DrawTransfer, FailFailsafe, AckWork, counters
<1>4. ASSUME NEW k \in DOMAIN work, PublishAnnouncements(k)  PROVE JudgedOnce'
  <2> DEFINE D == work[k].drawn
  <2>1. announced' = Put(announced, D) /\ UNCHANGED <<won, killed>> /\ D \in SUBSET Draws
    BY <1>4, QueueEntry DEF PublishAnnouncements, counters, IInv, TypeOK, Entries
  <2> HIDE DEF D
  <2>2. /\ DOMAIN announced = 1..Len(announced) /\ DOMAIN announced' = 1..Len(announced) + 1
        /\ Len(announced) \in Nat
        /\ \A j \in DOMAIN announced : announced'[j] = announced[j]
    BY <1>0, <2>1, PutEffect
  <2>3. DOMAIN announced \subseteq DOMAIN announced'
    BY <2>2
  <2>4. Judged \subseteq Judged'
    BY <2>2, <2>3 DEF Judged
  <2> QED BY <2>1, <2>2, <2>4, JudgedFrame, Unchanged
<1>5. ASSUME NEW k \in DOMAIN announced, ReceiveAnnouncements(k)  PROVE JudgedOnce'
  <2>1. /\ Others(announced, announced', k) /\ announced[k].state = "ready"
        /\ UNCHANGED <<won, killed>>
    BY <1>0, <1>5, DeliveredEffect DEF ReceiveAnnouncements, Deliverable, counters
  <2>2. Judged \subseteq Judged'
    BY <2>1 DEF Judged, Others
  <2> QED BY <2>1, <2>2, JudgedFrame, Unchanged DEF Others
<1>6. ASSUME NEW k \in DOMAIN announced, ProcessAnnouncements(k)  PROVE JudgedOnce'
  BY <1>6, JudgedProcess
<1>7. ASSUME NEW k \in DOMAIN announced, AckAnnouncements(k)  PROVE JudgedOnce'
  <2>1. /\ Others(announced, announced', k) /\ announced'[k].state = "acked"
        /\ UNCHANGED <<won, killed>>
    BY <1>0, <1>7, AckedEffect DEF AckAnnouncements, counters
  <2>2. Judged \subseteq Judged'
    BY <2>1 DEF Judged, Others
  <2> QED BY <2>1, <2>2, JudgedFrame, Unchanged DEF Others
<1>8. ASSUME NEW k \in DOMAIN won, InsertAmmWinnings(k)  PROVE JudgedOnce'
  <2>1. Kept(won, won') /\ UNCHANGED <<announced, killed>>
    BY <1>0, <1>8, QueueAcked DEF InsertAmmWinnings, counters
  <2> QED BY <2>1, KeptAddsNone, JudgedFrame DEF Judged
<1>9. ASSUME Crash  PROVE JudgedOnce'
  <2>1. CASE announced' = announced
    <3>1. won' = won /\ ("worker-client" \in killed => "worker-client" \in killed')
      BY <1>9 DEF Crash, Down
    <3> QED BY <2>1, <3>1, JudgedFrame, Unchanged DEF Judged
  <2>2. CASE announced' # announced
    <3>1. "worker-client" \in killed'
      BY <1>9, <2>2 DEF Crash, Down
    <3> QED BY <3>1 DEF JudgedOnce
  <2> QED BY <2>1, <2>2
<1>10. ASSUME UNCHANGED vars  PROVE JudgedOnce'
  BY <1>1, <1>10 DEF vars, counters
<1> QED BY <1>2, <1>3, <1>4, <1>5, <1>6, <1>7, <1>8, <1>9, <1>10
       DEF Next, Services, WorkerClient

\* A transfer's wins are sent to the spooler a second time only when the
\* worker client was killed, however many goroutines it has and whatever
\* happens to the services before it (worker-client, worker-server's failsafe).
THEOREM WinsSentOnce == Spec => []WonOnceUnlessKilled
<1>1. Init => JudgedOnce
  BY DEF Init, JudgedOnce
<1>2. IInv /\ JudgedOnce => WonOnceUnlessKilled
  BY DEF JudgedOnce, WonOnceUnlessKilled
<1> QED BY <1>1, <1>2, JudgedStep, InitIInv, StepIInv, PTL DEF Spec
=============================================================================
