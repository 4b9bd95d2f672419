--------------------------- MODULE PayoutsProofs ---------------------------
(***************************************************************************)
(* However many goroutines flush however many wins, whatever the chain     *)
(* answers and whichever services go down, a row of the table of pending   *)
(* winners is part of one batch, a batch is submitted once more at most    *)
(* for each time the sender went down, a win is recorded at most once for  *)
(* each delivery of its announcement, and as long as only the tracker goes *)
(* down every win has one row, which is not lost.                          *)
(*                                                                         *)
(* The inductive invariant is in parts: the types (Shape); which messages  *)
(* the goroutines work on (Spooling); that a row is in one place, marked   *)
(* as sent (Apart, Marked); what the sender works on (InHand); how often   *)
(* a batch was tried (Tried); what has been recorded of an announcement    *)
(* (Recorded, Once); and that nothing marked as sent is lost (Kept).       *)
(*                                                                         *)
(* Of one goroutine that nobody interferes with more is true (TrueInv):    *)
(* rows and batches are in the order of the blocks, so that the log of a   *)
(* reward leads to the rows that were paid, and to no others.              *)
(***************************************************************************)
EXTENDS MCPayouts, SumsProofs, SequenceTheorems, FiniteSetTheorems, TLAPS

Stage == {"idle", "insert", "type", "weigh", "tell", "flush", "publish", "handled"}
Spooled == [pc : Stage, msg : Nat, at : Nat, typed : Nat, toSend : BOOLEAN, rows : SUBSET Nat]
PendingRow == [win : Win, sent : BOOLEAN]
Batch == [rows : SUBSET Nat, state : {"ready", "handed", "acked"}]
Payment == [batch : Nat, state : {"pending", "mined", "reverted"}, blocked : SUBSET Account]

Shape ==
  /\ inbox \in [Message -> {"ready", "unacked", "acked", "dead"}]
  /\ attempts \in [Message -> Nat]
  /\ spool \in [Goroutine -> Spooled]
  /\ pending \in Seq(PendingRow)
  /\ types \in [Win -> Nat] /\ reported \in [Win -> Nat] /\ told \subseteq Win
  /\ release \in SUBSET Nat
  /\ batches \in Seq(Batch)
  /\ sender \in [pc : {"idle", "call", "wait"}, batch : Nat, tx : Nat]
  /\ txs \in Seq(Payment)
  /\ events \subseteq Event /\ done \subseteq events
  /\ tracker \in [event : events \cup {NoEvent}, left : [Win -> Nat]]
  /\ crashes \in 0..MaxCrashes /\ restarted \subseteq Service

-----------------------------------------------------------------------------
(* The steps of the tables.                                                *)

\* A sequence with an element more at its end.
LEMMA Appended ==
  ASSUME NEW S, NEW q \in Seq(S), NEW e \in S
  PROVE  LET n == Len(q) + 1 IN
         /\ Append(q, e) \in Seq(S)
         /\ n \in Nat /\ n \notin DOMAIN q /\ DOMAIN q \subseteq Nat
         /\ DOMAIN Append(q, e) = DOMAIN q \cup {n}
         /\ Append(q, e)[n] = e
         /\ \A k \in DOMAIN q : Append(q, e)[k] = q[k]
<1>1. /\ Append(q, e) \in Seq(S) /\ Len(Append(q, e)) = Len(q) + 1 /\ Len(q) \in Nat
      /\ DOMAIN q = 1..Len(q) /\ DOMAIN Append(q, e) = 1..(Len(q) + 1)
      /\ \A k \in 1..Len(q) : Append(q, e)[k] = q[k]
      /\ Append(q, e)[Len(q) + 1] = e
  BY LenProperties, AppendProperties
<1> QED BY <1>1

\* A sequence of which an element is another.
LEMMA Replaced ==
  ASSUME NEW S, NEW q \in Seq(S), NEW k \in DOMAIN q, NEW e \in S
  PROVE  /\ [q EXCEPT ![k] = e] \in Seq(S)
         /\ DOMAIN [q EXCEPT ![k] = e] = DOMAIN q
         /\ [q EXCEPT ![k] = e][k] = e
         /\ \A l \in DOMAIN q : l # k => [q EXCEPT ![k] = e][l] = q[l]
BY ExceptSeq, LenProperties

\* A function on the indices of a sequence.
LEMMA Mapped ==
  ASSUME NEW S, NEW T, NEW q \in Seq(S), NEW f \in [DOMAIN q -> T]
  PROVE  f \in Seq(T) /\ DOMAIN f = DOMAIN q
<1>1. DOMAIN q = 1..Len(q) /\ Len(q) \in Nat
  BY LenProperties
<1>2. Seq(T) = UNION {[1..n -> T] : n \in Nat}
  BY SeqDef
<1> QED BY <1>1, <1>2

\* The rows of the table.
LEMMA RowsAreNumbers ==
  ASSUME Shape
  PROVE  Row \subseteq Nat /\ \A r \in Row : pending[r] \in PendingRow
BY LenProperties, ElementOfSeq DEF Shape, Row

LEMMA Inserting ==
  ASSUME Shape, NEW w \in Win, pending' = Append(pending, [win |-> w, sent |-> FALSE])
  PROVE  /\ pending' \in Seq(PendingRow)
         /\ \E n \in Nat :
              /\ n \notin Row /\ Row' = Row \cup {n}
              /\ pending'[n].win = w /\ ~pending'[n].sent
              /\ \A r \in Row : pending'[r] = pending[r]
<1> DEFINE e == [win |-> w, sent |-> FALSE]
           n == Len(pending) + 1
<1>1. e \in PendingRow /\ e.win = w /\ ~e.sent /\ pending \in Seq(PendingRow)
  BY DEF PendingRow, Shape
<1> HIDE DEF e
<1>2. pending' = Append(pending, e)
  BY DEF e
<1>3. /\ pending' \in Seq(PendingRow) /\ n \in Nat /\ n \notin DOMAIN pending
      /\ DOMAIN pending' = DOMAIN pending \cup {n} /\ pending'[n] = e
      /\ \A k \in DOMAIN pending : pending'[k] = pending[k]
  BY <1>1, <1>2, Appended
<1> QED BY <1>1, <1>3 DEF Row

LEMMA Marking ==
  ASSUME Shape, NEW S, MarkSent(S)
  PROVE  /\ pending' \in Seq(PendingRow) /\ Row' = Row
         /\ \A r \in Row : pending'[r].win = pending[r].win
                           /\ (pending'[r].sent <=> pending[r].sent \/ r \in S)
<1> DEFINE Marked(r) == [pending[r] EXCEPT !.sent = pending[r].sent \/ r \in S]
<1>1. pending' = [r \in Row |-> Marked(r)]
  BY DEF MarkSent
<1>2. \A r \in Row : /\ Marked(r) \in PendingRow /\ Marked(r).win = pending[r].win
                     /\ (Marked(r).sent <=> pending[r].sent \/ r \in S)
  BY RowsAreNumbers DEF PendingRow
<1> HIDE DEF Marked
<1>3. pending' \in [DOMAIN pending -> PendingRow]
  BY <1>1, <1>2 DEF Row
<1>4. pending' \in Seq(PendingRow) /\ DOMAIN pending' = DOMAIN pending
  BY <1>3, Mapped DEF Shape
<1> QED BY <1>1, <1>2, <1>4 DEF Row

LEMMA Enqueuing ==
  ASSUME Shape, NEW S \in SUBSET Nat, Enqueue(S)
  PROVE  /\ batches' \in Seq(Batch)
         /\ \E n \in Nat :
              /\ n \notin DOMAIN batches /\ DOMAIN batches' = DOMAIN batches \cup {n}
              /\ batches'[n].rows = S /\ batches'[n].state = "ready"
              /\ \A k \in DOMAIN batches : batches'[k] = batches[k]
<1> DEFINE e == [rows |-> S, state |-> "ready"]
           n == Len(batches) + 1
<1>1. e \in Batch /\ e.rows = S /\ e.state = "ready" /\ batches \in Seq(Batch)
  BY DEF Batch, Shape
<1>2. batches' = Append(batches, e)
  BY DEF Enqueue
<1> HIDE DEF e
<1>3. /\ batches' \in Seq(Batch) /\ n \in Nat /\ n \notin DOMAIN batches
      /\ DOMAIN batches' = DOMAIN batches \cup {n} /\ batches'[n] = e
      /\ \A k \in DOMAIN batches : batches'[k] = batches[k]
  BY <1>1, <1>2, Appended
<1> QED BY <1>1, <1>3

LEMMA Setting ==
  ASSUME Shape, NEW k \in DOMAIN batches, NEW s \in {"ready", "handed", "acked"}, SetBatch(k, s)
  PROVE  /\ batches' \in Seq(Batch) /\ DOMAIN batches' = DOMAIN batches
         /\ batches'[k].rows = batches[k].rows /\ batches'[k].state = s
         /\ \A l \in DOMAIN batches : l # k => batches'[l] = batches[l]
<1> DEFINE e == [batches[k] EXCEPT !.state = s]
<1>1. batches \in Seq(Batch) /\ batches[k] \in Batch
  BY LenProperties, ElementOfSeq DEF Shape
<1>2. e \in Batch /\ e.rows = batches[k].rows /\ e.state = s
  BY <1>1 DEF Batch
<1>3. batches' = [batches EXCEPT ![k] = e]
  BY DEF SetBatch
<1> HIDE DEF e
<1> QED BY <1>1, <1>2, <1>3, Replaced

LEMMA Redelivering ==
  ASSUME Shape, batches' = Redelivered
  PROVE  /\ batches' \in Seq(Batch) /\ DOMAIN batches' = DOMAIN batches
         /\ \A k \in DOMAIN batches :
              /\ batches'[k].rows = batches[k].rows
              /\ batches'[k].state = IF batches[k].state = "handed" THEN "ready" ELSE batches[k].state
<1> DEFINE Back(k) == IF batches[k].state = "handed" THEN [batches[k] EXCEPT !.state = "ready"]
                       ELSE batches[k]
<1>1. batches' = [k \in DOMAIN batches |-> Back(k)]
  BY DEF Redelivered
<1>2. \A k \in DOMAIN batches : batches[k] \in Batch
  BY LenProperties, ElementOfSeq DEF Shape
<1>3. \A k \in DOMAIN batches :
        /\ Back(k) \in Batch /\ Back(k).rows = batches[k].rows
        /\ Back(k).state = IF batches[k].state = "handed" THEN "ready" ELSE batches[k].state
  BY <1>2 DEF Batch
<1> HIDE DEF Back
<1>4. batches' \in [DOMAIN batches -> Batch]
  BY <1>1, <1>3
<1>5. batches' \in Seq(Batch) /\ DOMAIN batches' = DOMAIN batches
  BY <1>4, Mapped DEF Shape
<1> QED BY <1>1, <1>3, <1>5

-----------------------------------------------------------------------------
(* The steps of the services.                                              *)

\* Goroutine g goes on to s, the others stay where they are.
Becomes(g, s) ==
  /\ spool' \in [Goroutine -> Spooled] /\ spool'[g] = s
  /\ \A h \in Goroutine : h # g => spool'[h] = spool[h]

LEMMA SpoolChange ==
  ASSUME Shape, NEW g \in Goroutine, NEW s \in Spooled, spool' = [spool EXCEPT ![g] = s]
  PROVE  Becomes(g, s)
BY DEF Shape, Becomes

\* Goroutine g goes on to another statement with what it has.
GoesTo(g, pc) ==
  /\ Becomes(g, spool'[g])
  /\ spool'[g].pc = pc /\ spool'[g].msg = spool[g].msg /\ spool'[g].at = spool[g].at
  /\ spool'[g].typed = spool[g].typed /\ spool'[g].rows = spool[g].rows

LEMMA GotoEffect ==
  ASSUME Shape, NEW g \in Goroutine, NEW pc \in Stage, Goto(g, pc)
  PROVE  GoesTo(g, pc)
<1> DEFINE s == [spool[g] EXCEPT !.pc = pc]
<1>0. spool[g] \in Spooled
  BY DEF Shape
<1>1. /\ s \in Spooled /\ s.pc = pc /\ s.msg = spool[g].msg /\ s.at = spool[g].at
      /\ s.typed = spool[g].typed /\ s.rows = spool[g].rows
  BY <1>0 DEF Spooled
<1>2. spool' = [spool EXCEPT ![g] = s]
  BY DEF Goto
<1> HIDE DEF s
<1>3. Becomes(g, s)
  BY <1>1, <1>2, SpoolChange
<1>4. spool'[g] = s
  BY <1>3 DEF Becomes
<1> QED BY <1>1, <1>3, <1>4 DEF GoesTo

LEMMA IdleType == Idle \in Spooled
BY DEF Idle, Spooled, Stage

\* GetMessages delivers message m to goroutine g.
Delivered(g, m) ==
  /\ attempts[m] + 1 < MessageRetries
  /\ inbox' = [inbox EXCEPT ![m] = "unacked"]
  /\ Becomes(g, spool'[g])
  /\ spool'[g].pc = "insert" /\ spool'[g].msg = m /\ spool'[g].at = 1 /\ spool'[g].typed = 1
  /\ spool'[g].rows = {}

LEMMA FirstIsLeast ==
  ASSUME NEW S \in SUBSET Nat, S # {}
  PROVE  First(S) \in S /\ \A y \in S : First(S) <= y
<1>1. \E x \in S : \A y \in S : x <= y
  BY LeastElement
<1> QED BY <1>1 DEF First

LEMMA ReceiveEffect ==
  ASSUME Shape, NEW g \in Goroutine, Receive(g)
  PROVE  \E m \in Message :
           /\ inbox[m] = "ready" /\ spool[g].pc = "idle"
           /\ attempts' = [attempts EXCEPT ![m] = attempts[m] + 1]
           /\ \/ Delivered(g, m)
              \/ /\ inbox' = [inbox EXCEPT ![m] = "dead"] /\ spool' = spool
                 /\ attempts[m] + 1 >= MessageRetries
<1> DEFINE m == First(Ready)
<1>1. Ready \subseteq Nat /\ Ready # {}
  BY PayoutsAssumption DEF Ready, Message, Receive
<1>2. m \in Ready
  BY <1>1, FirstIsLeast
<1>3. m \in Message /\ inbox[m] = "ready" /\ 1 \in Nat /\ m \in Nat
  BY <1>2, PayoutsAssumption DEF Ready, Message
<1>4. /\ spool[g].pc = "idle"
      /\ attempts' = [attempts EXCEPT ![m] = attempts[m] + 1]
      /\ \/ /\ attempts[m] + 1 < MessageRetries
            /\ inbox' = [inbox EXCEPT ![m] = "unacked"]
            /\ spool' = [spool EXCEPT ![g] = [Idle EXCEPT !.pc = "insert", !.msg = m, !.at = 1, !.typed = 1]]
         \/ /\ inbox' = [inbox EXCEPT ![m] = "dead"] /\ spool' = spool
            /\ attempts[m] + 1 >= MessageRetries
  BY DEF Receive
<1> HIDE DEF m
<1> DEFINE s == [Idle EXCEPT !.pc = "insert", !.msg = m, !.at = 1, !.typed = 1]
<1>5. s \in Spooled /\ s.pc = "insert" /\ s.msg = m /\ s.at = 1 /\ s.typed = 1 /\ s.rows = {}
  BY <1>3 DEF Idle, Spooled, Stage
<1> HIDE DEF s
<1>6. CASE /\ attempts[m] + 1 < MessageRetries
           /\ inbox' = [inbox EXCEPT ![m] = "unacked"]
           /\ spool' = [spool EXCEPT ![g] = s]
  <2>1. Becomes(g, s) /\ spool'[g] = s
    BY <1>5, <1>6, SpoolChange DEF Becomes
  <2> QED BY <1>3, <1>4, <1>5, <1>6, <2>1 DEF Delivered
<1> QED BY <1>3, <1>4, <1>6 DEF s

\* What the list of the goroutine's message is.
LEMMA ItsList ==
  ASSUME Shape, NEW g \in Goroutine, spool[g].msg \in Message, spool[g].at \in DOMAIN WinsIn[spool[g].msg]
  PROVE  LET l == WinsIn[spool[g].msg] IN
         /\ l \in Seq(Win) /\ DOMAIN l = 1..Len(l) /\ Len(l) \in Nat
         /\ spool[g].at \in Nat /\ 1 <= spool[g].at /\ spool[g].at <= Len(l)
         /\ \A i \in 1..Len(l) : l[i] \in Win
         /\ \A i \in 1..spool[g].at : l[i] \in Win
<1> DEFINE l == WinsIn[spool[g].msg]
<1>1. l \in Seq(Win) /\ DOMAIN l = 1..Len(l) /\ Len(l) \in Nat
  BY PayoutsAssumption, LenProperties
<1>2. \A i \in 1..Len(l) : l[i] \in Win
  BY <1>1, ElementOfSeq
<1> HIDE DEF l
<1>3. spool[g].at \in Nat /\ 1 <= spool[g].at /\ spool[g].at <= Len(l)
  BY <1>1 DEF l
<1>4. \A i \in 1..spool[g].at : i \in 1..Len(l)
  BY <1>1, <1>3
<1> QED BY <1>1, <1>2, <1>3, <1>4 DEF l

\* The goroutine is at its next payout, or has come to the last of the announcement.
Recording(g) ==
  /\ Becomes(g, spool'[g])
  /\ spool'[g].msg = spool[g].msg /\ spool'[g].rows = spool[g].rows /\ spool'[g].typed = spool[g].typed
  /\ \/ spool'[g].pc = "type" /\ spool'[g].at = spool[g].at
     \/ /\ spool'[g].pc = "insert" /\ spool'[g].at = spool[g].at + 1
        /\ spool'[g].at \in DOMAIN WinsIn[spool[g].msg]

LEMMA InsertEffect ==
  ASSUME Shape, NEW g \in Goroutine, InsertPendingWinners(g), spool[g].msg \in Message,
         spool[g].at \in DOMAIN WinsIn[spool[g].msg]
  PROVE  Recording(g)
<1> DEFINE l == WinsIn[spool[g].msg]
           pc == IF IsLast(g) THEN "type" ELSE "insert"
           n == IF IsLast(g) THEN spool[g].at ELSE spool[g].at + 1
           s == [[spool[g] EXCEPT !.pc = pc] EXCEPT !.at = n]
<1>1. DOMAIN l = 1..Len(l) /\ Len(l) \in Nat /\ spool[g].at \in Nat /\ 1 <= spool[g].at /\ spool[g].at <= Len(l)
  BY ItsList
<1>2. spool[g] \in Spooled /\ n \in Nat /\ pc \in Stage
  BY <1>1 DEF Shape, Stage
<1>3. spool' = [spool EXCEPT ![g].pc = pc, ![g].at = n]
  BY DEF InsertPendingWinners
<1>4. \/ pc = "type" /\ n = spool[g].at
      \/ pc = "insert" /\ n = spool[g].at + 1 /\ n \in DOMAIN l
  <2>1. ~IsLast(g) => spool[g].at # Len(l)
    BY DEF IsLast, IsLastOfList
  <2> QED BY <1>1, <2>1
<1> HIDE DEF n, pc, l
<1>5. spool' = [spool EXCEPT ![g] = s]
  BY <1>3 DEF Shape
<1>6. /\ s \in Spooled /\ s.pc = pc /\ s.msg = spool[g].msg /\ s.at = n
      /\ s.typed = spool[g].typed /\ s.rows = spool[g].rows
  BY <1>2 DEF Spooled
<1> HIDE DEF s
<1>7. Becomes(g, s) /\ spool'[g] = s
  BY <1>5, <1>6, SpoolChange DEF Becomes
<1> QED BY <1>4, <1>6, <1>7 DEF Recording, l

\* The same of the other table.
Noted(g) ==
  /\ Becomes(g, spool'[g])
  /\ spool'[g].msg = spool[g].msg /\ spool'[g].rows = spool[g].rows /\ spool'[g].at = spool[g].at
  /\ spool'[g].pc \in {"type", "weigh"} /\ spool'[g].typed \in 1..spool[g].at

LEMMA TypeEffect ==
  ASSUME Shape, NEW g \in Goroutine, InsertPendingRewardType(g), spool[g].typed \in 1..spool[g].at
  PROVE  Noted(g)
<1> DEFINE pc == IF spool[g].typed = spool[g].at THEN "weigh" ELSE "type"
           n == IF spool[g].typed = spool[g].at THEN spool[g].typed ELSE spool[g].typed + 1
           s == [[spool[g] EXCEPT !.pc = pc] EXCEPT !.typed = n]
<1>1. spool[g] \in Spooled /\ spool[g].at \in Nat /\ spool[g].typed \in Nat
  BY DEF Shape, Spooled
<1>2. n \in Nat /\ n \in 1..spool[g].at /\ pc \in Stage /\ pc \in {"type", "weigh"}
  BY <1>1 DEF Stage
<1>3. spool' = [spool EXCEPT ![g].pc = pc, ![g].typed = n]
  BY DEF InsertPendingRewardType
<1> HIDE DEF n, pc
<1>4. spool' = [spool EXCEPT ![g] = s]
  BY <1>3 DEF Shape
<1>5. /\ s \in Spooled /\ s.pc = pc /\ s.msg = spool[g].msg /\ s.at = spool[g].at
      /\ s.typed = n /\ s.rows = spool[g].rows
  BY <1>1, <1>2 DEF Spooled
<1> HIDE DEF s
<1>6. Becomes(g, s) /\ spool'[g] = s
  BY <1>4, <1>5, SpoolChange DEF Becomes
<1> QED BY <1>2, <1>5, <1>6 DEF Noted

LEMMA WeighEffect ==
  ASSUME Shape, NEW g \in Goroutine, Weigh(g)
  PROVE  GoesTo(g, "tell")
<1> DEFINE b == spool[g].toSend \/ ReachesThreshold(g)
           s == [[spool[g] EXCEPT !.pc = "tell"] EXCEPT !.toSend = b]
<1>1. spool[g] \in Spooled /\ b \in BOOLEAN /\ "tell" \in Stage
  BY DEF Shape, Stage
<1>2. spool' = [spool EXCEPT ![g].pc = "tell", ![g].toSend = b]
  BY DEF Weigh
<1> HIDE DEF b
<1>3. spool' = [spool EXCEPT ![g] = s]
  BY <1>2 DEF Shape
<1>4. /\ s \in Spooled /\ s.pc = "tell" /\ s.msg = spool[g].msg /\ s.at = spool[g].at
      /\ s.typed = spool[g].typed /\ s.rows = spool[g].rows
  BY <1>1 DEF Spooled
<1> HIDE DEF s
<1>5. Becomes(g, s) /\ spool'[g] = s
  BY <1>3, <1>4, SpoolChange DEF Becomes
<1> QED BY <1>4, <1>5 DEF GoesTo

\* The goroutine goes on to the next announcement, or to the flush after the last.
Telling(g) ==
  /\ Becomes(g, spool'[g])
  /\ spool'[g].msg = spool[g].msg /\ spool'[g].rows = spool[g].rows /\ spool'[g].typed = spool'[g].at
  /\ \/ spool'[g].pc = "flush" /\ spool'[g].at = spool[g].at
     \/ /\ spool'[g].pc = "insert" /\ spool'[g].at = spool[g].at + 1
        /\ spool'[g].at \in DOMAIN WinsIn[spool[g].msg]

LEMMA TellEffect ==
  ASSUME Shape, NEW g \in Goroutine, TellPending(g), spool[g].msg \in Message,
         spool[g].at \in DOMAIN WinsIn[spool[g].msg]
  PROVE  Telling(g) /\ told' = told \cup SoFar(g) /\ told' \subseteq Win
<1> DEFINE l == WinsIn[spool[g].msg]
           pc == IF IsLastOfList(g) THEN "flush" ELSE "insert"
           n == IF IsLastOfList(g) THEN spool[g].at ELSE spool[g].at + 1
           s == [[[spool[g] EXCEPT !.pc = pc] EXCEPT !.at = n] EXCEPT !.typed = n]
<1>1. DOMAIN l = 1..Len(l) /\ Len(l) \in Nat /\ spool[g].at \in Nat /\ 1 <= spool[g].at /\ spool[g].at <= Len(l)
  BY ItsList
<1>2. spool[g] \in Spooled /\ n \in Nat /\ pc \in Stage
  BY <1>1 DEF Shape, Stage
<1>3. spool' = [spool EXCEPT ![g].pc = pc, ![g].at = n, ![g].typed = n] /\ told' = told \cup SoFar(g)
  BY DEF TellPending
<1>4. \/ pc = "flush" /\ n = spool[g].at
      \/ pc = "insert" /\ n = spool[g].at + 1 /\ n \in DOMAIN l
  BY <1>1 DEF IsLastOfList
<1> HIDE DEF n, pc, l
<1>5. spool' = [spool EXCEPT ![g] = s]
  BY <1>3 DEF Shape
<1>6. /\ s \in Spooled /\ s.pc = pc /\ s.msg = spool[g].msg /\ s.at = n
      /\ s.typed = n /\ s.rows = spool[g].rows
  BY <1>2 DEF Spooled
<1>7. told' \subseteq Win
  <2>1. SoFar(g) \subseteq Win
    BY ItsList DEF SoFar
  <2> QED BY <1>3, <2>1 DEF Shape
<1> HIDE DEF s
<1>8. Becomes(g, s) /\ spool'[g] = s
  BY <1>5, <1>6, SpoolChange DEF Becomes
<1>9. Telling(g)
  <2>1. /\ spool'[g].pc = pc /\ spool'[g].msg = spool[g].msg /\ spool'[g].at = n
        /\ spool'[g].typed = n /\ spool'[g].rows = spool[g].rows
    BY <1>6, <1>8
  <2>2. Becomes(g, spool'[g])
    BY <1>8
  <2>3. \/ pc = "flush" /\ n = spool[g].at
        \/ pc = "insert" /\ n = spool[g].at + 1 /\ n \in DOMAIN WinsIn[spool[g].msg]
    BY <1>4 DEF l
  <2> QED BY <2>1, <2>2, <2>3 DEF Telling
<1> QED BY <1>3, <1>7, <1>9

\* The rows a goroutine takes, or gives away.
LEMMA RowsChange ==
  ASSUME Shape, NEW g \in Goroutine, NEW pc \in Stage, NEW R \in SUBSET Nat,
         spool' = [spool EXCEPT ![g].pc = pc, ![g].rows = R]
  PROVE  /\ Becomes(g, spool'[g]) /\ spool'[g].pc = pc /\ spool'[g].rows = R
         /\ spool'[g].msg = spool[g].msg /\ spool'[g].at = spool[g].at /\ spool'[g].typed = spool[g].typed
<1> DEFINE s == [[spool[g] EXCEPT !.pc = pc] EXCEPT !.rows = R]
<1>0. spool[g] \in Spooled
  BY DEF Shape
<1>1. /\ s \in Spooled /\ s.pc = pc /\ s.rows = R /\ s.msg = spool[g].msg /\ s.at = spool[g].at
      /\ s.typed = spool[g].typed
  BY <1>0 DEF Spooled
<1>2. spool' = [spool EXCEPT ![g] = s]
  BY DEF Shape
<1> HIDE DEF s
<1>3. Becomes(g, s) /\ spool'[g] = s
  BY <1>1, <1>2, SpoolChange DEF Becomes
<1> QED BY <1>1, <1>3

\* The last of the handler: the rows went with the batch.
LEMMA RowsLeave ==
  ASSUME Shape, NEW g \in Goroutine,
         spool' = [spool EXCEPT ![g].pc = "handled", ![g].rows = {}]
  PROVE  /\ Becomes(g, spool'[g]) /\ spool'[g].pc = "handled" /\ spool'[g].rows = {}
         /\ spool'[g].msg = spool[g].msg /\ spool'[g].at = spool[g].at /\ spool'[g].typed = spool[g].typed
<1>1. "handled" \in Stage /\ {} \in SUBSET Nat
  BY DEF Stage
<1> QED BY <1>1, RowsChange

LEMMA UnsentAreNumbers == ASSUME Shape  PROVE Unsent \in SUBSET Nat
BY RowsAreNumbers DEF Unsent

\* The spooler goes down: nothing in memory is left.
LEMMA SpoolerDownEffect ==
  ASSUME Shape, SpoolerDown
  PROVE  /\ inbox' \in [Message -> {"ready", "unacked", "acked", "dead"}]
         /\ \A m \in Message : inbox'[m] = IF inbox[m] = "unacked" THEN "ready" ELSE inbox[m]
         /\ spool' \in [Goroutine -> Spooled] /\ \A g \in Goroutine : spool'[g] = Idle
         /\ restarted' = restarted \cup {"spooler"}
         /\ UNCHANGED <<attempts, tables, told, release, sending, txs, events, tracking>>
<1>1. inbox' = [m \in Message |-> IF inbox[m] = "unacked" THEN "ready" ELSE inbox[m]]
  BY DEF SpoolerDown
<1>2. spool' = [g \in Goroutine |-> Idle]
  BY DEF SpoolerDown
<1>3. /\ inbox' \in [Message -> {"ready", "unacked", "acked", "dead"}]
      /\ \A m \in Message : inbox'[m] = IF inbox[m] = "unacked" THEN "ready" ELSE inbox[m]
  BY <1>1 DEF Shape
<1>4. spool' \in [Goroutine -> Spooled] /\ \A g \in Goroutine : spool'[g] = Idle
  BY <1>2, IdleType
<1> QED BY <1>3, <1>4 DEF SpoolerDown

\* A batch goes to the main loop of the sender.
LEMMA HandEffect ==
  ASSUME Shape, Hand
  PROVE  \E k \in DOMAIN batches :
           /\ sender.pc = "idle" /\ batches[k].state = "ready"
           /\ batches' \in Seq(Batch) /\ DOMAIN batches' = DOMAIN batches
           /\ batches'[k].rows = batches[k].rows /\ batches'[k].state = "handed"
           /\ \A l \in DOMAIN batches : l # k => batches'[l] = batches[l]
           /\ sender' \in [pc : {"idle", "call", "wait"}, batch : Nat, tx : Nat]
           /\ sender'.pc = "call" /\ sender'.batch = k
<1>1. PICK k \in DOMAIN batches :
        /\ sender.pc = "idle" /\ batches[k].state = "ready" /\ SetBatch(k, "handed")
        /\ sender' = [Waiting EXCEPT !.pc = "call", !.batch = k]
  BY DEF Hand
<1>2. k \in Nat
  BY LenProperties DEF Shape
<1>3. sender' = [pc |-> "call", batch |-> k, tx |-> 0]
  BY <1>1 DEF Waiting
<1> QED BY <1>1, <1>2, <1>3, Setting

LEMMA CallEffect ==
  ASSUME Shape, Call
  PROVE  /\ sender.pc = "call" /\ txs' \in Seq(Payment)
         /\ sender' \in [pc : {"idle", "call", "wait"}, batch : Nat, tx : Nat]
         /\ sender'.pc = "wait" /\ sender'.batch = sender.batch
         /\ sender'.tx \in Nat /\ sender'.tx \notin DOMAIN txs
         /\ DOMAIN txs' = DOMAIN txs \cup {sender'.tx}
         /\ txs'[sender'.tx].batch = sender.batch
         /\ \A t \in DOMAIN txs : txs'[t] = txs[t]
<1> DEFINE e == [batch |-> sender.batch, state |-> "pending", blocked |-> {}]
           n == Len(txs) + 1
<1>1. /\ e \in Payment /\ e.batch = sender.batch /\ txs \in Seq(Payment)
      /\ sender \in [pc : {"idle", "call", "wait"}, batch : Nat, tx : Nat]
  BY DEF Payment, Shape
<1>2. txs' = Append(txs, e) /\ sender' = [sender EXCEPT !.pc = "wait", !.tx = n] /\ sender.pc = "call"
  BY DEF Call
<1> HIDE DEF e
<1>3. /\ txs' \in Seq(Payment) /\ n \in Nat /\ n \notin DOMAIN txs
      /\ DOMAIN txs' = DOMAIN txs \cup {n} /\ txs'[n] = e
      /\ \A k \in DOMAIN txs : txs'[k] = txs[k]
  BY <1>1, <1>2, Appended
<1> HIDE DEF n
<1>4. /\ sender' \in [pc : {"idle", "call", "wait"}, batch : Nat, tx : Nat]
      /\ sender'.pc = "wait" /\ sender'.batch = sender.batch /\ sender'.tx = n
  BY <1>1, <1>2, <1>3
<1> QED BY <1>1, <1>2, <1>3, <1>4

\* A payment is mined, or reverts: the batch it pays does not change.
Settled(t) ==
  /\ txs' \in Seq(Payment) /\ DOMAIN txs' = DOMAIN txs
  /\ \A u \in DOMAIN txs : txs'[u].batch = txs[u].batch
  /\ events \subseteq events' /\ events' \subseteq Event

LEMMA WaitingType == Waiting \in [pc : {"idle", "call", "wait"}, batch : Nat, tx : Nat]
                     /\ Waiting.pc = "idle"
BY DEF Waiting

LEMMA SettledEffect ==
  ASSUME Shape, NEW t \in DOMAIN txs, Mine(t) \/ Revert(t),
         txs[t].batch \in DOMAIN batches, RowsOf(t) \subseteq Row
  PROVE  Settled(t)
<1>1. txs \in Seq(Payment) /\ txs[t] \in Payment /\ t \in Nat
  BY LenProperties, ElementOfSeq DEF Shape
<1>2. CASE Revert(t)
  <2> DEFINE e == [txs[t] EXCEPT !.state = "reverted"]
  <2>1. e \in Payment /\ e.batch = txs[t].batch
    BY <1>1 DEF Payment
  <2>2. txs' = [txs EXCEPT ![t] = e] /\ events' = events
    BY <1>2 DEF Revert
  <2> HIDE DEF e
  <2>3. /\ txs' \in Seq(Payment) /\ DOMAIN txs' = DOMAIN txs /\ txs'[t] = e
        /\ \A u \in DOMAIN txs : u # t => txs'[u] = txs[u]
    BY <1>1, <2>1, <2>2, Replaced
  <2>4. events \subseteq Event
    BY DEF Shape
  <2> QED BY <2>1, <2>2, <2>3, <2>4 DEF Settled
<1>3. CASE Mine(t)
  <2>1. PICK blocked \in SUBSET (Quarantined \cap WinnersOf(t)) :
          /\ txs' = [txs EXCEPT ![t].state = "mined", ![t].blocked = blocked]
          /\ events' = events \cup
               {[tx |-> t, winner |-> a, kind |-> IF a \in blocked THEN "blocked" ELSE "reward"] :
                  a \in WinnersOf(t)}
    BY <1>3 DEF Mine
  <2> DEFINE e == [[txs[t] EXCEPT !.state = "mined"] EXCEPT !.blocked = blocked]
  <2>2. blocked \subseteq Account
    BY PayoutsAssumption
  <2>3. e \in Payment /\ e.batch = txs[t].batch
    BY <1>1, <2>2 DEF Payment
  <2>4. txs' = [txs EXCEPT ![t] = e]
    BY <1>1, <2>1
  <2> HIDE DEF e
  <2>5. /\ txs' \in Seq(Payment) /\ DOMAIN txs' = DOMAIN txs /\ txs'[t] = e
        /\ \A u \in DOMAIN txs : u # t => txs'[u] = txs[u]
    BY <1>1, <2>3, <2>4, Replaced
  <2>6. WinnersOf(t) \subseteq Account
    BY RowsAreNumbers, PayoutsAssumption DEF WinnersOf, WinsOf, WinOf, PendingRow
  <2>7. events' \subseteq Event
    BY <1>1, <2>1, <2>6 DEF Event, Shape
  <2> QED BY <2>1, <2>3, <2>5, <2>7 DEF Settled
<1> QED BY <1>2, <1>3

\* track-winners only takes rows away, and counts what it publishes.
LEMMA TrackerShape ==
  ASSUME Shape, Tracker \/ TrackerCrash \/ (\E e \in events : Unblock(e))
  PROVE  /\ UNCHANGED <<spooler, pending, release, sending, txs>>
         /\ types' \in [Win -> Nat] /\ reported' \in [Win -> Nat] /\ told' \subseteq Win
         /\ events' \subseteq Event /\ done' \subseteq events'
         /\ tracker' \in [event : events' \cup {NoEvent}, left : [Win -> Nat]]
         /\ crashes' \in 0..MaxCrashes /\ crashes' >= crashes
         /\ restarted' \in {restarted, restarted \cup {"tracker"}}
<1> USE DEF tables, tracking
<1>0. /\ types \in [Win -> Nat] /\ reported \in [Win -> Nat] /\ told \subseteq Win
      /\ events \subseteq Event /\ done \subseteq events /\ crashes \in 0..MaxCrashes
      /\ tracker \in [event : events \cup {NoEvent}, left : [Win -> Nat]] /\ MaxCrashes \in Nat
  BY PayoutsAssumption DEF Shape
<1>1. CASE TrackBlocked
  BY <1>0, <1>1 DEF TrackBlocked
<1>2. CASE TrackReward
  <2>1. PICK e \in events \ done :
          /\ types' = Remove(e)
          /\ tracker' = [event |-> e,
                         left |-> [w \in Win |-> IF PaidBy(e, w) THEN types[w] ELSE 0]]
    BY <1>2 DEF TrackReward
  <2>2. Remove(e) \in [Win -> Nat]
    <3>1. \A w \in Win : (IF PaidBy(e, w) THEN 0 ELSE types[w]) \in Nat
      BY <1>0
    <3> QED BY <3>1 DEF Remove
  <2> DEFINE left == [w \in Win |-> IF PaidBy(e, w) THEN types[w] ELSE 0]
  <2>3. left \in [Win -> Nat]
    <3>1. \A w \in Win : (IF PaidBy(e, w) THEN types[w] ELSE 0) \in Nat
      BY <1>0
    <3> QED BY <3>1
  <2> HIDE DEF left
  <2>4. tracker' = [event |-> e, left |-> left]
    BY <2>1 DEF left
  <2>5. tracker' \in [event : events \cup {NoEvent}, left : [Win -> Nat]]
    BY <2>3, <2>4
  <2> QED BY <1>0, <1>2, <2>1, <2>2, <2>5 DEF TrackReward
<1>3. CASE AckEvent
  <2>1. tracker.event # NoEvent
    <3>1. tracker = [event |-> tracker.event, left |-> tracker.left]
      BY <1>0
    <3> QED BY <1>3, <3>1 DEF AckEvent, Resting
  <2>2. Resting \in [event : events \cup {NoEvent}, left : [Win -> Nat]]
    BY DEF Resting, NoWins
  <2> QED BY <1>0, <1>3, <2>1, <2>2 DEF AckEvent
<1>4. CASE \E w \in Win : PublishWinner(w)
  <2>1. PICK w \in Win :
          /\ tracker.left[w] > 0
          /\ reported' = [reported EXCEPT ![w] = @ + 1]
          /\ tracker' = [tracker EXCEPT !.left[w] = @ - 1]
    BY <1>4 DEF PublishWinner
  <2> DEFINE l == [tracker.left EXCEPT ![w] = tracker.left[w] - 1]
  <2>2. tracker.left[w] - 1 \in Nat /\ tracker.left \in [Win -> Nat]
    BY <1>0, <2>1
  <2>3. l \in [Win -> Nat]
    BY <2>2
  <2>4. tracker' = [tracker EXCEPT !.left = l]
    BY <1>0, <2>1
  <2> HIDE DEF l
  <2>5. tracker' \in [event : events \cup {NoEvent}, left : [Win -> Nat]]
    BY <1>0, <2>3, <2>4
  <2>6. reported' \in [Win -> Nat]
    BY <1>0, <2>1
  <2> QED BY <1>0, <1>4, <2>5, <2>6 DEF PublishWinner
<1>5. CASE TrackerCrash
  <2>1. Resting \in [event : events \cup {NoEvent}, left : [Win -> Nat]]
    BY DEF Resting, NoWins
  <2> QED BY <1>0, <1>5, <2>1 DEF TrackerCrash, Down
<1>6. CASE \E e \in events : Unblock(e)
  <2>1. PICK e \in events : Unblock(e)
    BY <1>6
  <2>2. [e EXCEPT !.kind = "unblocked"] \in Event
    BY <1>0 DEF Event
  <2> QED BY <1>0, <2>1, <2>2 DEF Unblock
<1> QED BY <1>1, <1>2, <1>3, <1>4, <1>5, <1>6 DEF Tracker

-----------------------------------------------------------------------------
(* The invariant.                                                          *)

Busy(g) == spool[g].pc # "idle"

\* Every busy goroutine has a message of its own, and rows only between taking
\* and publishing them.
Spooling ==
  \A g \in Goroutine :
    /\ Busy(g) => /\ spool[g].msg \in Message /\ spool[g].at \in DOMAIN WinsIn[spool[g].msg]
                  /\ inbox[spool[g].msg] = "unacked"
                  /\ \A h \in Goroutine : (h # g /\ Busy(h)) => spool[h].msg # spool[g].msg
    /\ Busy(g) => spool[g].typed \in 1..spool[g].at
    /\ (spool[g].pc # "publish") => spool[g].rows = {}
    /\ (spool[g].pc = "publish") => spool[g].rows # {}

Fresh ==
  \A m \in Message :
    /\ attempts[m] <= MessageRetries
    /\ (inbox[m] \in {"ready", "unacked"}) => attempts[m] < MessageRetries

\* A row is with one goroutine, with the release, or in one batch ...
Apart ==
  /\ \A g, h \in Goroutine : g # h => spool[g].rows \cap spool[h].rows = {}
  /\ \A g \in Goroutine : spool[g].rows \cap release = {}
  /\ \A g \in Goroutine, k \in DOMAIN batches : spool[g].rows \cap batches[k].rows = {}
  /\ \A k \in DOMAIN batches : release \cap batches[k].rows = {}
  /\ \A k, l \in DOMAIN batches : k # l => batches[k].rows \cap batches[l].rows = {}

\* ... and marked as sent.
Sent(R) == \A r \in R : r \in Row /\ pending[r].sent

Marked ==
  /\ \A g \in Goroutine : Sent(spool[g].rows)
  /\ Sent(release)
  /\ \A k \in DOMAIN batches : batches[k].rows # {} /\ Sent(batches[k].rows)

InHand ==
  /\ sender.pc # "idle" => sender.batch \in DOMAIN batches /\ batches[sender.batch].state # "ready"
  /\ sender.pc = "wait" => sender.tx \in DOMAIN txs /\ txs[sender.tx].batch = sender.batch
  /\ \A t \in DOMAIN txs : txs[t].batch \in DOMAIN batches

\* The payments submitted for a batch.
Tries(k) == {t \in DOMAIN txs : txs[t].batch = k}

Repeats == IF "sender" \in restarted THEN crashes ELSE 0

Calling(k) == sender.pc = "call" /\ sender.batch = k

Tried ==
  \A k \in DOMAIN batches :
    /\ Cardinality(Tries(k)) <= Repeats + 1
    /\ (batches[k].state = "ready" \/ Calling(k)) => Cardinality(Tries(k)) <= Repeats

\* A goroutine is still to record the i'th win of message m.
Ahead(m, i) ==
  \E g \in Goroutine :
    /\ Busy(g) /\ spool[g].msg = m
    /\ i > spool[g].at \/ (i = spool[g].at /\ spool[g].pc = "insert")

Recorded ==
  \A m \in Message : \A i \in DOMAIN WinsIn[m] :
    /\ Cardinality(RowsHolding(WinsIn[m][i])) <= attempts[m]
    /\ Ahead(m, i) => Cardinality(RowsHolding(WinsIn[m][i])) < attempts[m]

Once ==
  "spooler" \notin restarted =>
    /\ \A m \in Message : \A i \in DOMAIN WinsIn[m] :
         (inbox[m] = "ready" \/ Ahead(m, i)) => RowsHolding(WinsIn[m][i]) = {}
    /\ \A r, q \in Row : WinOf(r) = WinOf(q) => r = q

Somewhere(r) ==
  \/ \E g \in Goroutine : r \in spool[g].rows
  \/ r \in release
  \/ \E k \in DOMAIN batches : r \in batches[k].rows

Kept ==
  restarted \subseteq {"tracker"} =>
    /\ \A r \in Row : pending[r].sent => Somewhere(r)
    /\ \A k \in DOMAIN batches : batches[k].state = "ready" \/ Calling(k) \/ Tries(k) # {}

Placed == Apart /\ Marked
Counted == Recorded /\ Once
IInv == Shape /\ Spooling /\ Fresh /\ Placed /\ InHand /\ Tried /\ Counted /\ Kept

-----------------------------------------------------------------------------
(* What a part of the invariant needs to be preserved.                     *)

SameWins == Row' = Row /\ \A r \in Row : pending'[r].win = pending[r].win

\* Nobody gets a row that they had not.
LEMMA PlacedFrame ==
  ASSUME Placed,
         \A g \in Goroutine : spool'[g].rows \subseteq spool[g].rows,
         release' \subseteq release,
         DOMAIN batches' = DOMAIN batches,
         \A k \in DOMAIN batches : batches'[k].rows = batches[k].rows,
         \A r \in Row : r \in Row' /\ (pending[r].sent => pending'[r].sent)
  PROVE  Placed'
<1>1. \A R : Sent(R) => \A r \in R : r \in Row' /\ pending'[r].sent
  BY DEF Sent
<1>2. Marked'
  BY <1>1 DEF Placed, Marked, Sent
<1>3. Apart'
  <2>1. \A g, h \in Goroutine : g # h => spool'[g].rows \cap spool'[h].rows = {}
    BY DEF Placed, Apart
  <2>2. \A g \in Goroutine : spool'[g].rows \cap release' = {}
    BY DEF Placed, Apart
  <2>3. \A g \in Goroutine, k \in DOMAIN batches' : spool'[g].rows \cap batches'[k].rows = {}
    BY DEF Placed, Apart
  <2>4. \A k \in DOMAIN batches' : release' \cap batches'[k].rows = {}
    BY DEF Placed, Apart
  <2>5. \A k, l \in DOMAIN batches' : k # l => batches'[k].rows \cap batches'[l].rows = {}
    BY DEF Placed, Apart
  <2> QED BY <2>1, <2>2, <2>3, <2>4, <2>5 DEF Apart
<1> QED BY <1>2, <1>3 DEF Placed

LEMMA SpoolingFrame ==
  ASSUME Spooling, Fresh, inbox' = inbox, spool' = spool, attempts' = attempts
  PROVE  Spooling' /\ Fresh'
BY DEF Spooling, Fresh, Busy

LEMMA CountedFrame ==
  ASSUME Counted, SameWins, attempts' = attempts,
         "spooler" \notin restarted' => "spooler" \notin restarted,
         \A m \in Message : inbox'[m] = "ready" => inbox[m] = "ready" \/ "spooler" \in restarted',
         \A m \in Message : \A i \in DOMAIN WinsIn[m] : Ahead(m, i)' => Ahead(m, i)
  PROVE  Counted'
<1>1. \A w : {r \in Row' : pending'[r].win = w} = {r \in Row : pending[r].win = w}
  BY DEF SameWins
<1>2. \A w : RowsHolding(w) = {r \in Row : pending[r].win = w}
  BY DEF RowsHolding, WinOf
<1>3. \A w : (RowsHolding(w))' = RowsHolding(w)
  BY <1>1, <1>2 DEF RowsHolding, WinOf
<1>5. Recorded'
  <2>1. ASSUME NEW m \in Message, NEW i \in DOMAIN WinsIn[m]
        PROVE  /\ (Cardinality(RowsHolding(WinsIn[m][i])) <= attempts[m])'
               /\ (Ahead(m, i) => Cardinality(RowsHolding(WinsIn[m][i])) < attempts[m])'
    BY <1>3 DEF Counted, Recorded
  <2> QED BY <2>1 DEF Recorded
<1>6. Once'
  <2> SUFFICES ASSUME "spooler" \notin restarted'
               PROVE  (/\ \A m \in Message : \A i \in DOMAIN WinsIn[m] :
                            (inbox[m] = "ready" \/ Ahead(m, i)) => RowsHolding(WinsIn[m][i]) = {}
                       /\ \A r, q \in Row : WinOf(r) = WinOf(q) => r = q)'
    BY DEF Once
  <2>1. ASSUME NEW m \in Message, NEW i \in DOMAIN WinsIn[m]
        PROVE  ((inbox[m] = "ready" \/ Ahead(m, i)) => RowsHolding(WinsIn[m][i]) = {})'
    BY <1>3 DEF Counted, Once
  <2>2. \A r, q \in Row' : pending'[r].win = pending'[q].win => r = q
    BY DEF SameWins, Counted, Once, WinOf
  <2> QED BY <2>1, <2>2 DEF WinOf
<1> QED BY <1>5, <1>6 DEF Counted

LEMMA AheadFrame ==
  ASSUME \A g \in Goroutine :
           spool'[g].pc # "idle" =>
             /\ Busy(g) /\ spool'[g].msg = spool[g].msg
             /\ spool'[g].at = spool[g].at /\ (spool'[g].pc = "insert" => spool[g].pc = "insert")
  PROVE  \A m, i : Ahead(m, i)' => Ahead(m, i)
BY DEF Ahead, Busy

\* Fewer repeats are never allowed later.
LEMMA RepeatsGrow ==
  ASSUME Shape, restarted \subseteq restarted', crashes' \in 0..MaxCrashes, crashes' >= crashes
  PROVE  Repeats \in Nat /\ Repeats' \in Nat /\ Repeats <= Repeats'
BY PayoutsAssumption DEF Shape, Repeats

LEMMA TriesFinite ==
  ASSUME Shape, NEW k
  PROVE  /\ IsFiniteSet(Tries(k)) /\ Cardinality(Tries(k)) \in Nat
<1>1. DOMAIN txs = 1..Len(txs) /\ Len(txs) \in Nat
  BY LenProperties DEF Shape
<1>2. IsFiniteSet(DOMAIN txs)
  BY <1>1, FS_Interval
<1>3. Tries(k) \subseteq DOMAIN txs
  BY DEF Tries
<1> QED BY <1>2, <1>3, FS_Subset, FS_CardinalityType

LEMMA TriedFrame ==
  ASSUME Shape, Tried, InHand, sender' = sender,
         restarted \subseteq restarted', crashes' \in 0..MaxCrashes, crashes' >= crashes,
         DOMAIN txs' = DOMAIN txs, \A t \in DOMAIN txs : txs'[t].batch = txs[t].batch,
         DOMAIN batches' = DOMAIN batches,
         \A k \in DOMAIN batches : batches'[k].state = "ready" => batches[k].state = "ready"
  PROVE  Tried' /\ InHand'
<1>1. \A k : Tries(k)' = Tries(k)
  BY DEF Tries
<1>2. \A k : Cardinality(Tries(k)) \in Nat
  BY TriesFinite
<1>3. Repeats \in Nat /\ Repeats' \in Nat /\ Repeats <= Repeats'
  BY RepeatsGrow
<1>4. \A k : Calling(k)' <=> Calling(k)
  BY DEF Calling
<1>5. \A k \in DOMAIN batches' :
        /\ Cardinality(Tries(k)) <= Repeats' + 1
        /\ (batches'[k].state = "ready" \/ Calling(k)) => Cardinality(Tries(k)) <= Repeats'
  <2> HIDE DEF Repeats, Tries, Calling
  <2> QED BY <1>2, <1>3 DEF Tried
<1>6. Tried'
  BY <1>1, <1>4, <1>5 DEF Tried
<1>7. InHand'
  BY DEF InHand
<1> QED BY <1>6, <1>7

LEMMA KeptFrame ==
  ASSUME Kept, sender' = sender, restarted \subseteq restarted',
         \A r \in Row' : pending'[r].sent => r \in Row /\ pending[r].sent,
         restarted' \subseteq {"tracker"} =>
           /\ \A g \in Goroutine : spool[g].rows \subseteq spool'[g].rows
           /\ release \subseteq release',
         DOMAIN txs' = DOMAIN txs, \A t \in DOMAIN txs : txs'[t].batch = txs[t].batch,
         DOMAIN batches' = DOMAIN batches,
         \A k \in DOMAIN batches : batches'[k].rows = batches[k].rows
                                   /\ (batches[k].state = "ready" => batches'[k].state = "ready")
  PROVE  Kept'
<1> SUFFICES ASSUME restarted' \subseteq {"tracker"}
             PROVE  (/\ \A r \in Row : pending[r].sent => Somewhere(r)
                     /\ \A k \in DOMAIN batches :
                          batches[k].state = "ready" \/ Calling(k) \/ Tries(k) # {})'
  BY DEF Kept
<1>1. /\ \A r \in Row : pending[r].sent => Somewhere(r)
      /\ \A k \in DOMAIN batches : batches[k].state = "ready" \/ Calling(k) \/ Tries(k) # {}
  BY DEF Kept
<1>2. \A r : Somewhere(r) => Somewhere(r)'
  BY DEF Somewhere
<1>3. \A k : Tries(k)' = Tries(k) /\ (Calling(k)' <=> Calling(k))
  BY DEF Tries, Calling
<1>4. \A r \in Row' : pending'[r].sent => Somewhere(r)'
  BY <1>1, <1>2
<1>5. \A k \in DOMAIN batches' : batches'[k].state = "ready" \/ Calling(k)' \/ Tries(k)' # {}
  BY <1>1, <1>3
<1> QED BY <1>4, <1>5

\* A statement on the table, the queue or a goroutine does not concern the
\* sender, nor what rows it has.
LEMMA SpoolerFrame ==
  ASSUME IInv, UNCHANGED <<release, sending, txs, crashes, restarted>>,
         \A g \in Goroutine : spool'[g].rows = spool[g].rows,
         \A r \in Row : r \in Row' /\ (pending[r].sent => pending'[r].sent),
         \A r \in Row' : pending'[r].sent => r \in Row /\ pending[r].sent
  PROVE  Placed' /\ InHand' /\ Tried' /\ Kept'
<1>1. crashes' \in 0..MaxCrashes /\ crashes' >= crashes
  BY PayoutsAssumption DEF IInv, Shape
<1>2. batches' = batches /\ sender' = sender
  BY DEF sending
<1>3. Placed'
  BY <1>2, PlacedFrame DEF IInv
<1>4. Tried' /\ InHand'
  BY <1>1, <1>2, TriedFrame DEF IInv
<1>5. Kept'
  BY <1>1, <1>2, KeptFrame DEF IInv
<1> QED BY <1>3, <1>4, <1>5

-----------------------------------------------------------------------------
(* The steps of the spooler.                                               *)

LEMMA RowsFinite ==
  ASSUME Shape, NEW w
  PROVE  /\ RowsHolding(w) \subseteq Row /\ IsFiniteSet(RowsHolding(w))
         /\ Cardinality(RowsHolding(w)) \in Nat
<1>1. DOMAIN pending = 1..Len(pending) /\ Len(pending) \in Nat
  BY LenProperties DEF Shape
<1>2. IsFiniteSet(Row)
  BY <1>1, FS_Interval DEF Row
<1>3. RowsHolding(w) \subseteq Row
  BY DEF RowsHolding
<1> QED BY <1>2, <1>3, FS_Subset, FS_CardinalityType

\* A goroutine that goes on with the message it has keeps Spooling.
LEMMA OnItsMessage ==
  ASSUME Shape, Spooling, NEW g \in Goroutine, Busy(g), Becomes(g, spool'[g]), inbox' = inbox,
         spool'[g].msg = spool[g].msg, spool'[g].at \in DOMAIN WinsIn[spool[g].msg],
         spool'[g].typed \in 1..spool'[g].at,
         (spool'[g].pc # "publish") => spool'[g].rows = {},
         (spool'[g].pc = "publish") => spool'[g].rows # {}
  PROVE  Spooling'
<1>1. \A h \in Goroutine : spool'[h].pc # "idle" => Busy(h) /\ spool'[h].msg = spool[h].msg
  BY DEF Becomes, Busy
<1>2. ASSUME NEW h \in Goroutine
      PROVE  (/\ Busy(h) => /\ spool[h].msg \in Message /\ spool[h].at \in DOMAIN WinsIn[spool[h].msg]
                            /\ inbox[spool[h].msg] = "unacked"
                            /\ \A j \in Goroutine : (j # h /\ Busy(j)) => spool[j].msg # spool[h].msg
              /\ Busy(h) => spool[h].typed \in 1..spool[h].at
              /\ (spool[h].pc # "publish") => spool[h].rows = {}
              /\ (spool[h].pc = "publish") => spool[h].rows # {})'
  BY <1>1 DEF Spooling, Becomes, Busy
<1> QED BY <1>2 DEF Spooling

LEMMA FreshSame == ASSUME Fresh, inbox' = inbox, attempts' = attempts  PROVE Fresh'
BY DEF Fresh

LEMMA StepReceive ==
  ASSUME IInv, NEW g \in Goroutine, Receive(g)
  PROVE  IInv'
<1>1. Shape /\ Spooling /\ Fresh /\ Counted
  BY DEF IInv
<1>2. PICK m \in Message :
        /\ inbox[m] = "ready" /\ spool[g].pc = "idle"
        /\ attempts' = [attempts EXCEPT ![m] = attempts[m] + 1]
        /\ \/ Delivered(g, m)
           \/ /\ inbox' = [inbox EXCEPT ![m] = "dead"] /\ spool' = spool
              /\ attempts[m] + 1 >= MessageRetries
  BY <1>1, ReceiveEffect
<1>3. UNCHANGED <<tables, told, release, sending, txs, events, tracking, crashes, restarted>>
  BY DEF Receive
<1>4. /\ inbox \in [Message -> {"ready", "unacked", "acked", "dead"}]
      /\ attempts \in [Message -> Nat] /\ spool \in [Goroutine -> Spooled]
      /\ MessageRetries \in Nat
  BY <1>1, PayoutsAssumption DEF Shape
<1>5. Shape'
  <2>1. attempts' \in [Message -> Nat]
    BY <1>2, <1>4
  <2>2. inbox' \in [Message -> {"ready", "unacked", "acked", "dead"}] /\ spool' \in [Goroutine -> Spooled]
    BY <1>2, <1>4 DEF Delivered, Becomes
  <2> QED BY <1>1, <1>3, <2>1, <2>2 DEF Shape, tables, sending, tracking
<1>6. \A h \in Goroutine : Busy(h) => spool[h].msg # m
  BY <1>1, <1>2 DEF Spooling
<1>7. spool[g].rows = {}
  BY <1>1, <1>2 DEF Spooling
<1>8. \A h \in Goroutine : spool'[h].rows = spool[h].rows
  BY <1>2, <1>7 DEF Delivered, Becomes
<1>9. Placed' /\ InHand' /\ Tried' /\ Kept'
  BY <1>3, <1>8, SpoolerFrame DEF tables, Row
<1>10. Fresh'
  <2>1. attempts[m] < MessageRetries /\ attempts[m] \in Nat
    BY <1>1, <1>2, <1>4 DEF Fresh
  <2>2. attempts'[m] = attempts[m] + 1 /\ \A n \in Message : n # m => attempts'[n] = attempts[n]
    BY <1>2, <1>4
  <2>3. \A n \in Message : n # m => inbox'[n] = inbox[n]
    BY <1>2, <1>4 DEF Delivered
  <2>4. attempts'[m] <= MessageRetries
    BY <1>4, <2>1, <2>2
  <2>5. inbox'[m] \in {"ready", "unacked"} => attempts'[m] < MessageRetries
    BY <1>2, <1>4, <2>2 DEF Delivered
  <2>6. ASSUME NEW n \in Message
        PROVE  (/\ attempts[n] <= MessageRetries
                /\ (inbox[n] \in {"ready", "unacked"}) => attempts[n] < MessageRetries)'
    BY <1>1, <2>2, <2>3, <2>4, <2>5 DEF Fresh
  <2> QED BY <2>6 DEF Fresh
<1>11. Spooling'
  <2>1. CASE spool' = spool
    <3>1. \A h \in Goroutine : Busy(h) => inbox'[spool[h].msg] = inbox[spool[h].msg]
      BY <1>1, <1>2, <1>4, <1>6 DEF Spooling, Delivered
    <3> QED BY <1>1, <2>1, <3>1 DEF Spooling, Busy
  <2>2. CASE Delivered(g, m)
    <3>1. 1 \in DOMAIN WinsIn[m]
      <4>1. WinsIn[m] \in Seq(Win) /\ WinsIn[m] # <<>>
        BY PayoutsAssumption
      <4> QED BY <4>1, EmptySeq, LenProperties
    <3>2. /\ inbox'[m] = "unacked" /\ \A n \in Message : n # m => inbox'[n] = inbox[n]
      BY <1>4, <2>2 DEF Delivered
    <3>3. /\ spool'[g].pc = "insert" /\ spool'[g].msg = m /\ spool'[g].at = 1 /\ spool'[g].rows = {}
          /\ spool'[g].typed \in 1..1
          /\ \A h \in Goroutine : h # g => spool'[h] = spool[h]
      BY <2>2 DEF Delivered, Becomes
    <3>4. ASSUME NEW h \in Goroutine
          PROVE  (/\ Busy(h) => /\ spool[h].msg \in Message /\ spool[h].at \in DOMAIN WinsIn[spool[h].msg]
                                /\ inbox[spool[h].msg] = "unacked"
                                /\ \A j \in Goroutine : (j # h /\ Busy(j)) => spool[j].msg # spool[h].msg
                  /\ Busy(h) => spool[h].typed \in 1..spool[h].at
                  /\ (spool[h].pc # "publish") => spool[h].rows = {}
                  /\ (spool[h].pc = "publish") => spool[h].rows # {})'
      <4>1. CASE h = g
        BY <1>6, <3>1, <3>2, <3>3, <4>1 DEF Busy
      <4>2. CASE h # g
        BY <1>1, <1>6, <3>2, <3>3, <4>2 DEF Busy, Spooling
      <4> QED BY <4>1, <4>2
    <3> QED BY <3>4 DEF Spooling
  <2> QED BY <1>2, <2>1, <2>2
<1>12. Counted'
  <2>1. \A w : RowsHolding(w)' = RowsHolding(w) /\ Cardinality(RowsHolding(w)) \in Nat
    BY <1>1, <1>3, RowsFinite DEF RowsHolding, WinOf, Row, tables
  <2>2. attempts'[m] = attempts[m] + 1 /\ \A n \in Message : n # m => attempts'[n] = attempts[n]
    BY <1>2, <1>4
  <2>3. ASSUME NEW n \in Message, n # m, NEW i, Ahead(n, i)'  PROVE Ahead(n, i)
    BY <1>2, <2>3 DEF Ahead, Busy, Delivered, Becomes
  <2>4. Recorded'
    <3>1. ASSUME NEW n \in Message, NEW i \in DOMAIN WinsIn[n]
          PROVE  /\ (Cardinality(RowsHolding(WinsIn[n][i])) <= attempts[n])'
                 /\ (Ahead(n, i) => Cardinality(RowsHolding(WinsIn[n][i])) < attempts[n])'
      <4> DEFINE c == Cardinality(RowsHolding(WinsIn[n][i]))
      <4>1. c \in Nat /\ attempts[n] \in Nat /\ c <= attempts[n] /\ (Ahead(n, i) => c < attempts[n])
        BY <1>1, <1>4, <2>1 DEF Counted, Recorded
      <4>2. c' = c
        BY <2>1
      <4> HIDE DEF c
      <4>3. CASE n = m
        BY <2>2, <4>1, <4>2, <4>3 DEF c
      <4>4. CASE n # m
        BY <2>2, <2>3, <4>1, <4>2, <4>4 DEF c
      <4> QED BY <4>3, <4>4
    <3> QED BY <3>1 DEF Recorded
  <2>5. Once'
    <3> SUFFICES ASSUME "spooler" \notin restarted'
                 PROVE  (/\ \A n \in Message : \A i \in DOMAIN WinsIn[n] :
                              (inbox[n] = "ready" \/ Ahead(n, i)) => RowsHolding(WinsIn[n][i]) = {}
                         /\ \A r, q \in Row : WinOf(r) = WinOf(q) => r = q)'
      BY DEF Once
    <3>1. ASSUME NEW n \in Message, NEW i \in DOMAIN WinsIn[n],
                 inbox'[n] = "ready" \/ Ahead(n, i)'
          PROVE  RowsHolding(WinsIn[n][i]) = {}
      <4>1. CASE n = m
        BY <1>1, <1>2, <1>3, <4>1 DEF Counted, Once
      <4>2. CASE n # m
        <5>1. inbox'[n] = inbox[n]
          BY <1>2, <1>4, <4>2 DEF Delivered
        <5> QED BY <1>1, <1>3, <2>3, <3>1, <4>2, <5>1 DEF Counted, Once
      <4> QED BY <4>1, <4>2
    <3>2. (\A r, q \in Row : WinOf(r) = WinOf(q) => r = q)'
      BY <1>1, <1>3 DEF Counted, Once, WinOf, Row, tables
    <3> QED BY <2>1, <3>1, <3>2
  <2> QED BY <2>4, <2>5 DEF Counted
<1> QED BY <1>5, <1>9, <1>10, <1>11, <1>12 DEF IInv

LEMMA StepInsert ==
  ASSUME IInv, NEW g \in Goroutine, InsertPendingWinners(g)
  PROVE  IInv'
<1>1. Shape /\ Spooling /\ Fresh /\ Counted
  BY DEF IInv
<1>2. /\ UNCHANGED <<inbox, attempts, types, told, release, sending, txs, events, tracking,
                     crashes, restarted>>
      /\ spool[g].pc = "insert" /\ pending' = Append(pending, [win |-> Current(g), sent |-> FALSE])
  BY DEF InsertPendingWinners
<1>3. PICK m \in Message, a \in Nat, w \in Win :
        /\ m = spool[g].msg /\ a = spool[g].at /\ a \in DOMAIN WinsIn[m]
        /\ w = Current(g) /\ w = WinsIn[m][a]
  <2>1. spool[g].msg \in Message /\ spool[g].at \in DOMAIN WinsIn[spool[g].msg]
    BY <1>1, <1>2 DEF Spooling, Busy
  <2>2. WinsIn[spool[g].msg] \in Seq(Win)
    BY <2>1, PayoutsAssumption
  <2>3. spool[g].at \in Nat /\ Current(g) \in Win
    BY <2>1, <2>2, ElementOfSeq, LenProperties DEF Current
  <2> QED BY <2>1, <2>3 DEF Current
<1>4. Busy(g) /\ pending' = Append(pending, [win |-> w, sent |-> FALSE])
  BY <1>2, <1>3 DEF Busy
<1>a. /\ Becomes(g, spool'[g])
      /\ spool'[g].msg = m /\ spool'[g].rows = spool[g].rows /\ spool'[g].typed = spool[g].typed
      /\ \/ spool'[g].pc = "type" /\ spool'[g].at = a
         \/ spool'[g].pc = "insert" /\ spool'[g].at = a + 1 /\ spool'[g].at \in DOMAIN WinsIn[m]
  BY <1>1, <1>3, InsertEffect DEF Recording
<1>5. PICK n \in Nat :
        /\ pending' \in Seq(PendingRow) /\ n \notin Row /\ Row' = Row \cup {n}
        /\ pending'[n].win = w /\ ~pending'[n].sent
        /\ \A r \in Row : pending'[r] = pending[r]
  BY <1>1, <1>4, Inserting
<1>6. Shape'
  BY <1>1, <1>2, <1>5, <1>a DEF Shape, sending, tracking, Becomes
<1>7. \A h \in Goroutine : spool'[h].rows = spool[h].rows
  BY <1>a DEF Becomes
<1>8. Placed' /\ InHand' /\ Tried' /\ Kept'
  BY <1>2, <1>5, <1>7, SpoolerFrame
<1>9. Spooling' /\ Fresh'
  <2>1. spool[g].rows = {} /\ spool[g].typed \in 1..spool[g].at
    BY <1>1, <1>2, <1>4 DEF Spooling
  <2>2. spool'[g].typed \in 1..spool'[g].at
    BY <1>3, <1>a, <2>1
  <2>3. spool'[g].pc # "publish" /\ spool'[g].at \in DOMAIN WinsIn[m]
    BY <1>3, <1>a
  <2> QED BY <1>1, <1>2, <1>3, <1>4, <1>a, <2>1, <2>2, <2>3, OnItsMessage, FreshSame
<1>10. /\ RowsHolding(w)' = RowsHolding(w) \cup {n}
       /\ \A v : v # w => RowsHolding(v)' = RowsHolding(v)
  BY <1>5 DEF RowsHolding, WinOf
<1>11. n \notin RowsHolding(w)
  BY <1>5 DEF RowsHolding
<1>12. Ahead(m, a) /\ \A k \in Message : \A i \in DOMAIN WinsIn[k] : Ahead(k, i)' => Ahead(k, i)
  <2>1. ASSUME NEW k \in Message, NEW i \in DOMAIN WinsIn[k], Ahead(k, i)'  PROVE Ahead(k, i)
    <3>1. i \in Nat
      BY PayoutsAssumption, LenProperties
    <3>2. PICK h \in Goroutine :
            /\ spool'[h].pc # "idle" /\ spool'[h].msg = k
            /\ i > spool'[h].at \/ (i = spool'[h].at /\ spool'[h].pc = "insert")
      BY <2>1 DEF Ahead, Busy
    <3>3. CASE h # g
      BY <1>a, <3>2, <3>3 DEF Ahead, Becomes, Busy
    <3>4. CASE h = g
      <4>1. k = m /\ (i > a \/ (i = a /\ spool'[g].pc = "insert"))
        BY <1>3, <1>a, <3>1, <3>2, <3>4
      <4> QED BY <1>2, <1>3, <1>4, <3>4, <4>1 DEF Ahead
    <3> QED BY <3>3, <3>4
  <2>2. Ahead(m, a)
    BY <1>2, <1>3, <1>4 DEF Ahead
  <2> QED BY <2>1, <2>2
<1>13. ~Ahead(m, a)'
  <2> SUFFICES ASSUME NEW h \in Goroutine, spool'[h].pc # "idle", spool'[h].msg = m,
                      a > spool'[h].at \/ (a = spool'[h].at /\ spool'[h].pc = "insert")
               PROVE  FALSE
    BY DEF Ahead, Busy
  <2>1. CASE h = g
    <3>1. \/ spool'[h].at = a /\ spool'[h].pc = "type"
          \/ spool'[h].at = a + 1
      BY <1>a, <2>1
    <3> QED BY <1>3, <3>1
  <2>2. CASE h # g
    BY <1>1, <1>3, <1>4, <1>a, <2>2 DEF Becomes, Busy, Spooling
  <2> QED BY <2>1, <2>2
<1>14. \A k \in Message : \A i \in DOMAIN WinsIn[k] : WinsIn[k][i] = w => k = m /\ i = a
  BY <1>3, WinsAreAnnouncedOnce
<1>15. Recorded'
  <2>1. ASSUME NEW k \in Message, NEW i \in DOMAIN WinsIn[k]
        PROVE  /\ (Cardinality(RowsHolding(WinsIn[k][i])) <= attempts[k])'
               /\ (Ahead(k, i) => Cardinality(RowsHolding(WinsIn[k][i])) < attempts[k])'
    <3>1. CASE WinsIn[k][i] # w
      <4>1. RowsHolding(WinsIn[k][i])' = RowsHolding(WinsIn[k][i])
        BY <1>10, <3>1
      <4> QED BY <1>1, <1>2, <1>12, <4>1 DEF Counted, Recorded
    <3>2. CASE WinsIn[k][i] = w
      <4>1. k = m /\ i = a
        BY <1>14, <3>2
      <4>2. Cardinality(RowsHolding(w)) < attempts[m]
        BY <1>1, <1>3, <1>12 DEF Counted, Recorded
      <4>3. IsFiniteSet(RowsHolding(w)) /\ Cardinality(RowsHolding(w)) \in Nat /\ attempts[m] \in Nat
        BY <1>1, <1>3, RowsFinite DEF Shape
      <4>4. Cardinality(RowsHolding(w)') = Cardinality(RowsHolding(w)) + 1
        BY <1>10, <1>11, <4>3, FS_AddElement
      <4>5. Cardinality(RowsHolding(w)') <= attempts'[m]
        BY <1>2, <4>2, <4>3, <4>4
      <4>6. RowsHolding(WinsIn[k][i])' = RowsHolding(w)'
        BY <3>2
      <4> QED BY <1>13, <4>1, <4>5, <4>6
    <3> QED BY <3>1, <3>2
  <2> QED BY <2>1 DEF Recorded
<1>16. Once'
  <2> SUFFICES ASSUME "spooler" \notin restarted'
               PROVE  (/\ \A k \in Message : \A i \in DOMAIN WinsIn[k] :
                            (inbox[k] = "ready" \/ Ahead(k, i)) => RowsHolding(WinsIn[k][i]) = {}
                       /\ \A r, q \in Row : WinOf(r) = WinOf(q) => r = q)'
    BY DEF Once
  <2>1. /\ \A k \in Message : \A i \in DOMAIN WinsIn[k] :
             (inbox[k] = "ready" \/ Ahead(k, i)) => RowsHolding(WinsIn[k][i]) = {}
        /\ \A r, q \in Row : pending[r].win = pending[q].win => r = q
    BY <1>1, <1>2 DEF Counted, Once, WinOf
  <2>2. inbox[m] = "unacked" /\ RowsHolding(w) = {}
    BY <1>1, <1>3, <1>4, <1>12, <2>1 DEF Spooling
  <2>3. ASSUME NEW k \in Message, NEW i \in DOMAIN WinsIn[k], inbox'[k] = "ready" \/ Ahead(k, i)'
        PROVE  RowsHolding(WinsIn[k][i])' = {}
    <3>1. WinsIn[k][i] # w
      BY <1>2, <1>13, <1>14, <2>2, <2>3
    <3>2. RowsHolding(WinsIn[k][i])' = RowsHolding(WinsIn[k][i])
      BY <1>10, <3>1
    <3> QED BY <1>2, <1>12, <2>1, <2>3, <3>2
  <2>4. \A r \in Row : pending[r].win # w
    BY <2>2 DEF RowsHolding, WinOf
  <2>5. \A r, q \in Row' : pending'[r].win = pending'[q].win => r = q
    BY <1>5, <2>1, <2>4
  <2> QED BY <2>3, <2>5 DEF WinOf
<1> QED BY <1>6, <1>8, <1>9, <1>15, <1>16 DEF IInv, Counted

LEMMA StepInsertType ==
  ASSUME IInv, NEW g \in Goroutine, InsertPendingRewardType(g)
  PROVE  IInv'
<1>1. Shape /\ Spooling /\ Fresh /\ Counted
  BY DEF IInv
<1>2. /\ UNCHANGED <<inbox, attempts, pending, told, release, sending, txs, events, tracking,
                     crashes, restarted>>
      /\ spool[g].pc = "type" /\ types' = [types EXCEPT ![Typing(g)] = types[Typing(g)] + 1]
  BY DEF InsertPendingRewardType
<1>3. /\ Busy(g) /\ spool[g].msg \in Message /\ spool[g].at \in DOMAIN WinsIn[spool[g].msg]
      /\ spool[g].typed \in 1..spool[g].at /\ spool[g].rows = {}
  BY <1>1, <1>2 DEF Spooling, Busy
<1>a. /\ Becomes(g, spool'[g])
      /\ spool'[g].msg = spool[g].msg /\ spool'[g].rows = spool[g].rows /\ spool'[g].at = spool[g].at
      /\ spool'[g].pc \in {"type", "weigh"} /\ spool'[g].typed \in 1..spool[g].at
  BY <1>1, <1>3, TypeEffect DEF Noted
<1>4. types' \in [Win -> Nat]
  <2>2. Typing(g) \in Win
    BY <1>1, <1>3, ItsList DEF Typing
  <2>3. types \in [Win -> Nat]
    BY <1>1 DEF Shape
  <2> QED BY <1>2, <2>2, <2>3
<1>5. Shape'
  BY <1>1, <1>2, <1>4, <1>a DEF Shape, sending, tracking, Becomes
<1>6. \A h \in Goroutine : spool'[h].rows = spool[h].rows
  BY <1>a DEF Becomes
<1>7. Placed' /\ InHand' /\ Tried' /\ Kept'
  BY <1>2, <1>6, SpoolerFrame DEF Row
<1>8. Spooling' /\ Fresh'
  <2>1. spool'[g].pc # "publish" /\ spool'[g].at \in DOMAIN WinsIn[spool[g].msg]
    BY <1>3, <1>a
  <2> QED BY <1>1, <1>2, <1>3, <1>a, <2>1, OnItsMessage, FreshSame
<1>9. \A m, i : Ahead(m, i)' => Ahead(m, i)
  BY <1>2, <1>3, <1>a, AheadFrame DEF Becomes, Busy
<1>10. Counted'
  BY <1>1, <1>2, <1>9, CountedFrame DEF SameWins, Row
<1> QED BY <1>5, <1>7, <1>8, <1>10 DEF IInv

LEMMA StepWeigh ==
  ASSUME IInv, NEW g \in Goroutine, Weigh(g)
  PROVE  IInv'
<1>1. Shape /\ Spooling /\ Fresh /\ Counted
  BY DEF IInv
<1>2. /\ UNCHANGED <<inbox, attempts, tables, told, release, sending, txs, events, tracking,
                     crashes, restarted>>
      /\ spool[g].pc = "weigh" /\ GoesTo(g, "tell")
  BY <1>1, WeighEffect DEF Weigh
<1>3. Busy(g) /\ spool[g].msg \in Message /\ spool[g].at \in DOMAIN WinsIn[spool[g].msg]
  BY <1>1, <1>2 DEF Spooling, Busy
<1>4. Shape'
  BY <1>1, <1>2 DEF Shape, sending, tracking, tables, GoesTo, Becomes
<1>5. \A h \in Goroutine : spool'[h].rows = spool[h].rows
  BY <1>2 DEF GoesTo, Becomes
<1>6. Placed' /\ InHand' /\ Tried' /\ Kept'
  BY <1>2, <1>5, SpoolerFrame DEF Row, tables
<1>7. Spooling' /\ Fresh'
  BY <1>1, <1>2, <1>3, OnItsMessage, FreshSame DEF GoesTo, Spooling
<1>8. \A m, i : Ahead(m, i)' => Ahead(m, i)
  BY <1>2, <1>3, AheadFrame DEF GoesTo, Becomes, Busy
<1>9. Counted'
  BY <1>1, <1>2, <1>8, CountedFrame DEF SameWins, Row, tables
<1> QED BY <1>4, <1>6, <1>7, <1>9 DEF IInv

LEMMA StepTell ==
  ASSUME IInv, NEW g \in Goroutine, TellPending(g)
  PROVE  IInv'
<1>1. Shape /\ Spooling /\ Fresh /\ Counted
  BY DEF IInv
<1>2. /\ UNCHANGED <<inbox, attempts, tables, release, sending, txs, events, tracking,
                     crashes, restarted>>
      /\ spool[g].pc = "tell"
  BY DEF TellPending
<1>3. Busy(g) /\ spool[g].msg \in Message /\ spool[g].at \in DOMAIN WinsIn[spool[g].msg]
  BY <1>1, <1>2 DEF Spooling, Busy
<1>4. /\ Becomes(g, spool'[g])
      /\ spool'[g].msg = spool[g].msg /\ spool'[g].rows = spool[g].rows
      /\ \/ /\ spool'[g].pc = "insert" /\ spool'[g].at = spool[g].at + 1
            /\ spool'[g].at \in DOMAIN WinsIn[spool[g].msg]
         \/ spool'[g].pc = "flush" /\ spool'[g].at = spool[g].at
      /\ spool'[g].typed = spool'[g].at
      /\ told' \subseteq Win
  BY <1>1, <1>3, TellEffect DEF Telling
<1>5. Shape'
  BY <1>1, <1>2, <1>4 DEF Shape, sending, tracking, tables, Becomes
<1>6. \A h \in Goroutine : spool'[h].rows = spool[h].rows
  BY <1>4 DEF Becomes
<1>7. Placed' /\ InHand' /\ Tried' /\ Kept'
  BY <1>2, <1>6, SpoolerFrame DEF tables, Row
<1>8. Spooling' /\ Fresh'
  <2>1. spool[g].rows = {} /\ spool[g].typed \in 1..spool[g].at /\ spool[g].at \in Nat /\ 1 <= spool[g].at
    <3>1. spool[g].rows = {} /\ spool[g].typed \in 1..spool[g].at /\ spool[g].at \in Nat
      BY <1>1, <1>2, <1>3 DEF Spooling, Shape, Spooled
    <3> QED BY <3>1
  <2>2. spool'[g].typed \in 1..spool'[g].at
    BY <1>4, <2>1
  <2>3. spool'[g].pc # "publish" /\ spool'[g].at \in DOMAIN WinsIn[spool[g].msg]
    BY <1>3, <1>4
  <2> QED BY <1>1, <1>2, <1>3, <1>4, <2>1, <2>2, <2>3, OnItsMessage, FreshSame
<1>9. ASSUME NEW m \in Message, NEW i \in DOMAIN WinsIn[m], Ahead(m, i)'  PROVE Ahead(m, i)
  <2>1. i \in Nat
    BY PayoutsAssumption, LenProperties
  <2>2. PICK h \in Goroutine :
          /\ spool'[h].pc # "idle" /\ spool'[h].msg = m
          /\ i > spool'[h].at \/ (i = spool'[h].at /\ spool'[h].pc = "insert")
    BY <1>9 DEF Ahead, Busy
  <2>3. CASE h # g
    BY <1>4, <2>2, <2>3 DEF Ahead, Becomes, Busy
  <2>4. CASE h = g
    <3>1. spool[g].at \in Nat
      BY <1>1 DEF Shape, Spooled
    <3>2. i > spool[g].at
      BY <1>4, <2>1, <2>2, <2>4, <3>1
    <3> QED BY <1>3, <1>4, <2>2, <2>4, <3>2 DEF Ahead
  <2> QED BY <2>3, <2>4
<1>10. Counted'
  BY <1>1, <1>2, <1>9, CountedFrame DEF SameWins, Row, tables
<1> QED BY <1>5, <1>7, <1>8, <1>10 DEF IInv

\* What was not marked as sent is taken, by goroutine g or by the release: it
\* was with nobody.
LEMMA Taking ==
  ASSUME IInv, MarkSent(Unsent), UNCHANGED <<sending, txs, crashes, restarted>>,
         \/ /\ release' = release
            /\ \E g \in Goroutine : /\ spool[g].rows = {} /\ spool'[g].rows = Unsent
                                    /\ \A h \in Goroutine : h # g => spool'[h].rows = spool[h].rows
         \/ /\ release = {} /\ release' = Unsent
            /\ \A h \in Goroutine : spool'[h].rows = spool[h].rows
  PROVE  /\ Placed' /\ InHand' /\ Tried' /\ Kept' /\ SameWins
         /\ pending' \in Seq(PendingRow)
<1>1. Shape /\ Placed /\ batches' = batches /\ sender' = sender
  BY DEF IInv, sending
<1>2. /\ pending' \in Seq(PendingRow) /\ Row' = Row
      /\ \A r \in Row : pending'[r].win = pending[r].win
                        /\ (pending'[r].sent <=> pending[r].sent \/ r \in Unsent)
  BY <1>1, Marking
<1>3. \A r \in Unsent : r \in Row /\ ~pending[r].sent
  BY DEF Unsent
<1>4. \A R : Sent(R) => R \cap Unsent = {}
  BY <1>3 DEF Sent
<1>5. \A R : Sent(R) => \A r \in R : r \in Row' /\ pending'[r].sent
  BY <1>2 DEF Sent
<1>6. \A r \in Unsent : r \in Row' /\ pending'[r].sent
  BY <1>2, <1>3
<1>7. /\ \A h \in Goroutine : spool[h].rows \cap Unsent = {}
      /\ release \cap Unsent = {}
      /\ \A k \in DOMAIN batches : batches[k].rows \cap Unsent = {}
  BY <1>1, <1>4 DEF Placed, Marked
<1>8. crashes' \in 0..MaxCrashes /\ crashes' >= crashes
  BY <1>1, PayoutsAssumption DEF Shape
<1>9. Tried' /\ InHand'
  BY <1>1, <1>8, TriedFrame DEF IInv
<1>10. Placed' /\ (restarted' \subseteq {"tracker"} => \A r \in Row' : pending'[r].sent => Somewhere(r)')
  <2>1. CASE \E g \in Goroutine :
               /\ release' = release /\ spool[g].rows = {} /\ spool'[g].rows = Unsent
               /\ \A h \in Goroutine : h # g => spool'[h].rows = spool[h].rows
    <3>1. PICK g \in Goroutine :
            /\ release' = release /\ spool[g].rows = {} /\ spool'[g].rows = Unsent
            /\ \A h \in Goroutine : h # g => spool'[h].rows = spool[h].rows
      BY <2>1
    <3>2. Apart'
      <4>1. \A h, j \in Goroutine : h # j => spool'[h].rows \cap spool'[j].rows = {}
        BY <1>1, <1>7, <3>1 DEF Placed, Apart
      <4>2. \A h \in Goroutine : spool'[h].rows \cap release' = {}
        BY <1>1, <1>7, <3>1 DEF Placed, Apart
      <4>3. \A h \in Goroutine, k \in DOMAIN batches' : spool'[h].rows \cap batches'[k].rows = {}
        BY <1>1, <1>7, <3>1 DEF Placed, Apart
      <4> QED BY <1>1, <3>1, <4>1, <4>2, <4>3 DEF Placed, Apart
    <3>3. Marked'
      BY <1>1, <1>5, <1>6, <3>1 DEF Placed, Marked, Sent
    <3>4. \A r : Somewhere(r) \/ r \in Unsent => Somewhere(r)'
      BY <1>1, <3>1 DEF Somewhere
    <3>5. restarted' \subseteq {"tracker"} => \A r \in Row' : pending'[r].sent => Somewhere(r)'
      BY <1>2, <3>4 DEF IInv, Kept
    <3> QED BY <3>2, <3>3, <3>5 DEF Placed
  <2>2. CASE /\ release = {} /\ release' = Unsent
             /\ \A h \in Goroutine : spool'[h].rows = spool[h].rows
    <3>1. Apart'
      <4>1. \A h, j \in Goroutine : h # j => spool'[h].rows \cap spool'[j].rows = {}
        BY <1>1, <2>2 DEF Placed, Apart
      <4>2. \A h \in Goroutine : spool'[h].rows \cap release' = {}
        BY <1>1, <1>7, <2>2 DEF Placed, Apart
      <4>3. \A h \in Goroutine, k \in DOMAIN batches' : spool'[h].rows \cap batches'[k].rows = {}
        BY <1>1, <2>2 DEF Placed, Apart
      <4>4. \A k \in DOMAIN batches' : release' \cap batches'[k].rows = {}
        BY <1>1, <1>7, <2>2
      <4> QED BY <1>1, <4>1, <4>2, <4>3, <4>4 DEF Placed, Apart
    <3>2. Marked'
      BY <1>1, <1>5, <1>6, <2>2 DEF Placed, Marked, Sent
    <3>3. \A r : Somewhere(r) \/ r \in Unsent => Somewhere(r)'
      BY <1>1, <2>2 DEF Somewhere
    <3>4. restarted' \subseteq {"tracker"} => \A r \in Row' : pending'[r].sent => Somewhere(r)'
      BY <1>2, <3>3 DEF IInv, Kept
    <3> QED BY <3>1, <3>2, <3>4 DEF Placed
  <2> QED BY <2>1, <2>2
<1>11. Kept'
  <2>1. \A k : Tries(k)' = Tries(k) /\ (Calling(k)' <=> Calling(k))
    BY <1>1 DEF Tries, Calling
  <2>2. restarted' \subseteq {"tracker"} =>
          \A k \in DOMAIN batches' : batches'[k].state = "ready" \/ Calling(k)' \/ Tries(k)' # {}
    BY <1>1, <2>1 DEF IInv, Kept
  <2> QED BY <1>10, <2>2 DEF Kept
<1> QED BY <1>2, <1>9, <1>10, <1>11 DEF SameWins

LEMMA StepFlush ==
  ASSUME IInv, NEW g \in Goroutine, Flush(g)
  PROVE  IInv'
<1>1. Shape /\ Spooling /\ Fresh /\ Counted
  BY DEF IInv
<1>2. /\ UNCHANGED <<inbox, attempts, types, told, release, sending, txs, events, tracking,
                     crashes, restarted>>
      /\ spool[g].pc = "flush" /\ Unsent # {} /\ MarkSent(Unsent)
      /\ spool' = [spool EXCEPT ![g].pc = "publish", ![g].rows = Unsent]
  BY DEF Flush
<1>3. Busy(g) /\ spool[g].msg \in Message /\ spool[g].at \in DOMAIN WinsIn[spool[g].msg]
      /\ spool[g].typed \in 1..spool[g].at
      /\ spool[g].rows = {}
  BY <1>1, <1>2 DEF Spooling, Busy
<1>4. PICK R \in SUBSET Nat : R = Unsent
  BY <1>1, UnsentAreNumbers
<1>5. /\ Becomes(g, spool'[g]) /\ spool'[g].pc = "publish" /\ spool'[g].rows = R
      /\ spool'[g].msg = spool[g].msg /\ spool'[g].at = spool[g].at /\ spool'[g].typed = spool[g].typed
  BY <1>1, <1>2, <1>4, RowsChange DEF Stage
<1>6. /\ Placed' /\ InHand' /\ Tried' /\ Kept' /\ SameWins
      /\ pending' \in Seq(PendingRow)
  BY <1>2, <1>3, <1>4, <1>5, Taking DEF Becomes
<1>7. Shape'
  BY <1>1, <1>2, <1>5, <1>6 DEF Shape, sending, tracking, Becomes
<1>8. Spooling' /\ Fresh'
  BY <1>1, <1>2, <1>3, <1>4, <1>5, OnItsMessage, FreshSame
<1>9. \A m, i : Ahead(m, i)' => Ahead(m, i)
  BY <1>2, <1>3, <1>5, AheadFrame DEF Becomes, Busy
<1>10. Counted'
  BY <1>1, <1>2, <1>6, <1>9, CountedFrame
<1> QED BY <1>6, <1>7, <1>8, <1>10 DEF IInv

LEMMA StepSkipFlush ==
  ASSUME IInv, NEW g \in Goroutine, SkipFlush(g)
  PROVE  IInv'
<1>1. Shape /\ Spooling /\ Fresh /\ Counted
  BY DEF IInv
<1>2. /\ UNCHANGED <<inbox, attempts, tables, told, release, sending, txs, events, tracking,
                     crashes, restarted>>
      /\ spool[g].pc = "flush" /\ GoesTo(g, "handled")
  BY <1>1, GotoEffect DEF SkipFlush, Stage
<1>3. Busy(g) /\ spool[g].msg \in Message /\ spool[g].at \in DOMAIN WinsIn[spool[g].msg]
  BY <1>1, <1>2 DEF Spooling, Busy
<1>4. Shape'
  BY <1>1, <1>2 DEF Shape, sending, tracking, tables, GoesTo, Becomes
<1>5. \A h \in Goroutine : spool'[h].rows = spool[h].rows
  BY <1>2 DEF GoesTo, Becomes
<1>6. Placed' /\ InHand' /\ Tried' /\ Kept'
  BY <1>2, <1>5, SpoolerFrame DEF Row, tables
<1>7. Spooling' /\ Fresh'
  BY <1>1, <1>2, <1>3, OnItsMessage, FreshSame DEF GoesTo, Spooling
<1>8. \A m, i : Ahead(m, i)' => Ahead(m, i)
  BY <1>2, <1>3, AheadFrame DEF GoesTo, Becomes, Busy
<1>9. Counted'
  BY <1>1, <1>2, <1>8, CountedFrame DEF SameWins, Row, tables
<1> QED BY <1>4, <1>6, <1>7, <1>9 DEF IInv

\* What one had becomes a batch of the sender's queue: goroutine g, or the
\* release.
LEMMA Publishing ==
  ASSUME IInv, NEW R \in SUBSET Nat, Enqueue(R), R # {},
         UNCHANGED <<tables, sender, txs, crashes, restarted>>,
         \/ /\ release' = release
            /\ \E g \in Goroutine : /\ spool[g].rows = R /\ spool'[g].rows = {}
                                    /\ \A h \in Goroutine : h # g => spool'[h].rows = spool[h].rows
         \/ /\ release = R /\ release' = {}
            /\ \A h \in Goroutine : spool'[h].rows = spool[h].rows
  PROVE  /\ Placed' /\ InHand' /\ Tried' /\ Kept'
         /\ batches' \in Seq(Batch)
<1>1. Shape /\ Placed /\ InHand /\ Tried
  BY DEF IInv
<1>2. PICK n \in Nat :
        /\ batches' \in Seq(Batch)
        /\ n \notin DOMAIN batches /\ DOMAIN batches' = DOMAIN batches \cup {n}
        /\ batches'[n].rows = R /\ batches'[n].state = "ready"
        /\ \A k \in DOMAIN batches : batches'[k] = batches[k]
  BY <1>1, Enqueuing
<1>3. Sent(R)
  BY <1>1 DEF Placed, Marked
<1>4. \A S : Sent(S)' <=> Sent(S)
  BY DEF Sent, Row, tables
<1>5. \A k \in DOMAIN batches : R \cap batches[k].rows = {}
  BY <1>1 DEF Placed, Apart
<1>6. /\ \A h \in Goroutine : spool'[h].rows \subseteq spool[h].rows /\ spool'[h].rows \cap R = {}
      /\ release' \subseteq release /\ release' \cap R = {}
  BY <1>1 DEF Placed, Apart
<1>7. Placed'
  <2>1. Marked'
    BY <1>1, <1>2, <1>3, <1>4, <1>6 DEF Placed, Marked, Sent
  <2>2. \A h, j \in Goroutine : h # j => spool'[h].rows \cap spool'[j].rows = {}
    BY <1>1, <1>6 DEF Placed, Apart
  <2>3. \A h \in Goroutine : spool'[h].rows \cap release' = {}
    BY <1>1, <1>6 DEF Placed, Apart
  <2>4. \A h \in Goroutine, k \in DOMAIN batches' : spool'[h].rows \cap batches'[k].rows = {}
    BY <1>1, <1>2, <1>6 DEF Placed, Apart
  <2>5. \A k \in DOMAIN batches' : release' \cap batches'[k].rows = {}
    BY <1>1, <1>2, <1>6 DEF Placed, Apart
  <2>6. \A k, l \in DOMAIN batches' : k # l => batches'[k].rows \cap batches'[l].rows = {}
    BY <1>1, <1>2, <1>5 DEF Placed, Apart
  <2> QED BY <2>1, <2>2, <2>3, <2>4, <2>5, <2>6 DEF Placed, Apart
<1>8. Tries(n) = {} /\ ~Calling(n)'
  BY <1>1, <1>2 DEF InHand, Tries, Calling
<1>9. \A k : Tries(k)' = Tries(k) /\ (Calling(k)' <=> Calling(k))
  BY DEF Tries, Calling
<1>10. Repeats \in Nat /\ Repeats' = Repeats
  BY <1>1, PayoutsAssumption DEF Shape, Repeats
<1>11. Tried'
  <2>1. Cardinality(Tries(n)) = 0
    BY <1>8, FS_EmptySet
  <2>2. \A k \in DOMAIN batches' :
          /\ Cardinality(Tries(k)) <= Repeats + 1
          /\ (batches'[k].state = "ready" \/ Calling(k)) => Cardinality(Tries(k)) <= Repeats
    <3> HIDE DEF Repeats, Tries, Calling
    <3> QED BY <1>1, <1>2, <1>10, <2>1 DEF Tried
  <2> QED BY <1>9, <1>10, <2>2 DEF Tried
<1>12. InHand'
  BY <1>1, <1>2 DEF InHand
<1>13. Kept'
  <2>1. \A r : Somewhere(r) => Somewhere(r)'
    <3>1. \A r : r \in R => \E k \in DOMAIN batches' : r \in batches'[k].rows
      BY <1>2
    <3>2. \A k \in DOMAIN batches : k \in DOMAIN batches' /\ batches'[k].rows = batches[k].rows
      BY <1>2
    <3>3. \A h \in Goroutine : \A r \in spool[h].rows : r \in spool'[h].rows \/ r \in R
      OBVIOUS
    <3>4. \A r \in release : r \in release' \/ r \in R
      OBVIOUS
    <3> QED BY <3>1, <3>2, <3>3, <3>4 DEF Somewhere
  <2>2. restarted' \subseteq {"tracker"} => \A r \in Row' : pending'[r].sent => Somewhere(r)'
    BY <2>1 DEF IInv, Kept, Row, tables
  <2>3. restarted' \subseteq {"tracker"} =>
          \A k \in DOMAIN batches' : batches'[k].state = "ready" \/ Calling(k)' \/ Tries(k)' # {}
    BY <1>2, <1>9 DEF IInv, Kept
  <2> QED BY <2>2, <2>3 DEF Kept
<1> QED BY <1>2, <1>7, <1>11, <1>12, <1>13

LEMMA StepPublishBatch ==
  ASSUME IInv, NEW g \in Goroutine, PublishBatch(g)
  PROVE  IInv'
<1>1. Shape /\ Spooling /\ Fresh /\ Counted
  BY DEF IInv
<1>2. /\ UNCHANGED <<inbox, attempts, tables, told, release, sender, txs, events, tracking,
                     crashes, restarted>>
      /\ spool[g].pc = "publish" /\ Enqueue(spool[g].rows)
      /\ spool' = [spool EXCEPT ![g].pc = "handled", ![g].rows = {}]
  BY DEF PublishBatch
<1>3. Busy(g) /\ spool[g].msg \in Message /\ spool[g].at \in DOMAIN WinsIn[spool[g].msg]
      /\ spool[g].typed \in 1..spool[g].at
      /\ spool[g].rows # {}
  BY <1>1, <1>2 DEF Spooling, Busy
<1>4. PICK R \in SUBSET Nat : R = spool[g].rows
  BY <1>1 DEF Shape, Spooled
<1>5. /\ Becomes(g, spool'[g]) /\ spool'[g].pc = "handled" /\ spool'[g].rows = {}
      /\ spool'[g].msg = spool[g].msg /\ spool'[g].at = spool[g].at /\ spool'[g].typed = spool[g].typed
  BY <1>1, <1>2, RowsLeave
<1>6. /\ Placed' /\ InHand' /\ Tried' /\ Kept'
      /\ batches' \in Seq(Batch)
  BY <1>2, <1>3, <1>4, <1>5, Publishing DEF Becomes
<1>7. Shape'
  BY <1>1, <1>2, <1>5, <1>6 DEF Shape, tables, tracking, Becomes
<1>8. Spooling' /\ Fresh'
  BY <1>1, <1>2, <1>3, <1>5, OnItsMessage, FreshSame
<1>9. \A m, i : Ahead(m, i)' => Ahead(m, i)
  BY <1>2, <1>3, <1>5, AheadFrame DEF Becomes, Busy
<1>10. Counted'
  BY <1>1, <1>2, <1>9, CountedFrame DEF SameWins, Row, tables
<1> QED BY <1>6, <1>7, <1>8, <1>10 DEF IInv

LEMMA StepAck ==
  ASSUME IInv, NEW g \in Goroutine, Ack(g)
  PROVE  IInv'
<1>1. Shape /\ Spooling /\ Fresh /\ Counted
  BY DEF IInv
<1>2. /\ UNCHANGED <<attempts, tables, told, release, sending, txs, events, tracking,
                     crashes, restarted>>
      /\ spool[g].pc = "handled"
      /\ inbox' = [inbox EXCEPT ![spool[g].msg] = "acked"]
      /\ spool' = [spool EXCEPT ![g] = Idle]
  BY DEF Ack
<1>3. PICK m \in Message : /\ m = spool[g].msg /\ inbox[m] = "unacked" /\ spool[g].rows = {}
                           /\ \A h \in Goroutine : (h # g /\ Busy(h)) => spool[h].msg # m
  BY <1>1, <1>2 DEF Spooling, Busy
<1>4. /\ Becomes(g, Idle) /\ spool'[g] = Idle
  BY <1>1, <1>2, IdleType, SpoolChange DEF Becomes
<1>5. /\ inbox' \in [Message -> {"ready", "unacked", "acked", "dead"}]
      /\ inbox'[m] = "acked" /\ \A n \in Message : n # m => inbox'[n] = inbox[n]
  BY <1>1, <1>2, <1>3 DEF Shape
<1>6. Shape'
  BY <1>1, <1>2, <1>4, <1>5 DEF Shape, tables, sending, tracking, Becomes
<1>7. Idle.pc = "idle" /\ Idle.rows = {}
  BY DEF Idle
<1>8. \A h \in Goroutine : spool'[h].rows = spool[h].rows
  BY <1>3, <1>4, <1>7 DEF Becomes
<1>9. Placed' /\ InHand' /\ Tried' /\ Kept'
  BY <1>2, <1>8, SpoolerFrame DEF Row, tables
<1>10. \A h \in Goroutine : spool'[h].pc # "idle" => h # g /\ Busy(h) /\ spool'[h] = spool[h]
  BY <1>4, <1>7 DEF Becomes, Busy
<1>11. Spooling'
  <2>1. ASSUME NEW h \in Goroutine
        PROVE  (/\ Busy(h) => /\ spool[h].msg \in Message /\ spool[h].at \in DOMAIN WinsIn[spool[h].msg]
                              /\ inbox[spool[h].msg] = "unacked"
                              /\ \A j \in Goroutine : (j # h /\ Busy(j)) => spool[j].msg # spool[h].msg
                /\ Busy(h) => spool[h].typed \in 1..spool[h].at
                /\ (spool[h].pc # "publish") => spool[h].rows = {}
                /\ (spool[h].pc = "publish") => spool[h].rows # {})'
    <3>1. CASE h = g
      BY <1>4, <1>7, <3>1 DEF Busy
    <3>2. CASE h # g
      <4>1. spool'[h] = spool[h]
        BY <1>4, <3>2 DEF Becomes
      <4> QED BY <1>1, <1>3, <1>5, <1>10, <3>2, <4>1 DEF Spooling, Busy
    <3> QED BY <3>1, <3>2
  <2> QED BY <2>1 DEF Spooling
<1>12. Fresh'
  BY <1>1, <1>2, <1>5 DEF Fresh
<1>13. \A k, i : Ahead(k, i)' => Ahead(k, i)
  BY <1>10, AheadFrame
<1>14. Counted'
  <2>1. \A n \in Message : inbox'[n] = "ready" => inbox[n] = "ready"
    BY <1>5
  <2> QED BY <1>1, <1>2, <1>13, <2>1, CountedFrame DEF SameWins, Row, tables
<1> QED BY <1>6, <1>9, <1>11, <1>12, <1>14 DEF IInv

\* Nothing in memory is left: who restarts knows the table and the queue only.
LEMMA StepSpoolerDown ==
  ASSUME IInv, SpoolerDown, crashes' \in 0..MaxCrashes, crashes' >= crashes
  PROVE  IInv'
<1>1. Shape /\ Spooling /\ Fresh /\ Counted
  BY DEF IInv
<1>2. /\ inbox' \in [Message -> {"ready", "unacked", "acked", "dead"}]
      /\ \A m \in Message : inbox'[m] = IF inbox[m] = "unacked" THEN "ready" ELSE inbox[m]
      /\ spool' \in [Goroutine -> Spooled] /\ \A g \in Goroutine : spool'[g] = Idle
      /\ restarted' = restarted \cup {"spooler"}
      /\ UNCHANGED <<attempts, tables, told, release, sending, txs, events, tracking>>
  BY <1>1, SpoolerDownEffect
<1>3. \A g \in Goroutine : spool'[g].pc = "idle" /\ spool'[g].rows = {}
  BY <1>2 DEF Idle
<1>4. Shape'
  BY <1>1, <1>2 DEF Shape, tables, sending, tracking, Service
<1>5. Placed'
  BY <1>2, <1>3, PlacedFrame DEF IInv, tables, sending, Row
<1>6. Tried' /\ InHand'
  BY <1>2, TriedFrame DEF IInv, sending
<1>7. Kept'
  BY <1>2 DEF Kept
<1>8. Spooling'
  BY <1>3 DEF Spooling, Busy
<1>9. Fresh'
  BY <1>1, <1>2 DEF Fresh
<1>10. \A m, i : Ahead(m, i)' => Ahead(m, i)
  BY <1>3, AheadFrame
<1>11. Counted'
  BY <1>1, <1>2, <1>10, CountedFrame DEF SameWins, Row, tables
<1> QED BY <1>4, <1>5, <1>6, <1>7, <1>8, <1>9, <1>11 DEF IInv

\* What the steps of the other services leave alone of the spooler.
LEMMA SpoolerSame ==
  ASSUME IInv, UNCHANGED spooler, SameWins, "spooler" \notin restarted' => "spooler" \notin restarted
  PROVE  Spooling' /\ Fresh' /\ Counted'
<1>1. inbox' = inbox /\ attempts' = attempts /\ spool' = spool
  BY DEF spooler
<1>2. Spooling' /\ Fresh'
  BY <1>1, SpoolingFrame DEF IInv
<1>3. \A m, i : Ahead(m, i)' => Ahead(m, i)
  BY <1>1 DEF Ahead, Busy
<1> QED BY <1>1, <1>2, <1>3, CountedFrame DEF IInv

LEMMA StepRelease ==
  ASSUME IInv, Release
  PROVE  IInv'
<1>1. Shape
  BY DEF IInv
<1>2. /\ UNCHANGED <<spooler, types, told, sending, txs, events, tracking, crashes, restarted>>
      /\ release = {} /\ MarkSent(Unsent) /\ release' = Unsent
  BY DEF Release
<1>3. /\ Placed' /\ InHand' /\ Tried' /\ Kept' /\ SameWins
      /\ pending' \in Seq(PendingRow)
  BY <1>2, Taking DEF spooler
<1>4. Shape'
  BY <1>1, <1>2, <1>3, UnsentAreNumbers DEF Shape, sending, tracking, spooler
<1>5. Spooling' /\ Fresh' /\ Counted'
  BY <1>2, <1>3, SpoolerSame
<1> QED BY <1>3, <1>4, <1>5 DEF IInv

LEMMA StepPublishRelease ==
  ASSUME IInv, PublishRelease
  PROVE  IInv'
<1>1. Shape
  BY DEF IInv
<1>2. /\ UNCHANGED <<spooler, tables, told, sender, txs, events, tracking, crashes, restarted>>
      /\ release # {} /\ Enqueue(release) /\ release' = {}
  BY DEF PublishRelease
<1>3. PICK R \in SUBSET Nat : R = release
  BY <1>1 DEF Shape
<1>4. Placed' /\ InHand' /\ Tried' /\ Kept' /\ batches' \in Seq(Batch)
  BY <1>2, <1>3, Publishing DEF spooler
<1>5. Shape'
  BY <1>1, <1>2, <1>4 DEF Shape, tables, tracking, spooler
<1>6. Spooling' /\ Fresh' /\ Counted'
  BY <1>2, SpoolerSame DEF SameWins, Row, tables
<1> QED BY <1>4, <1>5, <1>6 DEF IInv

LEMMA StepReleaseCrash ==
  ASSUME IInv, ReleaseCrash
  PROVE  IInv'
<1>1. Shape
  BY DEF IInv
<1>2. /\ UNCHANGED <<spooler, tables, told, sending, txs, events, tracking>>
      /\ release' = {} /\ crashes < MaxCrashes /\ crashes' = crashes + 1
      /\ restarted' = restarted \cup {"release"}
  BY DEF ReleaseCrash, Down
<1>3. crashes' \in 0..MaxCrashes /\ crashes' >= crashes
  BY <1>1, <1>2, PayoutsAssumption DEF Shape
<1>4. Shape'
  BY <1>1, <1>2, <1>3 DEF Shape, tables, sending, tracking, spooler, Service
<1>5. Placed'
  BY <1>2, PlacedFrame DEF IInv, tables, sending, spooler, Row
<1>6. Tried' /\ InHand'
  BY <1>2, <1>3, TriedFrame DEF IInv, sending
<1>7. Kept'
  BY <1>2 DEF Kept
<1>8. Spooling' /\ Fresh' /\ Counted'
  BY <1>2, SpoolerSame DEF SameWins, Row, tables
<1> QED BY <1>4, <1>5, <1>6, <1>7, <1>8 DEF IInv

-----------------------------------------------------------------------------
(* The steps of the sender, the chain and track-winners.                   *)

LEMMA StepHand ==
  ASSUME IInv, Hand
  PROVE  IInv'
<1>1. Shape /\ InHand /\ Tried
  BY DEF IInv
<1>2. UNCHANGED <<spooler, tables, told, release, txs, events, tracking, crashes, restarted>>
  BY DEF Hand
<1>3. PICK k \in DOMAIN batches :
        /\ sender.pc = "idle" /\ batches[k].state = "ready"
        /\ batches' \in Seq(Batch) /\ DOMAIN batches' = DOMAIN batches
        /\ batches'[k].rows = batches[k].rows /\ batches'[k].state = "handed"
        /\ \A l \in DOMAIN batches : l # k => batches'[l] = batches[l]
        /\ sender' \in [pc : {"idle", "call", "wait"}, batch : Nat, tx : Nat]
        /\ sender'.pc = "call" /\ sender'.batch = k
  BY <1>1, HandEffect
<1>4. Shape'
  BY <1>1, <1>2, <1>3 DEF Shape, tables, tracking, spooler
<1>5. \A l \in DOMAIN batches : batches'[l].rows = batches[l].rows
  BY <1>3
<1>6. Placed'
  BY <1>2, <1>3, <1>5, PlacedFrame DEF IInv, tables, spooler, Row
<1>7. \A l : Tries(l)' = Tries(l) /\ ~Calling(l)
  BY <1>2, <1>3 DEF Tries, Calling
<1>8. \A l : Calling(l)' <=> l = k
  BY <1>3 DEF Calling
<1>9. Repeats' = Repeats
  BY <1>2 DEF Repeats
<1>10. InHand'
  BY <1>1, <1>2, <1>3 DEF InHand
<1>11. Tried'
  <2>1. \A l \in DOMAIN batches' :
          /\ Cardinality(Tries(l)) <= Repeats + 1
          /\ (batches'[l].state = "ready" \/ l = k) => Cardinality(Tries(l)) <= Repeats
    <3> HIDE DEF Repeats, Tries, Calling
    <3> QED BY <1>1, <1>3 DEF Tried
  <2> QED BY <1>7, <1>8, <1>9, <2>1 DEF Tried
<1>12. Kept'
  <2>1. \A r : Somewhere(r) => Somewhere(r)'
    BY <1>2, <1>3, <1>5 DEF Somewhere, spooler
  <2>2. restarted' \subseteq {"tracker"} => \A r \in Row' : pending'[r].sent => Somewhere(r)'
    BY <1>2, <2>1 DEF IInv, Kept, Row, tables
  <2>3. restarted' \subseteq {"tracker"} =>
          \A l \in DOMAIN batches' : batches'[l].state = "ready" \/ Calling(l)' \/ Tries(l)' # {}
    BY <1>2, <1>3, <1>7, <1>8 DEF IInv, Kept
  <2> QED BY <2>2, <2>3 DEF Kept
<1>13. Spooling' /\ Fresh' /\ Counted'
  BY <1>2, SpoolerSame DEF SameWins, Row, tables
<1> QED BY <1>4, <1>6, <1>10, <1>11, <1>12, <1>13 DEF IInv

LEMMA StepAckBatch ==
  ASSUME IInv, NEW k \in DOMAIN batches, AckBatch(k)
  PROVE  IInv'
<1>1. Shape
  BY DEF IInv
<1>2. /\ UNCHANGED <<spooler, tables, told, release, sender, txs, events, tracking, crashes,
                     restarted>>
      /\ batches[k].state = "handed" /\ SetBatch(k, "acked")
  BY DEF AckBatch
<1>3. /\ batches' \in Seq(Batch) /\ DOMAIN batches' = DOMAIN batches
      /\ batches'[k].rows = batches[k].rows /\ batches'[k].state = "acked"
      /\ \A l \in DOMAIN batches : l # k => batches'[l] = batches[l]
  BY <1>1, <1>2, Setting
<1>4. /\ \A l \in DOMAIN batches : batches'[l].rows = batches[l].rows
      /\ \A l \in DOMAIN batches : batches'[l].state = "ready" <=> batches[l].state = "ready"
  BY <1>2, <1>3
<1>5. Shape'
  BY <1>1, <1>2, <1>3 DEF Shape, tables, tracking, spooler
<1>6. Placed'
  BY <1>2, <1>3, <1>4, PlacedFrame DEF IInv, tables, spooler, Row
<1>7. crashes' \in 0..MaxCrashes /\ crashes' >= crashes
  BY <1>1, <1>2, PayoutsAssumption DEF Shape
<1>8. Tried' /\ InHand'
  BY <1>2, <1>3, <1>4, <1>7, TriedFrame DEF IInv
<1>9. Kept'
  BY <1>2, <1>3, <1>4, KeptFrame DEF IInv, tables, spooler, Row
<1>10. Spooling' /\ Fresh' /\ Counted'
  BY <1>2, SpoolerSame DEF SameWins, Row, tables
<1> QED BY <1>5, <1>6, <1>8, <1>9, <1>10 DEF IInv

LEMMA StepCall ==
  ASSUME IInv, Call
  PROVE  IInv'
<1>1. Shape /\ InHand /\ Tried
  BY DEF IInv
<1>2. UNCHANGED <<spooler, tables, told, release, batches, events, tracking, crashes, restarted>>
  BY DEF Call
<1>3. /\ sender.pc = "call" /\ txs' \in Seq(Payment)
      /\ sender' \in [pc : {"idle", "call", "wait"}, batch : Nat, tx : Nat]
      /\ sender'.pc = "wait" /\ sender'.batch = sender.batch
      /\ sender'.tx \in Nat /\ sender'.tx \notin DOMAIN txs
      /\ DOMAIN txs' = DOMAIN txs \cup {sender'.tx}
      /\ txs'[sender'.tx].batch = sender.batch
      /\ \A t \in DOMAIN txs : txs'[t] = txs[t]
  BY <1>1, CallEffect
<1>4. PICK b \in DOMAIN batches, n \in Nat :
        b = sender.batch /\ n = sender'.tx /\ batches[b].state # "ready"
  BY <1>1, <1>3 DEF InHand
<1>5. Shape'
  BY <1>1, <1>2, <1>3 DEF Shape, tables, tracking, spooler
<1>6. Placed'
  BY <1>2, PlacedFrame DEF IInv, tables, spooler, Row
<1>7. InHand'
  BY <1>1, <1>2, <1>3 DEF InHand
<1>8. /\ Tries(b)' = Tries(b) \cup {n} /\ n \notin Tries(b)
      /\ \A k : k # b => Tries(k)' = Tries(k)
  BY <1>3, <1>4 DEF Tries
<1>9. /\ \A k : ~Calling(k)'
      /\ \A k : Calling(k) <=> k = b
  BY <1>3, <1>4 DEF Calling
<1>10. Repeats' = Repeats /\ Repeats \in Nat
  BY <1>1, <1>2, PayoutsAssumption DEF Repeats, Shape
<1>11. Tried'
  <2>1. IsFiniteSet(Tries(b)) /\ Cardinality(Tries(b)) \in Nat
    BY <1>1, TriesFinite
  <2>2. Cardinality(Tries(b)') = Cardinality(Tries(b)) + 1
    BY <1>8, <2>1, FS_AddElement, SMTT(30)
  <2>3. Cardinality(Tries(b)) <= Repeats
    BY <1>1, <1>9 DEF Tried
  <2>4. Cardinality(Tries(b)') <= Repeats' + 1
    <3> HIDE DEF Repeats, Tries
    <3> QED BY <1>10, <2>1, <2>2, <2>3
  <2>5. ASSUME NEW k \in DOMAIN batches
        PROVE  /\ Cardinality(Tries(k)') <= Repeats' + 1
               /\ batches[k].state = "ready" => Cardinality(Tries(k)') <= Repeats'
    BY <1>1, <1>4, <1>8, <1>10, <2>4 DEF Tried
  <2> QED BY <1>2, <1>9, <2>5 DEF Tried
<1>12. Kept'
  <2>1. \A r : Somewhere(r) => Somewhere(r)'
    BY <1>2 DEF Somewhere, spooler
  <2>2. restarted' \subseteq {"tracker"} => \A r \in Row' : pending'[r].sent => Somewhere(r)'
    BY <1>2, <2>1 DEF IInv, Kept, Row, tables
  <2>3. restarted' \subseteq {"tracker"} =>
          \A k \in DOMAIN batches' : batches'[k].state = "ready" \/ Tries(k)' # {}
    BY <1>2, <1>8, <1>9 DEF IInv, Kept
  <2> QED BY <2>2, <2>3 DEF Kept
<1>13. Spooling' /\ Fresh' /\ Counted'
  BY <1>2, SpoolerSame DEF SameWins, Row, tables
<1> QED BY <1>5, <1>6, <1>7, <1>11, <1>12, <1>13 DEF IInv

LEMMA StepReceipt ==
  ASSUME IInv, Receipt
  PROVE  IInv'
<1>1. Shape /\ InHand /\ Tried
  BY DEF IInv
<1>2. /\ UNCHANGED <<spooler, tables, told, release, batches, txs, events, tracking, crashes,
                     restarted>>
      /\ sender.pc = "wait" /\ sender' = Waiting
      /\ sender' \in [pc : {"idle", "call", "wait"}, batch : Nat, tx : Nat]
      /\ sender'.pc = "idle"
  BY WaitingType DEF Receipt
<1>3. Shape'
  BY <1>1, <1>2 DEF Shape, tables, tracking, spooler
<1>4. Placed'
  BY <1>2, PlacedFrame DEF IInv, tables, spooler, Row
<1>5. InHand'
  BY <1>1, <1>2 DEF InHand
<1>6. \A k : Tries(k)' = Tries(k) /\ ~Calling(k)' /\ ~Calling(k)
  BY <1>2 DEF Tries, Calling
<1>7. Repeats' = Repeats
  BY <1>2 DEF Repeats
<1>8. Tried'
  BY <1>1, <1>2, <1>6, <1>7 DEF Tried
<1>9. Kept'
  <2>1. \A r : Somewhere(r) => Somewhere(r)'
    BY <1>2 DEF Somewhere, spooler
  <2>2. restarted' \subseteq {"tracker"} => \A r \in Row' : pending'[r].sent => Somewhere(r)'
    BY <1>2, <2>1 DEF IInv, Kept, Row, tables
  <2>3. restarted' \subseteq {"tracker"} =>
          \A k \in DOMAIN batches' : batches'[k].state = "ready" \/ Tries(k)' # {}
    BY <1>2, <1>6 DEF IInv, Kept
  <2> QED BY <2>2, <2>3 DEF Kept
<1>10. Spooling' /\ Fresh' /\ Counted'
  BY <1>2, SpoolerSame DEF SameWins, Row, tables
<1> QED BY <1>3, <1>4, <1>5, <1>8, <1>9, <1>10 DEF IInv

LEMMA StepSenderCrash ==
  ASSUME IInv, SenderCrash
  PROVE  IInv'
<1>1. Shape /\ InHand /\ Tried
  BY DEF IInv
<1>2. /\ UNCHANGED <<spooler, tables, told, release, txs, events, tracking>>
      /\ crashes < MaxCrashes /\ crashes' = crashes + 1
      /\ restarted' = restarted \cup {"sender"}
      /\ batches' = Redelivered /\ sender' = Waiting
      /\ sender' \in [pc : {"idle", "call", "wait"}, batch : Nat, tx : Nat]
      /\ sender'.pc = "idle"
  BY WaitingType DEF SenderCrash, Down
<1>3. /\ batches' \in Seq(Batch) /\ DOMAIN batches' = DOMAIN batches
      /\ \A k \in DOMAIN batches :
           /\ batches'[k].rows = batches[k].rows
           /\ batches'[k].state = IF batches[k].state = "handed" THEN "ready" ELSE batches[k].state
  BY <1>1, <1>2, Redelivering
<1>4. crashes' \in 0..MaxCrashes /\ crashes \in Nat
  BY <1>1, <1>2, PayoutsAssumption DEF Shape
<1>5. Shape'
  BY <1>1, <1>2, <1>3, <1>4 DEF Shape, tables, tracking, spooler, Service
<1>6. Placed'
  BY <1>2, <1>3, PlacedFrame DEF IInv, tables, spooler, Row
<1>7. InHand'
  BY <1>1, <1>2, <1>3 DEF InHand
<1>8. \A k : Tries(k)' = Tries(k) /\ ~Calling(k)'
  BY <1>2 DEF Tries, Calling
<1>9. Repeats \in Nat /\ Repeats' \in Nat /\ Repeats + 1 <= Repeats'
  BY <1>2, <1>4 DEF Repeats
<1>10. Tried'
  <2>1. \A k : Cardinality(Tries(k)) \in Nat
    BY <1>1, TriesFinite
  <2>2. \A k \in DOMAIN batches : Cardinality(Tries(k)) <= Repeats'
    <3>1. \A k \in DOMAIN batches : Cardinality(Tries(k)) <= Repeats + 1
      BY <1>1 DEF Tried
    <3> HIDE DEF Repeats, Tries
    <3> QED BY <1>9, <2>1, <3>1
  <2>3. \A k \in DOMAIN batches : Cardinality(Tries(k)) <= Repeats' + 1
    <3> HIDE DEF Repeats, Tries
    <3> QED BY <1>9, <2>1, <2>2
  <2> QED BY <1>3, <1>8, <2>2, <2>3 DEF Tried
<1>11. Kept'
  BY <1>2 DEF Kept
<1>12. Spooling' /\ Fresh' /\ Counted'
  BY <1>2, SpoolerSame DEF SameWins, Row, tables
<1> QED BY <1>5, <1>6, <1>7, <1>10, <1>11, <1>12 DEF IInv

LEMMA StepChain ==
  ASSUME IInv, NEW t \in DOMAIN txs, Mine(t) \/ Revert(t)
  PROVE  IInv'
<1>1. Shape /\ InHand /\ Placed
  BY DEF IInv
<1>2. UNCHANGED <<spooler, tables, told, release, sending, tracking, crashes, restarted>>
  BY DEF Mine, Revert
<1>3. txs[t].batch \in DOMAIN batches /\ RowsOf(t) \subseteq Row
  BY <1>1 DEF InHand, Placed, Marked, Sent, RowsOf
<1>4. /\ txs' \in Seq(Payment) /\ DOMAIN txs' = DOMAIN txs
      /\ \A u \in DOMAIN txs : txs'[u].batch = txs[u].batch
      /\ events \subseteq events' /\ events' \subseteq Event
  BY <1>1, <1>3, SettledEffect DEF Settled
<1>5. tracker' \in [event : events' \cup {NoEvent}, left : [Win -> Nat]]
  BY <1>1, <1>2, <1>4 DEF Shape, tracking
<1>6. Shape'
  BY <1>1, <1>2, <1>4, <1>5 DEF Shape, tables, tracking, spooler, sending
<1>7. Placed'
  BY <1>2, PlacedFrame DEF IInv, tables, spooler, sending, Row
<1>8. crashes' \in 0..MaxCrashes /\ crashes' >= crashes
  BY <1>1, <1>2, PayoutsAssumption DEF Shape
<1>9. Tried' /\ InHand'
  BY <1>2, <1>4, <1>8, TriedFrame DEF IInv, sending
<1>10. Kept'
  BY <1>2, <1>4, KeptFrame DEF IInv, tables, spooler, sending, Row
<1>11. Spooling' /\ Fresh' /\ Counted'
  BY <1>2, SpoolerSame DEF SameWins, Row, tables
<1> QED BY <1>6, <1>7, <1>9, <1>10, <1>11 DEF IInv

LEMMA StepTracker ==
  ASSUME IInv, Tracker \/ TrackerCrash \/ (\E e \in events : Unblock(e))
  PROVE  IInv'
<1>1. Shape
  BY DEF IInv
<1>2. /\ UNCHANGED <<spooler, pending, release, sending, txs>>
      /\ types' \in [Win -> Nat] /\ reported' \in [Win -> Nat] /\ told' \subseteq Win
      /\ events' \subseteq Event /\ done' \subseteq events'
      /\ tracker' \in [event : events' \cup {NoEvent}, left : [Win -> Nat]]
      /\ crashes' \in 0..MaxCrashes /\ crashes' >= crashes
      /\ restarted' \in {restarted, restarted \cup {"tracker"}}
  BY <1>1, TrackerShape
<1>3. restarted \subseteq restarted' /\ ("spooler" \notin restarted' => "spooler" \notin restarted)
      /\ restarted' \subseteq Service
  BY <1>1, <1>2 DEF Shape, Service
<1>4. Shape'
  BY <1>1, <1>2, <1>3 DEF Shape, spooler, sending
<1>5. Placed'
  BY <1>2, PlacedFrame DEF IInv, spooler, sending, Row
<1>6. Tried' /\ InHand'
  BY <1>2, <1>3, TriedFrame DEF IInv, sending
<1>7. Kept'
  BY <1>2, <1>3, KeptFrame DEF IInv, spooler, sending, Row
<1>8. Spooling' /\ Fresh' /\ Counted'
  BY <1>2, <1>3, SpoolerSame DEF SameWins, Row
<1> QED BY <1>4, <1>5, <1>6, <1>7, <1>8 DEF IInv

-----------------------------------------------------------------------------
(* The invariant holds.                                                    *)

LEMMA InitIInv == Init => IInv
<1> SUFFICES ASSUME Init  PROVE IInv
  OBVIOUS
<1>1. /\ inbox = [m \in Message |-> "ready"] /\ attempts = [m \in Message |-> 0]
      /\ spool = [g \in Goroutine |-> Idle]
      /\ pending = <<>> /\ types = NoWins /\ told = {} /\ release = {}
      /\ batches = <<>> /\ sender = Waiting /\ txs = <<>>
      /\ events = {} /\ done = {} /\ tracker = Resting /\ reported = NoWins
      /\ crashes = 0 /\ restarted = {}
  BY DEF Init
<1>2. \A S : <<>> \in Seq(S) /\ DOMAIN <<>> = {}
  BY EmptySeq
<1>3. \A g \in Goroutine : spool[g].pc = "idle" /\ spool[g].rows = {}
  BY <1>1 DEF Idle
<1>4. NoWins \in [Win -> Nat] /\ Resting \in [event : {NoEvent}, left : [Win -> Nat]]
  BY DEF NoWins, Resting
<1>5. Shape
  BY <1>1, <1>2, <1>4, IdleType, WaitingType, PayoutsAssumption DEF Shape
<1>6. Spooling /\ Fresh
  BY <1>1, <1>3, PayoutsAssumption DEF Spooling, Fresh, Busy
<1>7. Placed
  BY <1>1, <1>2, <1>3 DEF Placed, Apart, Marked, Sent
<1>8. InHand /\ Tried /\ Kept
  BY <1>1, <1>2, WaitingType DEF InHand, Tried, Kept, Row
<1>9. Counted
  <2>1. \A w : RowsHolding(w) = {}
    BY <1>1, <1>2 DEF RowsHolding, Row
  <2>2. \A m, i : ~Ahead(m, i)
    BY <1>3 DEF Ahead, Busy
  <2>3. Cardinality({}) = 0 /\ \A m \in Message : attempts[m] = 0
    BY <1>1, FS_EmptySet
  <2>4. Recorded
    BY <2>1, <2>2, <2>3 DEF Recorded
  <2>5. Once
    BY <1>1, <1>2, <2>1, <2>2 DEF Once, Row
  <2> QED BY <2>4, <2>5 DEF Counted
<1> QED BY <1>5, <1>6, <1>7, <1>8, <1>9 DEF IInv

LEMMA StepIInv == IInv /\ [Next]_vars => IInv'
<1> SUFFICES ASSUME IInv, [Next]_vars  PROVE IInv'
  OBVIOUS
<1>1. ASSUME NEW g \in Goroutine, Spooler(g)  PROVE IInv'
  <2>1. CASE Receive(g)
    BY <2>1, StepReceive
  <2>2. CASE InsertPendingWinners(g)
    BY <2>2, StepInsert
  <2>3. CASE InsertPendingRewardType(g)
    BY <2>3, StepInsertType
  <2>4. CASE Weigh(g)
    BY <2>4, StepWeigh
  <2>5. CASE Flush(g)
    BY <2>5, StepFlush
  <2>6. CASE SkipFlush(g)
    BY <2>6, StepSkipFlush
  <2>7. CASE PublishBatch(g)
    BY <2>7, StepPublishBatch
  <2>8. CASE Ack(g)
    BY <2>8, StepAck
  <2>10. CASE TellPending(g)
    BY <2>10, StepTell
  <2>9. CASE FlushFindsNothing(g)
    <3>1. SpoolerDown /\ crashes' = crashes /\ crashes \in 0..MaxCrashes
      BY <2>9 DEF FlushFindsNothing, IInv, Shape
    <3> QED BY <3>1, PayoutsAssumption, StepSpoolerDown
  <2> QED BY <1>1, <2>1, <2>2, <2>3, <2>4, <2>5, <2>6, <2>7, <2>8, <2>9, <2>10 DEF Spooler
<1>2. CASE Release
  BY <1>2, StepRelease
<1>3. CASE PublishRelease
  BY <1>3, StepPublishRelease
<1>4. CASE Sender
  BY <1>4, StepHand, StepCall, StepReceipt, StepAckBatch DEF Sender
<1>5. CASE Chain
  BY <1>5, StepChain DEF Chain
<1>6. CASE Tracker \/ TrackerCrash \/ (\E e \in events : Unblock(e))
  BY <1>6, StepTracker
<1>7. CASE SpoolerCrash
  <2>1. SpoolerDown /\ crashes' = crashes + 1 /\ crashes < MaxCrashes /\ crashes \in 0..MaxCrashes
    BY <1>7 DEF SpoolerCrash, Down, IInv, Shape
  <2>2. crashes' \in 0..MaxCrashes /\ crashes' >= crashes
    BY <2>1, PayoutsAssumption
  <2> QED BY <2>1, <2>2, StepSpoolerDown
<1>8. CASE ReleaseCrash
  BY <1>8, StepReleaseCrash
<1>9. CASE SenderCrash
  BY <1>9, StepSenderCrash
<1>10. CASE UNCHANGED vars
  <2>1. /\ UNCHANGED <<inbox, attempts, spool, pending, types, told, release, batches, sender>>
        /\ UNCHANGED <<txs, events, done, tracker, reported, crashes, restarted>>
    BY <1>10 DEF vars, spooler, tables, sending, tracking
  <2>2. Shape' /\ Spooling' /\ Fresh' /\ Placed' /\ InHand'
    BY <2>1 DEF IInv, Shape, Spooling, Fresh, Placed, Apart, Marked, Sent, InHand, Busy, Row
  <2>3. crashes' \in 0..MaxCrashes /\ crashes' >= crashes
    BY <2>1, PayoutsAssumption DEF IInv, Shape
  <2>4. Tried'
    BY <2>1, <2>3, TriedFrame DEF IInv
  <2>5. Kept'
    BY <2>1, KeptFrame DEF IInv, Row
  <2>6. Counted'
    BY <2>1, SpoolerSame DEF spooler, SameWins, Row
  <2> QED BY <2>2, <2>4, <2>5, <2>6 DEF IInv
<1> QED BY <1>1, <1>2, <1>3, <1>4, <1>5, <1>6, <1>7, <1>8, <1>9, <1>10 DEF Next

LEMMA SpecIInv == Spec => []IInv
BY InitIInv, StepIInv, PTL DEF Spec

\* What the services store, hold and send stays of its type: rows are rows of
\* the table, batches are not empty and payments are of a batch.
THEOREM TypeCorrect == Spec => []TypeOK
<1>1. IInv => TypeOK
  <2> SUFFICES ASSUME IInv  PROVE TypeOK
    OBVIOUS
  <2>1. Shape /\ Spooling /\ Fresh /\ Placed /\ InHand
    BY DEF IInv
  <2>2. attempts \in [Message -> 0..MessageRetries]
    <3>1. attempts \in [Message -> Nat] /\ \A m \in Message : attempts[m] <= MessageRetries
      BY <2>1 DEF Shape, Fresh
    <3>2. \A m \in Message : attempts[m] \in 0..MessageRetries
      BY <3>1, PayoutsAssumption
    <3> QED BY <3>1, <3>2
  <2>3. \A R : Sent(R) => R \subseteq Row
    BY DEF Sent
  <2>4. ASSUME NEW g \in Goroutine
        PROVE  /\ spool[g].pc \in Stage
               /\ spool[g].pc # "idle" => /\ spool[g].msg \in Message
                                          /\ spool[g].at \in DOMAIN WinsIn[spool[g].msg]
                                          /\ spool[g].typed \in 1..spool[g].at
               /\ spool[g].toSend \in BOOLEAN /\ spool[g].rows \subseteq Row
    BY <2>1, <2>3 DEF Shape, Spooled, Spooling, Busy, Placed, Marked
  <2>5. release \subseteq Row
    BY <2>1, <2>3 DEF Placed, Marked
  <2>6. ASSUME NEW k \in DOMAIN batches
        PROVE  batches[k].rows \in (SUBSET Row) \ {{}} /\ batches[k].state \in {"ready", "handed", "acked"}
    <3>1. batches[k] \in Batch
      BY <2>1, LenProperties, ElementOfSeq DEF Shape
    <3> QED BY <2>1, <2>3, <3>1 DEF Batch, Placed, Marked
  <2>7. ASSUME NEW t \in DOMAIN txs
        PROVE  /\ txs[t].batch \in DOMAIN batches
               /\ txs[t].state \in {"pending", "mined", "reverted"} /\ txs[t].blocked \subseteq Account
    <3>1. txs[t] \in Payment
      BY <2>1, LenProperties, ElementOfSeq DEF Shape
    <3> QED BY <2>1, <3>1 DEF Payment, InHand
  <2>8. /\ sender.pc \in {"idle", "call", "wait"}
        /\ sender.pc # "idle" => sender.batch \in DOMAIN batches
        /\ sender.pc = "wait" => sender.tx \in DOMAIN txs
    BY <2>1 DEF Shape, InHand
  <2>9. pending \in Seq([win : Win, sent : BOOLEAN])
    BY <2>1 DEF Shape, PendingRow
  <2>10. tracker.event \in events \cup {NoEvent} /\ tracker.left \in [Win -> Nat]
    BY <2>1 DEF Shape
  <2>11. /\ inbox \in [Message -> {"ready", "unacked", "acked", "dead"}]
         /\ types \in [Win -> Nat] /\ reported \in [Win -> Nat] /\ told \subseteq Win
         /\ events \subseteq Event /\ done \subseteq events
         /\ crashes \in 0..MaxCrashes /\ restarted \subseteq Service
    BY <2>1 DEF Shape
  <2> QED BY <2>2, <2>4, <2>5, <2>6, <2>7, <2>8, <2>9, <2>10, <2>11 DEF TypeOK, Stage
<1> QED BY <1>1, SpecIInv, PTL

\* Whoever flushes and whatever fails, a row is part of one batch; and as long
\* as only the tracker goes down, a win has one row, which once marked as sent
\* is on its way to the chain or was submitted.
THEOREM PaidOnceHolds == Spec => []PaidOnce
<1>1. IInv => RowInOneBatch
  <2> SUFFICES ASSUME IInv  PROVE RowInOneBatch
    OBVIOUS
  <2> DEFINE holders == {<<"spooler", g>> : g \in Goroutine} \cup {<<"release", 0>>}
                          \cup {<<"batch", k>> : k \in DOMAIN batches}
             held(h) == CASE h[1] = "spooler" -> spool[h[2]].rows
                          [] h[1] = "release" -> release
                          [] OTHER -> batches[h[2]].rows
  <2>1. Apart /\ Marked
    BY DEF IInv, Placed
  <2>2. /\ \A g : held(<<"spooler", g>>) = spool[g].rows
        /\ held(<<"release", 0>>) = release
        /\ \A k : held(<<"batch", k>>) = batches[k].rows
    OBVIOUS
  <2>3. \A h \in holders :
          \/ \E g \in Goroutine : h = <<"spooler", g>>
          \/ h = <<"release", 0>>
          \/ \E k \in DOMAIN batches : h = <<"batch", k>>
    OBVIOUS
  <2> HIDE DEF holders, held
  <2>4. ASSUME NEW h \in holders, NEW i \in holders, h # i
        PROVE  held(h) \cap held(i) = {}
    <3>1. ASSUME NEW g \in Goroutine, h = <<"spooler", g>>  PROVE held(h) \cap held(i) = {}
      <4>1. CASE \E j \in Goroutine : i = <<"spooler", j>>
        BY <2>1, <2>2, <2>4, <3>1, <4>1 DEF Apart
      <4>2. CASE i = <<"release", 0>>
        BY <2>1, <2>2, <3>1, <4>2 DEF Apart
      <4>3. CASE \E k \in DOMAIN batches : i = <<"batch", k>>
        BY <2>1, <2>2, <3>1, <4>3 DEF Apart
      <4> QED BY <2>3, <4>1, <4>2, <4>3
    <3>2. CASE h = <<"release", 0>>
      <4>1. CASE \E j \in Goroutine : i = <<"spooler", j>>
        BY <2>1, <2>2, <3>2, <4>1 DEF Apart
      <4>2. CASE \E k \in DOMAIN batches : i = <<"batch", k>>
        BY <2>1, <2>2, <3>2, <4>2 DEF Apart
      <4> QED BY <2>3, <2>4, <3>2, <4>1, <4>2
    <3>3. ASSUME NEW k \in DOMAIN batches, h = <<"batch", k>>  PROVE held(h) \cap held(i) = {}
      <4>1. CASE \E j \in Goroutine : i = <<"spooler", j>>
        BY <2>1, <2>2, <3>3, <4>1 DEF Apart
      <4>2. CASE i = <<"release", 0>>
        BY <2>1, <2>2, <3>3, <4>2 DEF Apart
      <4>3. CASE \E l \in DOMAIN batches : i = <<"batch", l>>
        BY <2>1, <2>2, <2>4, <3>3, <4>3 DEF Apart
      <4> QED BY <2>3, <4>1, <4>2, <4>3
    <3> QED BY <2>3, <3>1, <3>2, <3>3
  <2>5. \A R : Sent(R) => R \cap Unsent = {}
    BY DEF Sent, Unsent
  <2>6. ASSUME NEW h \in holders  PROVE held(h) \cap Unsent = {}
    BY <2>1, <2>2, <2>3, <2>5 DEF Marked
  <2> QED BY <2>4, <2>6 DEF RowInOneBatch, holders, held
<1>2. IInv => ExactlyOnceUnlessDown
  <2> SUFFICES ASSUME IInv, restarted \subseteq {"tracker"}, NEW w \in Win
               PROVE  /\ Cardinality(RowsHolding(w)) <= 1
                      /\ \A r \in RowsHolding(w) \ Unsent :
                           \/ \E g \in Goroutine : r \in spool[g].rows
                           \/ r \in release
                           \/ \E k \in DOMAIN batches : /\ r \in batches[k].rows
                                                        /\ \/ batches[k].state = "ready"
                                                           \/ sender.batch = k
                                                           \/ Submissions(r) # {}
    BY DEF ExactlyOnceUnlessDown
  <2>1. \A r, q \in RowsHolding(w) : r = q
    <3>1. "spooler" \notin restarted
      OBVIOUS
    <3>2. \A r, q \in Row : WinOf(r) = WinOf(q) => r = q
      BY <3>1 DEF IInv, Counted, Once
    <3> QED BY <3>2 DEF RowsHolding
  <2>2. Cardinality(RowsHolding(w)) <= 1
    <3>1. CASE RowsHolding(w) = {}
      BY <3>1, FS_EmptySet
    <3>2. ASSUME NEW r \in RowsHolding(w)  PROVE Cardinality(RowsHolding(w)) <= 1
      <4>1. RowsHolding(w) = {r}
        BY <2>1
      <4>2. Cardinality({r}) = 1
        BY FS_Singleton
      <4>3. Cardinality(RowsHolding(w)) = 1
        BY <4>1, <4>2
      <4> QED BY <4>3
    <3> QED BY <3>1, <3>2
  <2>3. ASSUME NEW r \in RowsHolding(w) \ Unsent
        PROVE  \/ \E g \in Goroutine : r \in spool[g].rows
               \/ r \in release
               \/ \E k \in DOMAIN batches : /\ r \in batches[k].rows
                                            /\ \/ batches[k].state = "ready"
                                               \/ sender.batch = k
                                               \/ Submissions(r) # {}
    <3>1. Somewhere(r)
      <4>1. r \in Row /\ pending[r].sent
        BY DEF RowsHolding, Unsent
      <4> QED BY <4>1 DEF IInv, Kept
    <3>2. ASSUME NEW k \in DOMAIN batches, r \in batches[k].rows
          PROVE  batches[k].state = "ready" \/ sender.batch = k \/ Submissions(r) # {}
      <4>1. batches[k].state = "ready" \/ Calling(k) \/ Tries(k) # {}
        BY DEF IInv, Kept
      <4>2. Tries(k) \subseteq Submissions(r)
        BY <3>2 DEF Tries, Submissions, RowsOf
      <4> QED BY <4>1, <4>2 DEF Calling
    <3> QED BY <3>1, <3>2 DEF Somewhere
  <2> QED BY <2>2, <2>3
<1> QED BY <1>1, <1>2, SpecIInv, PTL DEF PaidOnce

\* Only a sender that goes down before its batch was acknowledged submits a
\* row again, once for each time it goes down.
THEOREM SubmissionsAreBounded == Spec => []SubmittedWithinCrashes
<1>1. IInv => SubmittedWithinCrashes
  <2> SUFFICES ASSUME IInv, NEW r \in Row
               PROVE  /\ Cardinality(Submissions(r)) <= 1 + crashes
                      /\ "sender" \notin restarted => Cardinality(Submissions(r)) <= 1
    BY DEF SubmittedWithinCrashes
  <2>1. Shape /\ Apart /\ InHand /\ Tried
    BY DEF IInv, Placed
  <2>2. crashes \in Nat
    BY <2>1, PayoutsAssumption DEF Shape
  <2>3. CASE \A k \in DOMAIN batches : r \notin batches[k].rows
    <3>1. Submissions(r) = {}
      BY <2>1, <2>3 DEF Submissions, RowsOf, InHand
    <3>2. Cardinality(Submissions(r)) = 0
      BY <3>1, FS_EmptySet
    <3> QED BY <2>2, <3>2
  <2>4. ASSUME NEW k \in DOMAIN batches, r \in batches[k].rows
        PROVE  /\ Cardinality(Submissions(r)) <= 1 + crashes
               /\ "sender" \notin restarted => Cardinality(Submissions(r)) <= 1
    <3>1. Submissions(r) = Tries(k)
      BY <2>1, <2>4 DEF Submissions, RowsOf, InHand, Apart, Tries
    <3>2. Cardinality(Submissions(r)) <= Repeats + 1 /\ Cardinality(Submissions(r)) \in Nat
      BY <2>1, <3>1, TriesFinite DEF Tried
    <3>3. Repeats \in Nat /\ Repeats <= crashes /\ ("sender" \notin restarted => Repeats = 0)
      BY <2>2 DEF Repeats
    <3> HIDE DEF Repeats
    <3> QED BY <2>2, <3>2, <3>3
  <2> QED BY <2>3, <2>4
<1> QED BY <1>1, SpecIInv, PTL

\* A win has no more rows than its announcement had deliveries.
THEOREM RecordingsAreBounded == Spec => []RecordedWithinDeliveries
<1>1. IInv => RecordedWithinDeliveries
  BY DEF IInv, Counted, Recorded, RecordedWithinDeliveries
<1> QED BY <1>1, SpecIInv, PTL

-----------------------------------------------------------------------------
(* Reports are true (MCPayouts).  With one goroutine that does not crash,   *)
(* and no daily release, the wins come to the table in the order of their   *)
(* blocks, and a flush takes them by whole announcements: the rows of a     *)
(* batch are all that lie between any two of them, so that the block range  *)
(* of a payment finds no row of another.                                    *)

\* The announcements are in the order of the blocks.
InBlockOrder ==
  \A m, n \in Message : m < n =>
    \A i \in DOMAIN WinsIn[m], j \in DOMAIN WinsIn[n] : BlockOf[WinsIn[m][i]] < BlockOf[WinsIn[n][j]]

\* One goroutine that is never killed, and nobody else who flushes.  The sender and the tracker may
\* go down, and payments may revert.
Untroubled ==
  /\ \A g, h \in Goroutine : g = h
  /\ ~DailyRelease /\ "spooler" \notin Mortal /\ InBlockOrder

BlockAt(r) == BlockOf[WinOf(r)]
Filling(g) == spool[g].pc \in {"insert", "type", "weigh", "tell"}
Noting(g) == spool[g].pc \in {"type", "weigh", "tell"}
Earlier(R, m) == \A r \in R : \A i \in DOMAIN WinsIn[m] : BlockAt(r) < BlockOf[WinsIn[m][i]]

\* What is to come is later than what is there, and what is unsent than what is sent.
RowsInOrder ==
  /\ \A m \in Ready : Earlier(Row, m)
  /\ \A g \in Goroutine : Filling(g) => Earlier(Row \ Unsent, spool[g].msg)
  /\ \A r \in Row \ Unsent, q \in Unsent : BlockAt(r) < BlockAt(q)
  /\ \A g \in Goroutine : Busy(g) => \A m \in Ready : spool[g].msg < m

\* A batch has every row between its own.
Convex(R) == \A q, s \in R, r \in Row : BlockAt(q) <= BlockAt(r) /\ BlockAt(r) <= BlockAt(s) => r \in R
Contiguous ==
  /\ \A g \in Goroutine : Convex(spool[g].rows)
  /\ \A k \in DOMAIN batches : Convex(batches[k].rows)

\* A goroutine that has recorded a win has left it for its flush.
Left == \A g \in Goroutine : Noting(g) \/ spool[g].pc = "flush" => Unsent # {}

\* The wins that a goroutine has come to have rows, but for the one that it is at.
Written(g) ==
  \A i \in 1..spool[g].at :
    (i < spool[g].at \/ spool[g].pc # "insert") => RowsHolding(WinsIn[spool[g].msg][i]) # {}

\* A reward type is of a win that has a row.
HaveRows ==
  /\ \A w \in Win : types[w] > 0 => RowsHolding(w) # {}
  /\ \A g \in Goroutine : Filling(g) => Written(g)

\* Everyone is told of a win before it can be sent.
Heard ==
  /\ \A r \in Row : WinOf(r) \in told \/ \E g \in Goroutine : Filling(g) /\ WinOf(r) \in SoFar(g)
  /\ \A r \in Row \ Unsent : WinOf(r) \in told

\* A log is of a payment that was mined, and the log of a reward of a winner who was not blocked.
Logged ==
  \A e \in events : /\ e.tx \in DOMAIN txs /\ txs[e.tx].state = "mined"
                    /\ e.kind = "reward" => e.winner \notin txs[e.tx].blocked

PaidOnly == \A w \in Win : tracker.left[w] > 0 \/ reported[w] > 0 => IsPaid(w)

Table == RowsInOrder /\ Left /\ HaveRows /\ Heard
TrueInv == Table /\ Contiguous /\ Logged /\ PaidOnly /\ release = {}

\* The table is as it was for the same rows, messages and goroutines, and no more reward types.
LEMMA TableFrame ==
  ASSUME Shape, Table, UNCHANGED <<inbox, spool, pending, told>>,
         types' \in [Win -> Nat], \A w \in Win : types'[w] <= types[w]
  PROVE  Table'
<1>1. RowsInOrder' /\ Left' /\ Heard'
  BY DEF Table, RowsInOrder, Left, Heard, Earlier, BlockAt, WinOf, Row, Unsent, Ready, Filling, Noting, Busy, SoFar
<1>2. HaveRows'
  <2>1. \A w : RowsHolding(w)' = RowsHolding(w)
    BY DEF RowsHolding, Row, WinOf
  <2>2. \A w \in Win : types'[w] > 0 => types[w] > 0
    BY DEF Shape
  <2>3. \A g \in Goroutine : Filling(g) => Written(g)
    BY DEF Table, HaveRows
  <2>4. \A g \in Goroutine : Filling(g)' => Written(g)'
    BY <2>1, <2>3 DEF Filling, Written
  <2> QED BY <2>1, <2>2, <2>4 DEF Table, HaveRows
<1> QED BY <1>1, <1>2 DEF Table

\* A payment that reached its winner stays, whatever else is submitted, mined and logged.
LEMMA PaidStays ==
  ASSUME Row \subseteq Row', \A r \in Row : pending'[r].win = pending[r].win,
         DOMAIN txs \subseteq DOMAIN txs',
         \A t \in DOMAIN txs : /\ RowsOf(t) \subseteq RowsOf(t)'
                               /\ txs[t].state = "mined" =>
                                    txs'[t].state = "mined" /\ txs'[t].blocked = txs[t].blocked,
         events \subseteq events',
         NEW w, IsPaid(w)
  PROVE  IsPaid(w)'
<1>1. PICK r \in RowsHolding(w) : Payments(r) # {}
  BY DEF IsPaid
<1>2. PICK t \in Submissions(r) :
        /\ txs[t].state = "mined"
        /\ WinnerOf[WinOf(r)] \in txs[t].blocked =>
             [tx |-> t, winner |-> WinnerOf[WinOf(r)], kind |-> "unblocked"] \in events
  BY <1>1 DEF Payments
<1>3. r \in RowsHolding(w)' /\ WinOf(r)' = WinOf(r)
  BY <1>1 DEF RowsHolding, WinOf
<1>4. t \in Submissions(r)'
  BY <1>2 DEF Submissions
<1>5. t \in DOMAIN txs
  BY <1>2 DEF Submissions
<1>6. t \in Payments(r)'
  BY <1>2, <1>3, <1>4, <1>5 DEF Payments
<1> QED BY <1>3, <1>6 DEF IsPaid

LEMMA PaidOnlyFrame ==
  ASSUME PaidOnly, UNCHANGED <<tracker, reported>>, \A w \in Win : IsPaid(w) => IsPaid(w)'
  PROVE  PaidOnly'
BY DEF PaidOnly

\* The goroutine moves on without a change to the rows.
LEMMA SpoolMoves ==
  ASSUME Shape, Table, Untroubled, NEW g \in Goroutine,
         pending' = pending, told \subseteq told', Ready' \subseteq Ready,
         Filling(g)' => \/ Filling(g) /\ spool'[g].msg = spool[g].msg
                        \/ spool'[g].msg \in Ready,
         Busy(g)' => \/ Busy(g) /\ spool'[g].msg = spool[g].msg
                     \/ \A m \in Ready' : spool'[g].msg < m,
         Noting(g)' \/ spool'[g].pc = "flush" => Noting(g) \/ spool[g].pc = "flush",
         Filling(g) => SoFar(g) \subseteq told' \/ (Filling(g)' /\ SoFar(g) \subseteq SoFar(g)'),
         Filling(g)' => \A i \in 1..spool'[g].at : (i < spool'[g].at \/ spool'[g].pc # "insert") =>
                          RowsHolding(WinsIn[spool'[g].msg][i]) # {},
         \A w \in Win : types'[w] > 0 => types[w] > 0 \/ RowsHolding(w) # {}
  PROVE  Table'
<1>1. \A h \in Goroutine : h = g
  BY DEF Untroubled
<1>2. /\ Row' = Row /\ Unsent' = Unsent
      /\ \A r : WinOf(r)' = WinOf(r) /\ BlockAt(r)' = BlockAt(r)
      /\ \A w : RowsHolding(w)' = RowsHolding(w)
  BY DEF Row, Unsent, WinOf, BlockAt, RowsHolding
<1>3. \A R, m : Earlier(R, m)' <=> Earlier(R', m)
  BY <1>2 DEF Earlier
<1>4. Table
  OBVIOUS
<1>5. RowsInOrder'
  <2>1. \A m \in Ready' : Earlier(Row, m)'
    BY DEF Table, RowsInOrder, Earlier, BlockAt, WinOf, Row
  <2>2. ASSUME Filling(g)' PROVE Earlier(Row \ Unsent, spool[g].msg)'
    <3>1. Earlier(Row \ Unsent, spool'[g].msg)
      BY <2>2 DEF Table, RowsInOrder, Earlier
    <3> QED BY <1>2, <3>1 DEF Earlier
  <2>3. \A r \in Row' \ Unsent', q \in Unsent' : BlockAt(r)' < BlockAt(q)'
    BY <1>2 DEF Table, RowsInOrder
  <2>4. ASSUME Busy(g)' PROVE \A m \in Ready' : spool'[g].msg < m
    BY <2>4 DEF Table, RowsInOrder
  <2> QED BY <1>1, <2>1, <2>2, <2>3, <2>4 DEF RowsInOrder
<1>6. Left'
  <2>1. Noting(g) \/ spool[g].pc = "flush" => Unsent # {}
    BY DEF Table, Left
  <2>2. (Noting(g) \/ spool[g].pc = "flush")' => Unsent' # {}
    BY <1>2, <2>1
  <2> QED BY <1>1, <2>2 DEF Left
<1>7. HaveRows'
  <2>1. \A w \in Win : types'[w] > 0 => RowsHolding(w)' # {}
    BY <1>2 DEF Table, HaveRows
  <2>2. Filling(g)' => Written(g)'
    BY <1>2 DEF Written
  <2> QED BY <1>1, <2>1, <2>2 DEF HaveRows
<1>8. Heard'
  <2>1. \A r \in Row' : WinOf(r)' \in told' \/ (Filling(g)' /\ WinOf(r)' \in SoFar(g)')
    BY <1>1, <1>2 DEF Table, Heard
  <2>2. \A r \in Row' \ Unsent' : WinOf(r)' \in told'
    BY <1>2 DEF Table, Heard
  <2> QED BY <2>1, <2>2 DEF Heard
<1> QED BY <1>5, <1>6, <1>7, <1>8 DEF Table

\* What is taken from the table, and held and sent, of a step of the spooler.
LEMMA SpoolerOnly ==
  ASSUME TrueInv, Table', SameWins \/ (Row \subseteq Row' /\ \A r \in Row : pending'[r].win = pending[r].win),
         UNCHANGED <<batches, txs, events, release, tracker, reported>>,
         Contiguous'
  PROVE  TrueInv'
<1>1. Row \subseteq Row' /\ \A r \in Row : pending'[r].win = pending[r].win
  BY DEF SameWins
<1>2. Logged'
  BY DEF TrueInv, Logged
<1>3. \A t : RowsOf(t)' = RowsOf(t)
  BY DEF RowsOf
<1>4. \A w \in Win : IsPaid(w) => IsPaid(w)'
  BY <1>1, <1>3, PaidStays
<1>5. PaidOnly'
  BY <1>4, PaidOnlyFrame DEF TrueInv
<1> QED BY <1>2, <1>5 DEF TrueInv

LEMMA ContiguousFrame ==
  ASSUME Contiguous, pending' = pending, UNCHANGED batches,
         \A g \in Goroutine : spool'[g].rows = spool[g].rows \/ spool'[g].rows = {}
  PROVE  Contiguous'
<1>1. ASSUME NEW R, Convex(R) PROVE \A q, s \in R, r \in Row' :
        BlockAt(q)' <= BlockAt(r)' /\ BlockAt(r)' <= BlockAt(s)' => r \in R
  BY <1>1 DEF Convex, BlockAt, WinOf, Row
<1>2. \A g \in Goroutine : Convex(spool[g].rows)'
  BY <1>1 DEF Contiguous, Convex
<1>3. \A k \in DOMAIN batches : Convex(batches[k].rows)'
  BY <1>1 DEF Contiguous, Convex
<1> QED BY <1>2, <1>3 DEF Contiguous

LEMMA TrueReceive ==
  ASSUME IInv, TrueInv, Untroubled, NEW g \in Goroutine, Receive(g)
  PROVE  TrueInv'
<1> DEFINE m == First(Ready)
<1>1. Ready \in SUBSET Nat /\ Ready # {} /\ spool[g].pc = "idle"
  BY PayoutsAssumption DEF Ready, Message, Receive
<1>2. m \in Ready /\ \A k \in Ready : m <= k
  BY <1>1, FirstIsLeast
<1>3. m \in Message /\ m \in Nat
  BY <1>1, <1>2 DEF Ready
<1>4. /\ UNCHANGED <<pending, types, told, release, batches, txs, events, tracker, reported>>
      /\ inbox' \in {[inbox EXCEPT ![m] = "unacked"], [inbox EXCEPT ![m] = "dead"]}
      /\ spool' \in {[spool EXCEPT ![g] = [Idle EXCEPT !.pc = "insert", !.msg = m, !.at = 1, !.typed = 1]], spool}
  BY DEF Receive, tables, sending, tracking
<1> HIDE DEF m
<1> DEFINE s == [Idle EXCEPT !.pc = "insert", !.msg = m, !.at = 1, !.typed = 1]
<1>5. s \in Spooled /\ s.pc = "insert" /\ s.msg = m /\ s.at = 1 /\ s.rows = {}
  BY <1>3 DEF Idle, Spooled, Stage
<1> HIDE DEF s
<1>6. spool' = spool \/ (Becomes(g, s) /\ spool'[g] = s)
  BY <1>4, <1>5, SpoolChange DEF IInv, Becomes, s
<1>7. Ready' = Ready \ {m}
  BY <1>3, <1>4 DEF Ready, IInv, Shape
<1>8. \A k \in Ready' : m < k
  BY <1>1, <1>2, <1>3, <1>7
<1>9. Filling(g)' => spool'[g].msg \in Ready
  BY <1>1, <1>2, <1>5, <1>6 DEF Filling
<1>10. Busy(g)' => \A k \in Ready' : spool'[g].msg < k
  BY <1>1, <1>5, <1>6, <1>8 DEF Busy
<1>11. ~Noting(g)' /\ spool'[g].pc # "flush" /\ ~Noting(g)
  BY <1>1, <1>5, <1>6 DEF Noting
<1>a. ~Filling(g) /\ (Filling(g)' => spool'[g].at = 1 /\ spool'[g].pc = "insert")
  BY <1>1, <1>5, <1>6 DEF Filling
<1>b. Filling(g)' => \A i \in 1..spool'[g].at : ~(i < spool'[g].at \/ spool'[g].pc # "insert")
  BY <1>a
<1>12. Table'
  BY <1>4, <1>7, <1>9, <1>10, <1>11, <1>a, <1>b, SpoolMoves DEF IInv, TrueInv
<1>13. Contiguous'
  BY <1>4, <1>5, <1>6, ContiguousFrame DEF TrueInv, Becomes
<1> QED BY <1>4, <1>12, <1>13, SpoolerOnly DEF SameWins, Row

\* The goroutine goes on with the payouts that it has recorded.
LEMMA StillWritten ==
  ASSUME Table, NEW g \in Goroutine, Noting(g), spool'[g].msg = spool[g].msg, spool'[g].at = spool[g].at
  PROVE  /\ Filling(g) /\ SoFar(g)' = SoFar(g)
         /\ \A i \in 1..spool[g].at : RowsHolding(WinsIn[spool[g].msg][i]) # {}
         /\ \A i \in 1..spool'[g].at : (i < spool'[g].at \/ spool'[g].pc # "insert") =>
              RowsHolding(WinsIn[spool'[g].msg][i]) # {}
<1>1. Filling(g) /\ spool[g].pc # "insert"
  BY DEF Noting, Filling
<1>2. Written(g)
  BY <1>1 DEF Table, HaveRows
<1>3. \A i \in 1..spool[g].at : RowsHolding(WinsIn[spool[g].msg][i]) # {}
  BY <1>1, <1>2 DEF Written
<1>4. SoFar(g)' = SoFar(g)
  BY DEF SoFar
<1> QED BY <1>1, <1>3, <1>4

LEMMA TrueInsertType ==
  ASSUME IInv, TrueInv, Untroubled, NEW g \in Goroutine, InsertPendingRewardType(g)
  PROVE  TrueInv'
<1>1. /\ UNCHANGED <<inbox, pending, told, release, batches, txs, events, tracker, reported>>
      /\ spool[g].pc = "type" /\ types' = [types EXCEPT ![Typing(g)] = types[Typing(g)] + 1]
  BY DEF InsertPendingRewardType, sending, tracking
<1>2. Noting(g) /\ Busy(g) /\ Filling(g)
  BY <1>1 DEF Noting, Busy, Filling
<1>a. spool[g].typed \in 1..spool[g].at
  BY <1>2 DEF IInv, Spooling
<1>b. /\ Becomes(g, spool'[g])
      /\ spool'[g].msg = spool[g].msg /\ spool'[g].rows = spool[g].rows /\ spool'[g].at = spool[g].at
      /\ spool'[g].pc \in {"type", "weigh"}
  BY <1>a, TypeEffect DEF Noted, IInv
<1>3. /\ SoFar(g)' = SoFar(g)
      /\ \A i \in 1..spool[g].at : RowsHolding(WinsIn[spool[g].msg][i]) # {}
      /\ \A i \in 1..spool'[g].at : (i < spool'[g].at \/ spool'[g].pc # "insert") =>
           RowsHolding(WinsIn[spool'[g].msg][i]) # {}
  BY <1>2, <1>b, StillWritten DEF TrueInv
<1>4. RowsHolding(Typing(g)) # {}
  BY <1>3, <1>a DEF Typing
<1>5. \A w \in Win : types'[w] > 0 => types[w] > 0 \/ RowsHolding(w) # {}
  BY <1>1, <1>4 DEF IInv, Shape
<1>6. Ready' = Ready /\ Noting(g)' /\ Filling(g)'
  BY <1>1, <1>b DEF Ready, Noting, Filling
<1>7. Table'
  BY <1>1, <1>2, <1>b, <1>3, <1>5, <1>6, SpoolMoves DEF IInv, TrueInv
<1>8. Contiguous'
  BY <1>1, <1>b, ContiguousFrame DEF TrueInv, Becomes
<1> QED BY <1>1, <1>7, <1>8, SpoolerOnly DEF SameWins, Row

LEMMA TrueWeigh ==
  ASSUME IInv, TrueInv, Untroubled, NEW g \in Goroutine, Weigh(g)
  PROVE  TrueInv'
<1>1. /\ UNCHANGED <<inbox, pending, types, told, release, batches, txs, events, tracker, reported>>
      /\ spool[g].pc = "weigh" /\ GoesTo(g, "tell")
  BY WeighEffect DEF Weigh, IInv, tables, sending, tracking
<1>2. Noting(g) /\ Busy(g) /\ Filling(g)
  BY <1>1 DEF Noting, Busy, Filling
<1>3. /\ spool'[g].pc = "tell" /\ spool'[g].msg = spool[g].msg /\ spool'[g].at = spool[g].at
      /\ SoFar(g)' = SoFar(g)
      /\ \A i \in 1..spool'[g].at : (i < spool'[g].at \/ spool'[g].pc # "insert") =>
           RowsHolding(WinsIn[spool'[g].msg][i]) # {}
  BY <1>1, <1>2, StillWritten DEF TrueInv, GoesTo
<1>4. Ready' = Ready /\ Noting(g)' /\ Filling(g)'
  BY <1>1, <1>3 DEF Ready, Noting, Filling
<1>5. Table'
  BY <1>1, <1>2, <1>3, <1>4, SpoolMoves DEF IInv, TrueInv
<1>6. Contiguous'
  BY <1>1, ContiguousFrame DEF TrueInv, GoesTo, Becomes
<1> QED BY <1>1, <1>5, <1>6, SpoolerOnly DEF SameWins, Row

LEMMA TrueTell ==
  ASSUME IInv, TrueInv, Untroubled, NEW g \in Goroutine, TellPending(g)
  PROVE  TrueInv'
<1>1. /\ UNCHANGED <<inbox, pending, types, release, batches, txs, events, tracker, reported>>
      /\ spool[g].pc = "tell"
  BY DEF TellPending, tables, sending, tracking
<1>2. Noting(g) /\ Busy(g) /\ Filling(g)
  BY <1>1 DEF Noting, Busy, Filling
<1>3. spool[g].msg \in Message /\ spool[g].at \in DOMAIN WinsIn[spool[g].msg] /\ spool[g].at \in Nat
  BY <1>2 DEF IInv, Spooling, Shape, Spooled
<1>4. /\ Becomes(g, spool'[g]) /\ spool'[g].msg = spool[g].msg /\ spool'[g].rows = spool[g].rows
      /\ \/ spool'[g].pc = "flush"
         \/ spool'[g].pc = "insert" /\ spool'[g].at = spool[g].at + 1
      /\ told' = told \cup SoFar(g)
  BY <1>3, TellEffect DEF IInv, Telling
<1>5. \A i \in 1..spool[g].at : RowsHolding(WinsIn[spool[g].msg][i]) # {}
  <2>1. Written(g) /\ spool[g].pc # "insert"
    BY <1>1, <1>2 DEF TrueInv, Table, HaveRows
  <2> QED BY <2>1 DEF Written
<1>6. /\ Ready' = Ready /\ ~Noting(g)'
      /\ Filling(g)' => spool'[g].pc = "insert" /\ spool'[g].at = spool[g].at + 1
  BY <1>1, <1>4 DEF Ready, Noting, Filling
<1>7. Filling(g)' => \A i \in 1..spool'[g].at : (i < spool'[g].at \/ spool'[g].pc # "insert") =>
                       RowsHolding(WinsIn[spool'[g].msg][i]) # {}
  <2> SUFFICES ASSUME Filling(g)', NEW i \in 1..spool'[g].at, i < spool'[g].at
               PROVE  RowsHolding(WinsIn[spool'[g].msg][i]) # {}
    BY <1>6
  <2>1. i \in 1..spool[g].at
    BY <1>3, <1>6
  <2> QED BY <1>4, <1>5, <2>1
<1>8. Table'
  BY <1>1, <1>2, <1>4, <1>6, <1>7, SpoolMoves DEF IInv, TrueInv
<1>9. Contiguous'
  BY <1>1, <1>4, ContiguousFrame DEF TrueInv, Becomes
<1> QED BY <1>1, <1>8, <1>9, SpoolerOnly DEF SameWins, Row

LEMMA TrueSkipFlush ==
  ASSUME IInv, TrueInv, Untroubled, NEW g \in Goroutine, SkipFlush(g)
  PROVE  TrueInv'
<1>1. /\ UNCHANGED <<inbox, pending, types, told, release, batches, txs, events, tracker, reported>>
      /\ spool[g].pc = "flush" /\ GoesTo(g, "handled")
  BY GotoEffect DEF SkipFlush, Stage, IInv, tables, sending, tracking
<1>2. Busy(g) /\ ~Noting(g) /\ ~Filling(g)
  BY <1>1 DEF Noting, Busy, Filling
<1>3. Ready' = Ready /\ ~Noting(g)' /\ ~Filling(g)' /\ spool'[g].pc # "flush" /\ spool'[g].msg = spool[g].msg
  BY <1>1 DEF Ready, Noting, Filling, GoesTo
<1>4. Table'
  BY <1>1, <1>2, <1>3, SpoolMoves DEF IInv, TrueInv
<1>5. Contiguous'
  BY <1>1, ContiguousFrame DEF TrueInv, GoesTo, Becomes
<1> QED BY <1>1, <1>4, <1>5, SpoolerOnly DEF SameWins, Row

LEMMA TrueAck ==
  ASSUME IInv, TrueInv, Untroubled, NEW g \in Goroutine, Ack(g)
  PROVE  TrueInv'
<1>1. /\ UNCHANGED <<pending, types, told, release, batches, txs, events, tracker, reported>>
      /\ spool[g].pc = "handled" /\ spool' = [spool EXCEPT ![g] = Idle]
      /\ inbox' = [inbox EXCEPT ![spool[g].msg] = "acked"]
  BY DEF Ack, tables, sending, tracking
<1>2. Becomes(g, Idle) /\ spool'[g] = Idle
  BY <1>1, IdleType, SpoolChange DEF IInv, Becomes
<1>3. ~Noting(g) /\ ~Filling(g) /\ ~Noting(g)' /\ ~Filling(g)' /\ ~Busy(g)' /\ spool'[g].pc # "flush" /\ spool'[g].rows = {}
  BY <1>1, <1>2 DEF Noting, Filling, Busy, Idle
<1>4. Ready' \subseteq Ready
  BY <1>1 DEF Ready, IInv, Shape
<1>5. Table'
  BY <1>1, <1>3, <1>4, SpoolMoves DEF IInv, TrueInv
<1>6. Contiguous'
  BY <1>1, <1>2, <1>3, ContiguousFrame DEF TrueInv, Becomes
<1> QED BY <1>1, <1>5, <1>6, SpoolerOnly DEF SameWins, Row

\* The win that is recorded is later than all that was sent, and earlier than what is to come.
LEMMA TrueInsert ==
  ASSUME IInv, TrueInv, Untroubled, NEW g \in Goroutine, InsertPendingWinners(g)
  PROVE  TrueInv'
<1>1. /\ UNCHANGED <<inbox, types, told, release, batches, txs, events, tracker, reported>>
      /\ spool[g].pc = "insert" /\ pending' = Append(pending, [win |-> Current(g), sent |-> FALSE])
  BY DEF InsertPendingWinners, sending, tracking
<1>2. Busy(g) /\ Filling(g) /\ ~Noting(g)
  BY <1>1 DEF Busy, Filling, Noting
<1>3. \A h \in Goroutine : h = g
  BY DEF Untroubled
<1>4. PICK m \in Message, a \in Nat :
        /\ m = spool[g].msg /\ a = spool[g].at
        /\ a \in DOMAIN WinsIn[m] /\ Current(g) = WinsIn[m][a] /\ 1 <= a
  BY <1>2, ItsList DEF IInv, Spooling, Current
<1>5. Current(g) \in Win
  <2>1. WinsIn[m] \in Seq(Win)
    BY PayoutsAssumption
  <2> QED BY <1>4, <2>1, ElementOfSeq, LenProperties
<1>6. PICK n \in Nat :
        /\ n \notin Row /\ Row' = Row \cup {n}
        /\ pending'[n].win = Current(g) /\ ~pending'[n].sent
        /\ \A r \in Row : pending'[r] = pending[r]
  BY <1>1, <1>5, Inserting DEF IInv
<1>7. /\ Unsent' = Unsent \cup {n} /\ Row' \ Unsent' = Row \ Unsent
      /\ \A r \in Row : WinOf(r)' = WinOf(r) /\ BlockAt(r)' = BlockAt(r)
      /\ WinOf(n)' = Current(g) /\ BlockAt(n)' = BlockOf[WinsIn[m][a]]
  BY <1>4, <1>6 DEF Unsent, WinOf, BlockAt
<1>a. /\ Becomes(g, spool'[g]) /\ spool'[g].msg = m /\ spool'[g].rows = spool[g].rows
      /\ \/ spool'[g].pc = "type" /\ spool'[g].at = a
         \/ spool'[g].pc = "insert" /\ spool'[g].at = a + 1
  BY <1>4, InsertEffect DEF IInv, Recording
<1>8. spool'[g].msg = m /\ Ready' = Ready /\ Busy(g)' /\ Filling(g)'
  BY <1>1, <1>a DEF Ready, Busy, Filling
<1>b. SoFar(g) \subseteq SoFar(g)' /\ Current(g) \in SoFar(g)
  <2>1. 1..spool[g].at \subseteq 1..spool'[g].at /\ a \in 1..a
    BY <1>4, <1>a
  <2> QED BY <1>4, <1>a, <2>1 DEF SoFar
<1>9. Table
  BY DEF TrueInv
<1>10. \A r \in Row \ Unsent : BlockAt(r) < BlockOf[WinsIn[m][a]]
  BY <1>2, <1>4, <1>9 DEF Table, RowsInOrder, Earlier
<1>11. RowsInOrder'
  <2>1. ASSUME NEW k \in Ready PROVE Earlier(Row, k)'
    <3>1. k \in Message /\ m < k
      BY <1>2, <1>4, <1>9, <2>1 DEF Table, RowsInOrder, Ready
    <3>2. \A i \in DOMAIN WinsIn[k] : BlockOf[WinsIn[m][a]] < BlockOf[WinsIn[k][i]]
      BY <1>4, <3>1 DEF Untroubled, InBlockOrder
    <3>3. Earlier(Row, k)
      BY <1>9, <2>1 DEF Table, RowsInOrder
    <3> QED BY <1>6, <1>7, <3>2, <3>3 DEF Earlier
  <2>2. Earlier(Row \ Unsent, spool[g].msg)'
    <3>1. Earlier(Row \ Unsent, m)
      BY <1>2, <1>4, <1>9 DEF Table, RowsInOrder
    <3> QED BY <1>7, <1>8, <3>1 DEF Earlier
  <2>3. \A r \in Row' \ Unsent', q \in Unsent' : BlockAt(r)' < BlockAt(q)'
    <3> SUFFICES ASSUME NEW r \in Row \ Unsent, NEW q \in Unsent \cup {n} PROVE BlockAt(r)' < BlockAt(q)'
      BY <1>7
    <3>1. CASE q = n
      BY <1>7, <1>10, <3>1
    <3>2. CASE q # n
      <4>1. q \in Unsent /\ q \in Row
        BY <3>2 DEF Unsent
      <4> QED BY <1>7, <1>9, <4>1 DEF Table, RowsInOrder
    <3> QED BY <3>1, <3>2
  <2>4. \A k \in Ready' : spool'[g].msg < k
    BY <1>2, <1>4, <1>8, <1>9 DEF Table, RowsInOrder
  <2> QED BY <1>3, <1>8, <2>1, <2>2, <2>3, <2>4 DEF RowsInOrder
<1>12. Left'
  BY <1>7 DEF Left
<1>13. HaveRows'
  <2>1. \A w : RowsHolding(w) \subseteq RowsHolding(w)'
    BY <1>6, <1>7 DEF RowsHolding
  <2>2. RowsHolding(WinsIn[m][a])' # {}
    <3>1. PICK v : v = WinsIn[m][a]
      OBVIOUS
    <3>2. n \in {r \in Row' : WinOf(r)' = v}
      BY <1>4, <1>6, <1>7, <3>1
    <3>3. RowsHolding(v)' = {r \in Row' : WinOf(r)' = v}
      BY DEF RowsHolding
    <3> QED BY <3>1, <3>2, <3>3
  <2>3. \A w \in Win : types'[w] > 0 => RowsHolding(w) # {}
    BY <1>1, <1>9 DEF Table, HaveRows
  <2>4. Written(g)
    BY <1>2, <1>9 DEF Table, HaveRows
  <2>5. \A i \in 1..a : i < a \/ i = a
    BY <1>4
  <2>6. \A i \in 1..a : RowsHolding(WinsIn[m][i])' # {}
    BY <1>4, <2>1, <2>2, <2>4, <2>5 DEF Written
  <2>7. ASSUME NEW i \in 1..spool'[g].at, i < spool'[g].at \/ spool'[g].pc # "insert"  PROVE i \in 1..a
    BY <1>4, <1>a, <2>7
  <2>8. Written(g)'
    BY <1>8, <2>6, <2>7 DEF Written
  <2> QED BY <1>3, <2>1, <2>3, <2>8 DEF HaveRows
<1>14. Heard'
  <2>1. /\ \A r \in Row : WinOf(r) \in told \/ WinOf(r) \in SoFar(g)
        /\ \A r \in Row \ Unsent : WinOf(r) \in told
    BY <1>3, <1>9 DEF Table, Heard
  <2>2. \A r \in Row' : WinOf(r)' \in told' \/ (Filling(g)' /\ WinOf(r)' \in SoFar(g)')
    BY <1>1, <1>6, <1>7, <1>8, <1>b, <2>1
  <2>3. \A r \in Row' \ Unsent' : WinOf(r)' \in told'
    BY <1>1, <1>7, <2>1
  <2> QED BY <2>2, <2>3 DEF Heard
<1>15. Contiguous'
  <2>1. ASSUME NEW R, Convex(R), Sent(R) PROVE \A q, s \in R, r \in Row' :
          BlockAt(q)' <= BlockAt(r)' /\ BlockAt(r)' <= BlockAt(s)' => r \in R
    <3> SUFFICES ASSUME NEW q \in R, NEW s \in R, NEW r \in Row',
                        BlockAt(q)' <= BlockAt(r)' /\ BlockAt(r)' <= BlockAt(s)'
                 PROVE  r \in R
      OBVIOUS
    <3>1. q \in Row /\ s \in Row /\ s \in Row \ Unsent
      BY <2>1 DEF Sent, Unsent
    <3>2. r # n
      <4>1. SUFFICES ASSUME r = n PROVE FALSE
        OBVIOUS
      <4>2. BlockAt(s) < BlockOf[WinsIn[m][a]] /\ BlockOf[WinsIn[m][a]] <= BlockAt(s)
        BY <1>7, <1>10, <3>1, <4>1
      <4>3. BlockOf[WinsIn[m][a]] \in Nat
        BY <1>4, <1>5, PayoutsAssumption
      <4>4. BlockAt(s) \in Nat
        BY <3>1, RowsAreNumbers, PayoutsAssumption DEF IInv, BlockAt, WinOf, PendingRow
      <4> QED BY <4>2, <4>3, <4>4
    <3>3. r \in Row
      BY <1>6, <3>2
    <3> QED BY <1>7, <2>1, <3>1, <3>3 DEF Convex
  <2>2. Placed
    BY DEF IInv
  <2>3. \A h \in Goroutine : spool'[h].rows = spool[h].rows
    BY <1>a DEF Becomes
  <2>4. \A h \in Goroutine : Convex(spool[h].rows)'
    BY <2>1, <2>2, <2>3 DEF TrueInv, Contiguous, Convex, Placed, Marked
  <2>5. \A k \in DOMAIN batches : Convex(batches[k].rows)'
    BY <1>1, <2>1, <2>2 DEF TrueInv, Contiguous, Convex, Placed, Marked
  <2> QED BY <1>1, <2>4, <2>5 DEF Contiguous
<1>16. Table'
  BY <1>11, <1>12, <1>13, <1>14 DEF Table
<1> QED BY <1>1, <1>6, <1>15, <1>16, SpoolerOnly

\* A flush takes all that is later than what was sent, and everyone has been told of it.
LEMMA TrueFlush ==
  ASSUME IInv, TrueInv, Untroubled, NEW g \in Goroutine, Flush(g)
  PROVE  TrueInv'
<1>1. /\ UNCHANGED <<inbox, types, told, release, batches, txs, events, tracker, reported>>
      /\ spool[g].pc = "flush" /\ MarkSent(Unsent)
      /\ spool' = [spool EXCEPT ![g].pc = "publish", ![g].rows = Unsent]
  BY DEF Flush, sending, tracking
<1>2. Unsent \in SUBSET Nat /\ Shape
  BY UnsentAreNumbers DEF IInv
<1>3. /\ Becomes(g, spool'[g]) /\ spool'[g].pc = "publish" /\ spool'[g].rows = Unsent
      /\ spool'[g].msg = spool[g].msg
  BY <1>1, <1>2, RowsChange DEF Stage
<1>4. /\ Row' = Row
      /\ \A r \in Row : pending'[r].win = pending[r].win
                        /\ (pending'[r].sent <=> pending[r].sent \/ r \in Unsent)
  BY <1>1, <1>2, Marking
<1>5. Unsent' = {} /\ \A r \in Row : WinOf(r)' = WinOf(r) /\ BlockAt(r)' = BlockAt(r)
  BY <1>4 DEF Unsent, WinOf, BlockAt
<1>6. \A h \in Goroutine : h = g
  BY DEF Untroubled
<1>7. Busy(g) /\ ~Filling(g) /\ ~Noting(g) /\ ~Noting(g)' /\ ~Filling(g)' /\ Ready' = Ready
  BY <1>1, <1>3 DEF Busy, Noting, Filling, Ready
<1>8. Table
  BY DEF TrueInv
<1>9. RowsInOrder'
  <2>1. ASSUME NEW k \in Ready PROVE Earlier(Row, k)'
    <3>1. Earlier(Row, k)
      BY <1>8, <2>1 DEF Table, RowsInOrder
    <3> QED BY <1>4, <1>5, <3>1 DEF Earlier
  <2>2. \A k \in Ready' : spool'[g].msg < k
    BY <1>3, <1>7, <1>8 DEF Table, RowsInOrder
  <2> QED BY <1>5, <1>6, <1>7, <2>1, <2>2 DEF RowsInOrder
<1>10. Left'
  BY <1>3, <1>6, <1>7 DEF Left
<1>11. HaveRows'
  <2>1. \A w : RowsHolding(w)' = RowsHolding(w)
    BY <1>4, <1>5 DEF RowsHolding
  <2> QED BY <1>1, <1>6, <1>7, <1>8, <2>1 DEF Table, HaveRows
<1>12. Heard'
  <2>1. \A r \in Row : WinOf(r) \in told
    BY <1>6, <1>7, <1>8 DEF Table, Heard
  <2> QED BY <1>1, <1>4, <1>5, <2>1 DEF Heard
<1>13. Contiguous'
  <2>1. ASSUME NEW R, Convex(R), R \subseteq Row PROVE \A q, s \in R, r \in Row' :
          BlockAt(q)' <= BlockAt(r)' /\ BlockAt(r)' <= BlockAt(s)' => r \in R
    BY <1>4, <1>5, <2>1 DEF Convex
  <2>2. Convex(Unsent)
    <3> SUFFICES ASSUME NEW q \in Unsent, NEW s \in Unsent, NEW r \in Row, BlockAt(q) <= BlockAt(r)
                 PROVE  r \in Unsent
      BY DEF Convex
    <3>1. SUFFICES ASSUME r \notin Unsent PROVE FALSE
      OBVIOUS
    <3>2. BlockAt(r) < BlockAt(q)
      BY <1>8, <3>1 DEF Table, RowsInOrder
    <3>3. q \in Row
      BY DEF Unsent
    <3>4. \A p \in Row : BlockAt(p) \in Nat
      BY <1>2, RowsAreNumbers, PayoutsAssumption DEF BlockAt, WinOf, PendingRow
    <3>5. BlockAt(q) \in Nat /\ BlockAt(r) \in Nat
      BY <3>3, <3>4
    <3> QED BY <3>2, <3>5
  <2>3. Unsent \subseteq Row
    BY DEF Unsent
  <2>4. Convex(spool[g].rows)'
    BY <1>3, <2>1, <2>2, <2>3 DEF Convex
  <2>5. ASSUME NEW k \in DOMAIN batches PROVE Convex(batches[k].rows)'
    <3>1. Convex(batches[k].rows) /\ batches[k].rows \subseteq Row
      BY DEF TrueInv, Contiguous, IInv, Placed, Marked, Sent
    <3>2. batches'[k].rows = batches[k].rows
      BY <1>1
    <3> QED BY <2>1, <3>1, <3>2 DEF Convex
  <2> QED BY <1>1, <1>6, <2>4, <2>5 DEF Contiguous
<1>14. Table'
  BY <1>9, <1>10, <1>11, <1>12 DEF Table
<1> QED BY <1>1, <1>4, <1>13, <1>14, SpoolerOnly

LEMMA TruePublish ==
  ASSUME IInv, TrueInv, Untroubled, NEW g \in Goroutine, PublishBatch(g)
  PROVE  TrueInv'
<1>1. /\ UNCHANGED <<inbox, pending, types, told, release, txs, events, tracker, reported>>
      /\ spool[g].pc = "publish" /\ Enqueue(spool[g].rows)
      /\ spool' = [spool EXCEPT ![g].pc = "handled", ![g].rows = {}]
  BY DEF PublishBatch, tables, tracking
<1>2. Shape /\ spool[g].rows \in SUBSET Nat
  BY DEF IInv, Shape, Spooled
<1>3. /\ Becomes(g, spool'[g]) /\ spool'[g].pc = "handled" /\ spool'[g].rows = {}
      /\ spool'[g].msg = spool[g].msg
  BY <1>1, <1>2, RowsLeave
<1>4. PICK n \in Nat :
        /\ n \notin DOMAIN batches /\ DOMAIN batches' = DOMAIN batches \cup {n}
        /\ batches'[n].rows = spool[g].rows
        /\ \A k \in DOMAIN batches : batches'[k] = batches[k]
  BY <1>1, <1>2, Enqueuing
<1>5. Busy(g) /\ ~Filling(g) /\ ~Noting(g) /\ ~Noting(g)' /\ ~Filling(g)' /\ spool'[g].pc # "flush" /\ Ready' = Ready
  BY <1>1, <1>3 DEF Busy, Noting, Filling, Ready
<1>6. Table'
  BY <1>1, <1>2, <1>3, <1>5, SpoolMoves DEF TrueInv
<1>7. \A h \in Goroutine : h = g
  BY DEF Untroubled
<1>8. ASSUME NEW R, Convex(R) PROVE \A q, s \in R, r \in Row' :
        BlockAt(q)' <= BlockAt(r)' /\ BlockAt(r)' <= BlockAt(s)' => r \in R
  BY <1>1, <1>8 DEF Convex, BlockAt, WinOf, Row
<1>9. Contiguous'
  <2>1. Convex(spool[g].rows)'
    BY <1>3 DEF Convex
  <2>2. ASSUME NEW k \in DOMAIN batches' PROVE Convex(batches[k].rows)'
    <3>1. PICK R : Convex(R) /\ batches'[k].rows = R
      BY <1>4 DEF TrueInv, Contiguous
    <3> QED BY <1>8, <3>1 DEF Convex
  <2> QED BY <1>7, <2>1, <2>2 DEF Contiguous
<1>10. Logged'
  BY <1>1 DEF TrueInv, Logged
<1>11. \A t \in DOMAIN txs : RowsOf(t)' = RowsOf(t)
  BY <1>1, <1>4 DEF RowsOf, IInv, InHand
<1>12. \A w : IsPaid(w) => IsPaid(w)'
  BY <1>1, <1>11, PaidStays DEF Row
<1>13. PaidOnly'
  BY <1>1, <1>12, PaidOnlyFrame DEF TrueInv
<1> QED BY <1>1, <1>6, <1>9, <1>10, <1>13 DEF TrueInv

LEMMA TrueSpooler ==
  ASSUME IInv, TrueInv, Untroubled, NEW g \in Goroutine, Spooler(g)
  PROVE  TrueInv'
<1>1. ~FlushFindsNothing(g)
  BY DEF FlushFindsNothing, TrueInv, Table, Left
<1> QED BY <1>1, TrueReceive, TrueInsert, TrueInsertType, TrueWeigh, TrueTell, TrueFlush, TrueSkipFlush, TruePublish,
           TrueAck DEF Spooler

\* The sender, the chain and track-winners: the table stays, and what is paid stays paid.
LEMMA TrueFrame ==
  ASSUME IInv, TrueInv, UNCHANGED <<inbox, spool, pending, told, release>>,
         types' \in [Win -> Nat], \A w \in Win : types'[w] <= types[w],
         DOMAIN batches' = DOMAIN batches,
         \A k \in DOMAIN batches : batches'[k].rows = batches[k].rows,
         DOMAIN txs \subseteq DOMAIN txs',
         \A t \in DOMAIN txs : /\ txs'[t].batch = txs[t].batch
                               /\ txs[t].state = "mined" =>
                                    txs'[t].state = "mined" /\ txs'[t].blocked = txs[t].blocked,
         events \subseteq events'
  PROVE  /\ Table' /\ Contiguous' /\ release' = {}
         /\ \A w : IsPaid(w) => IsPaid(w)'
         /\ UNCHANGED <<tracker, reported>> => PaidOnly'
<1>1. Table'
  BY TableFrame DEF IInv, TrueInv
<1>2. ASSUME NEW R, Convex(R) PROVE \A q, s \in R, r \in Row' :
        BlockAt(q)' <= BlockAt(r)' /\ BlockAt(r)' <= BlockAt(s)' => r \in R
  BY <1>2 DEF Convex, BlockAt, WinOf, Row
<1>3. Contiguous'
  <2>1. \A g \in Goroutine : Convex(spool[g].rows)'
    BY <1>2 DEF TrueInv, Contiguous, Convex
  <2>2. \A k \in DOMAIN batches' : Convex(batches[k].rows)'
    BY <1>2 DEF TrueInv, Contiguous, Convex
  <2> QED BY <2>1, <2>2 DEF Contiguous
<1>4. \A t \in DOMAIN txs : RowsOf(t)' = RowsOf(t)
  BY DEF RowsOf, IInv, InHand
<1>5. \A w : IsPaid(w) => IsPaid(w)'
  BY <1>4, PaidStays DEF Row
<1>6. UNCHANGED <<tracker, reported>> => PaidOnly'
  BY <1>5, PaidOnlyFrame DEF TrueInv
<1> QED BY <1>1, <1>3, <1>5, <1>6 DEF TrueInv

\* The sender changes no batch, and a payment it submits is not mined yet.
LEMMA TrueSender ==
  ASSUME IInv, TrueInv, Sender \/ SenderCrash
  PROVE  TrueInv'
<1>1. /\ UNCHANGED <<inbox, spool, pending, types, told, release, events, tracker, reported>>
      /\ types' \in [Win -> Nat] /\ \A w \in Win : types'[w] <= types[w]
  <2>1. UNCHANGED <<inbox, spool, pending, types, told, release, events, tracker, reported>>
    BY DEF Sender, Hand, Call, Receipt, AckBatch, SenderCrash, spooler, tables, tracking
  <2>2. types \in [Win -> Nat]
    BY DEF IInv, Shape
  <2> QED BY <2>1, <2>2
<1>2. /\ DOMAIN batches' = DOMAIN batches
      /\ \A k \in DOMAIN batches : batches'[k].rows = batches[k].rows
  <2>1. CASE Hand
    BY <2>1, HandEffect DEF IInv
  <2>2. CASE Call \/ Receipt
    BY <2>2 DEF Call, Receipt
  <2>3. CASE \E k \in DOMAIN batches : AckBatch(k)
    <3>1. PICK k \in DOMAIN batches : SetBatch(k, "acked")
      BY <2>3 DEF AckBatch
    <3> QED BY <3>1, Setting DEF IInv
  <2>4. CASE SenderCrash
    BY <2>4, Redelivering DEF IInv, SenderCrash
  <2> QED BY <2>1, <2>2, <2>3, <2>4 DEF Sender
<1>3. DOMAIN txs \subseteq DOMAIN txs' /\ \A t \in DOMAIN txs : txs'[t] = txs[t]
  <2>1. CASE Call
    BY <2>1, CallEffect DEF IInv
  <2>2. CASE txs' = txs
    BY <2>2
  <2> QED BY <2>1, <2>2 DEF Sender, Hand, Receipt, AckBatch, SenderCrash
<1>4. Table' /\ Contiguous' /\ release' = {} /\ PaidOnly'
  BY <1>1, <1>2, <1>3, TrueFrame
<1>5. Logged'
  BY <1>1, <1>3 DEF TrueInv, Logged
<1> QED BY <1>4, <1>5 DEF TrueInv

\* A payment is mined with the logs of who was paid and who was blocked, or reverts without.
LEMMA MineEffect ==
  ASSUME Shape, NEW t \in DOMAIN txs, Mine(t) \/ Revert(t)
  PROVE  /\ txs[t].state = "pending" /\ DOMAIN txs' = DOMAIN txs
         /\ \A u \in DOMAIN txs : txs'[u].batch = txs[u].batch
         /\ \A u \in DOMAIN txs : u # t => txs'[u] = txs[u]
         /\ events \subseteq events'
         /\ \A e \in events' \ events : /\ e.tx = t /\ txs'[t].state = "mined"
                                        /\ e.kind = "reward" => e.winner \notin txs'[t].blocked
<1>1. txs \in Seq(Payment) /\ txs[t] \in Payment
  BY LenProperties, ElementOfSeq DEF Shape
<1>2. CASE Revert(t)
  <2>1. txs' = [txs EXCEPT ![t].state = "reverted"] /\ events' = events /\ txs[t].state = "pending"
    BY <1>2 DEF Revert
  <2> QED BY <1>1, <2>1 DEF Payment
<1>3. CASE Mine(t)
  <2>1. PICK blocked \in SUBSET (Quarantined \cap WinnersOf(t)) :
          /\ txs' = [txs EXCEPT ![t].state = "mined", ![t].blocked = blocked]
          /\ events' = events \cup
               {[tx |-> t, winner |-> a, kind |-> IF a \in blocked THEN "blocked" ELSE "reward"] :
                  a \in WinnersOf(t)}
          /\ txs[t].state = "pending"
    BY <1>3 DEF Mine
  <2>2. /\ DOMAIN txs' = DOMAIN txs /\ txs'[t].state = "mined" /\ txs'[t].blocked = blocked
        /\ \A u \in DOMAIN txs : txs'[u].batch = txs[u].batch
        /\ \A u \in DOMAIN txs : u # t => txs'[u] = txs[u]
    BY <1>1, <2>1 DEF Payment
  <2>3. ASSUME NEW e \in events' \ events
        PROVE  e.tx = t /\ (e.kind = "reward" => e.winner \notin txs'[t].blocked)
    <3>1. PICK a \in WinnersOf(t) :
            e = [tx |-> t, winner |-> a, kind |-> IF a \in blocked THEN "blocked" ELSE "reward"]
      BY <2>1
    <3>2. e.tx = t /\ e.winner = a /\ e.kind = IF a \in blocked THEN "blocked" ELSE "reward"
      BY <3>1
    <3> QED BY <2>2, <3>2
  <2> QED BY <2>1, <2>2, <2>3
<1> QED BY <1>2, <1>3

LEMMA TrueChain ==
  ASSUME IInv, TrueInv, NEW t \in DOMAIN txs, Mine(t) \/ Revert(t)
  PROVE  TrueInv'
<1>1. /\ UNCHANGED <<inbox, spool, pending, types, told, release, batches, tracker, reported>>
      /\ types' \in [Win -> Nat] /\ \A w \in Win : types'[w] <= types[w]
  <2>1. UNCHANGED <<inbox, spool, pending, types, told, release, batches, tracker, reported>>
    BY DEF Mine, Revert, spooler, tables, sending, tracking
  <2>2. types \in [Win -> Nat]
    BY DEF IInv, Shape
  <2> QED BY <2>1, <2>2
<1>2. /\ txs[t].state = "pending" /\ DOMAIN txs' = DOMAIN txs
      /\ \A u \in DOMAIN txs : txs'[u].batch = txs[u].batch
      /\ \A u \in DOMAIN txs : u # t => txs'[u] = txs[u]
      /\ events \subseteq events'
      /\ \A e \in events' \ events : /\ e.tx = t /\ txs'[t].state = "mined"
                                     /\ e.kind = "reward" => e.winner \notin txs'[t].blocked
  BY MineEffect DEF IInv
<1>3. \A u \in DOMAIN txs : txs[u].state = "mined" => txs'[u] = txs[u]
  BY <1>2
<1>4. Table' /\ Contiguous' /\ release' = {} /\ PaidOnly'
  BY <1>1, <1>2, <1>3, TrueFrame
<1>5. Logged'
  BY <1>2, <1>3 DEF TrueInv, Logged
<1> QED BY <1>4, <1>5 DEF TrueInv

\* The log of an unblocked reward is of the payment in which it was blocked.
LEMMA TrueUnblock ==
  ASSUME IInv, TrueInv, NEW e \in events, Unblock(e)
  PROVE  TrueInv'
<1> DEFINE u == [e EXCEPT !.kind = "unblocked"]
<1>1. /\ UNCHANGED <<inbox, spool, pending, types, told, release, batches, txs, tracker, reported>>
      /\ events' = events \cup {u}
      /\ types' \in [Win -> Nat] /\ \A w \in Win : types'[w] <= types[w]
  <2>1. UNCHANGED <<inbox, spool, pending, types, told, release, batches, txs, tracker, reported>>
    BY DEF Unblock, spooler, tables, sending, tracking
  <2>2. types \in [Win -> Nat]
    BY DEF IInv, Shape
  <2> QED BY <2>1, <2>2 DEF Unblock
<1>2. u.tx = e.tx /\ u.kind = "unblocked"
  BY DEF IInv, Shape, Event
<1> HIDE DEF u
<1>3. Table' /\ Contiguous' /\ release' = {} /\ PaidOnly'
  BY <1>1, TrueFrame
<1>4. Logged'
  BY <1>1, <1>2 DEF TrueInv, Logged
<1> QED BY <1>3, <1>4 DEF TrueInv

\* Whoever a log finds by winner and block range was paid by its payment: the rows of the payment
\* are all that lie in the range.
LEMMA FoundIsPaid ==
  ASSUME IInv, TrueInv, NEW e \in events, e.kind \in {"reward", "unblocked"},
         NEW w \in Win, PaidBy(e, w), types[w] > 0
  PROVE  IsPaid(w)
<1>1. PICK r \in RowsHolding(w) : TRUE
  BY DEF TrueInv, Table, HaveRows
<1>2. r \in Row /\ WinOf(r) = w /\ BlockAt(r) = BlockOf[w]
  BY <1>1 DEF RowsHolding, BlockAt
<1>3. PICK t \in DOMAIN txs : /\ t = e.tx /\ txs[t].state = "mined"
                              /\ e.kind = "reward" => e.winner \notin txs[t].blocked
  BY DEF TrueInv, Logged
<1>4. WinnerOf[w] = e.winner /\ \E lo, hi \in Blocks(t) : lo <= BlockOf[w] /\ BlockOf[w] <= hi
  BY <1>3 DEF PaidBy
<1>5. PICK q \in RowsOf(t), s \in RowsOf(t) : BlockAt(q) <= BlockAt(r) /\ BlockAt(r) <= BlockAt(s)
  BY <1>2, <1>4 DEF Blocks, WinsOf, BlockAt
<1>6. Convex(RowsOf(t))
  BY DEF TrueInv, Contiguous, IInv, InHand, RowsOf
<1>7. r \in RowsOf(t)
  BY <1>2, <1>5, <1>6 DEF Convex
<1>8. t \in Submissions(r)
  BY <1>7 DEF Submissions
<1>9. WinnerOf[w] \in txs[t].blocked => [tx |-> t, winner |-> WinnerOf[w], kind |-> "unblocked"] \in events
  <2>1. SUFFICES ASSUME WinnerOf[w] \in txs[t].blocked
                 PROVE  [tx |-> t, winner |-> WinnerOf[w], kind |-> "unblocked"] \in events
    OBVIOUS
  <2>2. e.kind = "unblocked"
    BY <1>3, <1>4, <2>1
  <2>3. e \in Event
    BY DEF IInv, Shape
  <2>4. e = [tx |-> t, winner |-> WinnerOf[w], kind |-> "unblocked"]
    BY <1>3, <1>4, <2>2, <2>3 DEF Event
  <2> QED BY <2>4
<1>10. t \in Payments(r)
  BY <1>2, <1>3, <1>8, <1>9 DEF Payments
<1> QED BY <1>1, <1>10 DEF IsPaid

LEMMA TrueTracker ==
  ASSUME IInv, TrueInv, Tracker \/ TrackerCrash
  PROVE  TrueInv'
<1>0. /\ types \in [Win -> Nat] /\ reported \in [Win -> Nat]
      /\ tracker \in [event : events \cup {NoEvent}, left : [Win -> Nat]]
  BY DEF IInv, Shape
<1>1. UNCHANGED <<inbox, spool, pending, told, release, batches, txs, events>>
  BY DEF Tracker, TrackBlocked, TrackReward, AckEvent, PublishWinner, TrackerCrash, spooler, tables, sending,
         tracking
<1>2. types' \in [Win -> Nat] /\ \A w \in Win : types'[w] <= types[w]
  <2>1. CASE TrackReward
    <3>1. PICK e : types' = Remove(e)
      BY <2>1 DEF TrackReward
    <3>2. \A w \in Win : (IF PaidBy(e, w) THEN 0 ELSE types[w]) \in Nat
      BY <1>0
    <3> QED BY <1>0, <3>1, <3>2 DEF Remove
  <2>2. CASE types' = types
    BY <1>0, <2>2
  <2> QED BY <2>1, <2>2 DEF Tracker, TrackBlocked, AckEvent, PublishWinner, TrackerCrash, tables
<1>3. /\ Table' /\ Contiguous' /\ release' = {}
      /\ \A w : IsPaid(w) => IsPaid(w)'
      /\ UNCHANGED <<tracker, reported>> => PaidOnly'
  BY <1>1, <1>2, TrueFrame
<1>4. Logged'
  BY <1>1 DEF TrueInv, Logged
<1>5. \A w \in Win : tracker.left[w] > 0 \/ reported[w] > 0 => IsPaid(w)'
  BY <1>3 DEF TrueInv, PaidOnly
<1>6. ASSUME tracker' = Resting, reported' = reported PROVE PaidOnly'
  <2>1. \A w \in Win : Resting.left[w] = 0
    BY DEF Resting, NoWins
  <2> QED BY <1>5, <1>6, <2>1 DEF PaidOnly
<1>7. PaidOnly'
  <2>1. CASE TrackBlocked
    BY <1>3, <2>1 DEF TrackBlocked
  <2>2. CASE TrackReward
    <3>1. PICK e \in events \ done :
            /\ e.kind \in {"reward", "unblocked"} /\ reported' = reported
            /\ tracker' = [event |-> e,
                           left |-> [w \in Win |-> IF PaidBy(e, w) THEN types[w] ELSE 0]]
      BY <2>2 DEF TrackReward
    <3>2. ASSUME NEW w \in Win, tracker'.left[w] > 0 PROVE IsPaid(w)'
      <4>1. PaidBy(e, w) /\ types[w] > 0
        BY <3>1, <3>2
      <4>2. IsPaid(w)
        BY <3>1, <4>1, FoundIsPaid
      <4> QED BY <1>3, <4>2
    <3> QED BY <1>5, <3>1, <3>2 DEF PaidOnly
  <2>3. CASE AckEvent
    BY <1>6, <2>3 DEF AckEvent
  <2>4. CASE \E w \in Win : PublishWinner(w)
    <3>1. PICK w \in Win : /\ tracker.left[w] > 0
                           /\ reported' = [reported EXCEPT ![w] = @ + 1]
                           /\ tracker' = [tracker EXCEPT !.left[w] = @ - 1]
      BY <2>4 DEF PublishWinner
    <3>2. ASSUME NEW v \in Win, tracker'.left[v] > 0 \/ reported'[v] > 0 PROVE IsPaid(v)'
      <4>1. CASE v = w
        BY <1>5, <3>1, <4>1
      <4>2. CASE v # w
        BY <1>0, <1>5, <3>1, <3>2, <4>2
      <4> QED BY <4>1, <4>2
    <3> QED BY <3>2 DEF PaidOnly
  <2>5. CASE TrackerCrash
    BY <1>6, <2>5 DEF TrackerCrash
  <2> QED BY <2>1, <2>2, <2>3, <2>4, <2>5 DEF Tracker
<1> QED BY <1>3, <1>4, <1>7 DEF TrueInv

LEMMA InitTrue == Init => TrueInv
<1> SUFFICES ASSUME Init PROVE TrueInv
  OBVIOUS
<1>1. Row = {} /\ DOMAIN batches = {}
  <2>1. DOMAIN <<>> = {}
    BY EmptySeq
  <2> QED BY <2>1 DEF Init, Row
<1>2. \A g \in Goroutine : ~Busy(g) /\ ~Filling(g) /\ ~Noting(g) /\ spool[g].pc # "flush" /\ spool[g].rows = {}
  BY DEF Init, Idle, Busy, Filling, Noting
<1>3. RowsInOrder
  BY <1>1, <1>2 DEF RowsInOrder, Earlier, Unsent
<1>4. Left /\ Heard /\ HaveRows
  BY <1>1, <1>2 DEF Left, Heard, HaveRows, Init, NoWins
<1>5. Contiguous
  BY <1>1, <1>2 DEF Contiguous, Convex
<1>6. Logged /\ PaidOnly /\ release = {}
  BY DEF Logged, PaidOnly, Init, Resting, NoWins
<1> QED BY <1>3, <1>4, <1>5, <1>6 DEF TrueInv, Table

LEMMA StepTrue ==
  ASSUME IInv, TrueInv, Untroubled, [Next]_vars
  PROVE  TrueInv'
<1>1. CASE Next
  <2>1. ~Release /\ ~PublishRelease /\ ~ReleaseCrash /\ ~SpoolerCrash
    BY DEF Release, PublishRelease, ReleaseCrash, SpoolerCrash, Down, Untroubled, TrueInv
  <2>2. CASE \E g \in Goroutine : Spooler(g)
    BY <2>2, TrueSpooler
  <2>3. CASE Sender \/ SenderCrash
    BY <2>3, TrueSender
  <2>4. CASE Chain
    BY <2>4, TrueChain DEF Chain
  <2>5. CASE Tracker \/ TrackerCrash
    BY <2>5, TrueTracker
  <2>6. CASE \E e \in events : Unblock(e)
    BY <2>6, TrueUnblock
  <2> QED BY <1>1, <2>1, <2>2, <2>3, <2>4, <2>5, <2>6 DEF Next
<1>2. CASE UNCHANGED vars
  <2>1. /\ UNCHANGED <<inbox, spool, pending, types, told, release, batches, txs, events, tracker, reported>>
        /\ types' \in [Win -> Nat] /\ \A w \in Win : types'[w] <= types[w]
    BY <1>2 DEF vars, spooler, tables, sending, tracking, IInv, Shape
  <2>2. Table' /\ Contiguous' /\ release' = {} /\ PaidOnly'
    BY <2>1, TrueFrame
  <2>3. Logged'
    BY <2>1 DEF TrueInv, Logged
  <2> QED BY <2>2, <2>3 DEF TrueInv
<1> QED BY <1>1, <1>2

\* The rows of a payment were marked as sent, and by then everyone was told of their wins.
LEMMA TrueReports ==
  ASSUME IInv, TrueInv
  PROVE  FlushFindsRewards /\ ReportedIsPaid /\ ReportedWasTold
<1>1. FlushFindsRewards
  BY DEF TrueInv, Table, Left, FlushFindsRewards
<1>2. ReportedIsPaid
  BY DEF TrueInv, PaidOnly, ReportedIsPaid
<1>3. ReportedWasTold
  <2> SUFFICES ASSUME NEW w \in Win, reported[w] > 0 PROVE w \in told
    BY DEF ReportedWasTold
  <2>1. PICK r \in RowsHolding(w) : Payments(r) # {}
    BY <1>2 DEF ReportedIsPaid, IsPaid
  <2>2. PICK t \in DOMAIN txs : r \in RowsOf(t)
    BY <2>1 DEF Payments, Submissions
  <2>3. r \in Row \ Unsent
    BY <2>2 DEF IInv, InHand, Placed, Marked, Sent, RowsOf, Unsent
  <2> QED BY <2>1, <2>3 DEF TrueInv, Table, Heard, RowsHolding
<1> QED BY <1>1, <1>2, <1>3

\* With one goroutine that is not killed, no daily release and announcements
\* in the order of their blocks, a flush finds rows, and a winner message is
\* only published for a win that was paid and of which everyone was told,
\* whoever else goes down and whichever payments revert (main.go of the
\* spooler, processReward of track-winners).
THEOREM ReportsAlwaysTrue ==
  ASSUME Untroubled
  PROVE  MCSpec => []ReportsAreTrue
<1> DEFINE Inv == setting = "orderly" => IInv /\ TrueInv
<1>1. MCInit => Inv
  <2> SUFFICES ASSUME MCInit, setting = "orderly" PROVE IInv /\ TrueInv
    OBVIOUS
  <2>1. Init
    BY DEF MCInit
  <2> QED BY <2>1, InitIInv, InitTrue
<1>2. Inv /\ [MCNext]_mcvars => Inv'
  <2> SUFFICES ASSUME Inv, [MCNext]_mcvars, setting' = "orderly" PROVE IInv' /\ TrueInv'
    OBVIOUS
  <2>1. setting = "orderly" /\ [Next]_vars
    BY DEF MCNext, Orderly, Faulty, mcvars
  <2>2. IInv'
    BY <2>1, StepIInv
  <2> QED BY <2>1, <2>2, StepTrue
<1>3. Inv => ReportsAreTrue
  BY TrueReports DEF ReportsAreTrue
<1> QED BY <1>1, <1>2, <1>3, PTL DEF MCSpec
=============================================================================
