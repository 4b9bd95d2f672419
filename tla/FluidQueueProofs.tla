-------------------------- MODULE FluidQueueProofs --------------------------
(* Theorems about FluidQueue, for any workers, processes and messages.     *)
EXTENDS FluidQueue, FiniteSetTheorems, TLAPS

LEMMA HeadTailTypes ==
  ASSUME NEW S, NEW s \in Seq(S), s # <<>>
  PROVE  Head(s) \in S /\ Tail(s) \in Seq(S)
OBVIOUS

LEMMA AppendElements ==
  ASSUME NEW S, NEW s \in Seq(S), NEW e
  PROVE  \A i \in DOMAIN Append(s, e) :
           \/ i \in DOMAIN s /\ Append(s, e)[i] = s[i]
           \/ i = Len(s) + 1 /\ Append(s, e)[i] = e
OBVIOUS

LEMMA RetryKeyType ==
  ASSUME ConstantsAssumption, NEW w \in Worker, NEW m \in Message
  PROVE  RetryKey(w, m) \in Worker \X Body
BY DEF ConstantsAssumption, RetryKey

LEMMA Update ==
  ASSUME NEW S, NEW T, NEW f \in [S -> T], NEW k \in S, NEW v \in T
  PROVE  [f EXCEPT ![k] = v] \in [S -> T] /\ f[k] \in T
OBVIOUS

LEMMA OneMore ==
  ASSUME NEW S, NEW T, NEW f \in [S -> [T -> Int]], NEW k \in S, NEW l \in T
  PROVE  [f EXCEPT ![k][l] = @ + 1] \in [S -> [T -> Int]]
<1>1. f[k] \in [T -> Int] /\ f[k][l] + 1 \in Int
  OBVIOUS
<1>2. [f[k] EXCEPT ![l] = f[k][l] + 1] \in [T -> Int]
  BY <1>1
<1>3. [f EXCEPT ![k][l] = @ + 1] = [f EXCEPT ![k] = [f[k] EXCEPT ![l] = f[k][l] + 1]]
  OBVIOUS
<1>4. QED
  BY <1>2, <1>3

LEMMA UnackedType ==
  ASSUME TypeOK, NEW p \in Process
  PROVE  Unacked(p) \in SUBSET Message
<1>1. Contents(prefetched[p]) \subseteq Message
  BY DEF TypeOK, Contents
<1>2. {f.msg : f \in Contents(inflight[p])} \subseteq Message
  <2>1. Contents(inflight[p]) \subseteq Frame
    BY DEF TypeOK, Contents
  <2>2. QED
    BY <2>1 DEF Frame
<1>3. ASSUME NEW g \in Goroutine PROVE Holding(p, g) \subseteq Message
  BY DEF TypeOK, Holding, Idle, Busy
<1>4. QED
  BY <1>1, <1>2, <1>3 DEF Unacked

LEMMA HandlerUpdate ==
  ASSUME TypeOK, NEW p \in Process, NEW g \in Goroutine, NEW h \in {Idle} \cup Busy
  PROVE  [handler EXCEPT ![p][g] = h] \in [Process -> [Goroutine -> {Idle} \cup Busy]]
<1>1. handler[p] \in [Goroutine -> {Idle} \cup Busy]
  BY DEF TypeOK
<1>2. [handler[p] EXCEPT ![g] = h] \in [Goroutine -> {Idle} \cup Busy]
  BY <1>1
<1>3. QED
  BY <1>2 DEF TypeOK

LEMMA MoveToType ==
  ASSUME TypeOK, NEW p \in Process, NEW g \in Goroutine, handler[p][g] # Idle,
         NEW pc \in {"counted", "running", "handled", "giveUp", "acked", "nacked"}, MoveTo(p, g, pc)
  PROVE  /\ handler[p][g].msg \in Message
         /\ handler' \in [Process -> [Goroutine -> {Idle} \cup Busy]]
<1>1. handler[p][g] \in Busy
  BY DEF TypeOK
<1>2. [handler[p][g] EXCEPT !.pc = pc] \in Busy
  BY <1>1 DEF Busy
<1>3. handler' = [handler EXCEPT ![p][g] = [handler[p][g] EXCEPT !.pc = pc]]
  BY DEF MoveTo
<1>4. QED
  BY <1>1, <1>2, <1>3, HandlerUpdate DEF Busy

LEMMA VanishType ==
  ASSUME ConstantsAssumption, TypeOK, NEW p \in Process, NEW s \in {"down", "stopped"},
         Vanish(p, s), queue' \in [Worker -> SUBSET Message], crashes' \in 0..MaxCrashes
  PROVE  TypeOK'
<1>1. handler' \in [Process -> [Goroutine -> {Idle} \cup Busy]]
  BY DEF Vanish, TypeOK
<1>2. prefetched' \in [Process -> Seq(Message)] /\ inflight' \in [Process -> Seq(Frame)]
  BY DEF Vanish, TypeOK
<1>3. QED
  BY <1>1, <1>2 DEF Vanish, TypeOK, history, bounds

LEMMA RequeueType ==
  ASSUME ConstantsAssumption, TypeOK, NEW p \in Process, Requeue(p)
  PROVE  queue' \in [Worker -> SUBSET Message]
<1>1. WorkerOf[p] \in Worker
  BY DEF ConstantsAssumption
<1>2. queue[WorkerOf[p]] \cup Unacked(p) \in SUBSET Message
  BY <1>1, UnackedType DEF TypeOK
<1>3. QED
  BY <1>2 DEF Requeue, TypeOK

(***************************************************************************)
(* Type correctness.                                                       *)
(***************************************************************************)
LEMMA TypeNext == ConstantsAssumption /\ TypeOK /\ [Next]_vars => TypeOK'
<1> SUFFICES ASSUME ConstantsAssumption, TypeOK, [Next]_vars PROVE TypeOK'
  OBVIOUS
<1> USE DEF broker, history, bounds
<1>1. CASE Publish
  BY <1>1, SMTT(30) DEF Publish, Message, TypeOK
<1>2. ASSUME NEW p \in Process, Deliver(p) PROVE TypeOK'
  BY <1>2 DEF Deliver, ConstantsAssumption, TypeOK
<1>3. ASSUME NEW p \in Process, Settle(p) PROVE TypeOK'
  <2>1. Head(inflight[p]) \in Frame /\ Tail(inflight[p]) \in Seq(Frame)
    BY <1>3, HeadTailTypes DEF Settle, TypeOK
  <2>2. inflight' \in [Process -> Seq(Frame)]
    BY <1>3, <2>1 DEF Settle, TypeOK
  <2>3. WorkerOf[p] \in Worker /\ Head(inflight[p]).msg \in Message
    BY <2>1 DEF ConstantsAssumption, Frame
  <2>4. outcome' \in [Worker -> [Message -> {"unrouted", "pending", "acked", "dead"}]]
    BY <1>3, <2>3 DEF Settle, TypeOK
  <2>5. deadQueue' \in [Worker -> [Message -> Nat]]
    <3>1. \A v \in Worker, m \in Message : deadQueue[v][m] \in Nat /\ deadQueue[v][m] + 1 \in Nat
      BY DEF TypeOK
    <3>2. deadQueue' = [v \in Worker |-> [deadQueue[v] EXCEPT ![Head(inflight[p]).msg] =
                          IF Head(inflight[p]).kind # "ack" /\ v \in DeadQueuesFor(Head(inflight[p]).msg)
                          THEN @ + 1 ELSE @]]
      BY <1>3 DEF Settle
    <3>3. QED
      BY <2>3, <3>1, <3>2 DEF TypeOK
  <2>6. QED
    BY <1>3, <2>2, <2>4, <2>5 DEF Settle, TypeOK
<1>4. ASSUME NEW p \in Process, NEW g \in Goroutine, Receive(p, g) PROVE TypeOK'
  <2> DEFINE w == WorkerOf[p]  m == Head(prefetched[p])
             k == RetryKey(w, m)
             h == [pc |-> IF Exhausted(retries[k] + 1) THEN "giveUp" ELSE "counted", msg |-> m]
  <2>1. w \in Worker /\ m \in Message /\ Tail(prefetched[p]) \in Seq(Message)
    BY <1>4, HeadTailTypes DEF Receive, TypeOK, ConstantsAssumption
  <2>2. k \in Worker \X Body
    BY <2>1, RetryKeyType
  <2>3. prefetched' \in [Process -> Seq(Message)]
    BY <1>4, <2>1 DEF Receive, TypeOK
  <2>4. retries' \in [Worker \X Body -> Nat]
    <3>1. retries[k] + 1 \in Nat
      BY <2>2, Update DEF TypeOK
    <3>2. [retries EXCEPT ![k] = retries[k] + 1] \in [Worker \X Body -> Nat]
      BY <2>2, <3>1, Update DEF TypeOK
    <3>3. QED
      BY <1>4, <3>2 DEF Receive, TypeOK
  <2>5. handler' = [handler EXCEPT ![p][g] = h] /\ h \in {Idle} \cup Busy
    BY <1>4, <2>1 DEF Receive, Busy
  <2>6. handler' \in [Process -> [Goroutine -> {Idle} \cup Busy]]
    BY <2>5, HandlerUpdate
  <2>7. unstarted' \in [Worker -> [Message -> Int]]
    <3>1. unstarted' = unstarted \/ unstarted' = [unstarted EXCEPT ![w][m] = @ + 1]
      BY <1>4 DEF Receive
    <3> HIDE DEF w, m
    <3>2. unstarted \in [Worker -> [Message -> Int]]
      BY DEF TypeOK
    <3>3. [unstarted EXCEPT ![w][m] = @ + 1] \in [Worker -> [Message -> Int]]
      BY <2>1, <3>2, OneMore
    <3>4. QED
      BY <3>1, <3>2, <3>3, Zenon
  <2>8. QED
    BY <1>4, <2>3, <2>4, <2>6, <2>7 DEF Receive, TypeOK
<1>4b. ASSUME NEW p \in Process, NEW g \in Goroutine, Begin(p, g) PROVE TypeOK'
  <2>1. WorkerOf[p] \in Worker
    BY DEF ConstantsAssumption
  <2>2. /\ handler[p][g].msg \in Message
        /\ handler' \in [Process -> [Goroutine -> {Idle} \cup Busy]]
    BY <1>4b, MoveToType DEF Begin, Idle
  <2>3. /\ attempts' \in [Worker -> [Message -> Nat]]
        /\ unstarted' \in [Worker -> [Message -> Int]]
    BY <1>4b, <2>1, <2>2 DEF Begin, TypeOK
  <2>4. QED
    BY <1>4b, <2>2, <2>3 DEF Begin, TypeOK
<1>5. ASSUME NEW p \in Process, NEW g \in Goroutine, Handle(p, g) PROVE TypeOK'
  <2>1. WorkerOf[p] \in Worker
    BY DEF ConstantsAssumption
  <2>2. /\ handler[p][g].msg \in Message
        /\ handler' \in [Process -> [Goroutine -> {Idle} \cup Busy]]
    BY <1>5, MoveToType DEF Handle, Idle
  <2>3. QED
    BY <1>5, <2>1, <2>2 DEF Handle, TypeOK
<1>6. ASSUME NEW p \in Process, NEW g \in Goroutine, Ack(p, g) \/ Nack(p, g) PROVE TypeOK'
  <2>1. PICK from \in {"handled", "giveUp"}, kind \in {"ack", "nack"}, to \in {"acked", "nacked"} :
          Answer(p, g, from, kind, to)
    BY <1>6 DEF Ack, Nack
  <2>2. /\ handler[p][g].msg \in Message
        /\ handler' \in [Process -> [Goroutine -> {Idle} \cup Busy]]
    BY <2>1, MoveToType DEF Answer, Idle
  <2>3. [kind |-> kind, msg |-> handler[p][g].msg] \in Frame
    BY <2>2 DEF Frame
  <2>4. inflight' \in [Process -> Seq(Frame)]
    BY <2>1, <2>3 DEF Answer, Writes, TypeOK
  <2>5. QED
    BY <2>1, <2>2, <2>4 DEF Answer, TypeOK
<1>7. ASSUME NEW p \in Process, NEW g \in Goroutine, DelRetryKey(p, g) PROVE TypeOK'
  <2>1. handler[p][g] \in Busy /\ WorkerOf[p] \in Worker
    BY <1>7 DEF DelRetryKey, TypeOK, Idle, ConstantsAssumption
  <2>2. retries' \in [Worker \X Body -> Nat]
    <3>1. handler[p][g].msg \in Message
      BY <2>1 DEF Busy
    <3>2. [retries EXCEPT ![RetryKey(WorkerOf[p], handler[p][g].msg)] = 0]
            \in [Worker \X Body -> Nat]
      BY <2>1, <3>1, RetryKeyType, Update DEF TypeOK
    <3>3. QED
      BY <1>7, <3>2 DEF DelRetryKey, Del, TypeOK
  <2>3. handler' \in [Process -> [Goroutine -> {Idle} \cup Busy]]
    BY <1>7, HandlerUpdate DEF DelRetryKey
  <2>4. QED
    BY <1>7, <2>2, <2>3 DEF DelRetryKey, TypeOK
<1>8. ASSUME NEW p \in Process, NEW g \in Goroutine, Fatal(p, g) PROVE TypeOK'
  <2>1. queue' \in [Worker -> SUBSET Message]
    BY <1>8, RequeueType DEF Fatal
  <2>2. prefetched' \in [Process -> Seq(Message)]
    <3>1. prefetched[p] # <<>> => Head(prefetched[p]) \in Message
      BY HeadTailTypes DEF TypeOK
    <3>2. QED
      BY <1>8, <3>1 DEF Fatal, TypeOK
  <2>3. QED
    BY <1>8, <2>1, <2>2 DEF Fatal, TypeOK
<1>9. ASSUME NEW p \in Process, Exit(p) \/ MainReturns(p) PROVE TypeOK'
  BY <1>9, VanishType DEF Exit, MainReturns, TypeOK
<1>10. ASSUME NEW p \in Process, Crash(p) PROVE TypeOK'
  <2>1. queue' \in [Worker -> SUBSET Message]
    BY <1>10, RequeueType DEF Crash, TypeOK
  <2>2. crashes' \in 0..MaxCrashes
    BY <1>10 DEF Crash, TypeOK, ConstantsAssumption
  <2>3. QED
    BY <1>10, <2>1, <2>2, VanishType DEF Crash
<1>11. ASSUME NEW p \in Process, Start(p) PROVE TypeOK'
  BY <1>11 DEF Start, ConstantsAssumption, TypeOK
<1>12. ASSUME NEW w \in Worker, NEW b \in Body, ExpireRetryKey(w, b) PROVE TypeOK'
  BY <1>12 DEF ExpireRetryKey, ConstantsAssumption, TypeOK
<1>13. CASE UNCHANGED vars
  BY <1>13 DEF vars, TypeOK
<1>14. QED
  BY <1>1, <1>2, <1>3, <1>4, <1>4b, <1>5, <1>6, <1>7, <1>8, <1>9, <1>10, <1>11, <1>12, <1>13
     DEF Next, Goroutines

\* The state of the broker, of Redis and of every process keeps its type,
\* whatever the number of workers, processes, goroutines and messages.
THEOREM TypeCorrect == Spec => []TypeOK
<1>1. Init => TypeOK
  BY ConstantsAssumption DEF Init, TypeOK, ConstantsAssumption
<1>2. QED
  BY <1>1, TypeNext, ConstantsAssumption, PTL DEF Spec

(***************************************************************************)
(* Acknowledgements.  AckedWasHandled is not inductive: an acknowledgement *)
(* travels from the goroutine that has run the handler through the socket  *)
(* to the broker, and at each of these places the handler has returned.    *)
(***************************************************************************)
AckPath ==
  /\ \A p \in Process, g \in Goroutine :
       handler[p][g].pc = "handled" => handler[p][g].msg \in completed[WorkerOf[p]]
  /\ \A p \in Process : \A i \in DOMAIN inflight[p] :
       inflight[p][i].kind = "ack" => inflight[p][i].msg \in completed[WorkerOf[p]]
  /\ AckedWasHandled

\* A step in which nothing moves along the path and the history only grows.
LEMMA AckPathFrame ==
  ASSUME AckPath, TypeOK, ConstantsAssumption,
         \A w \in Worker : completed[w] \subseteq completed'[w],
         \A p \in Process, g \in Goroutine :
           handler'[p][g].pc = "handled" => handler'[p][g] = handler[p][g],
         \A p \in Process : inflight'[p] \in {inflight[p], <<>>},
         \A w \in Worker, m \in Message : outcome'[w][m] = "acked" => outcome[w][m] = "acked"
  PROVE  AckPath'
<1>1. \A p \in Process : WorkerOf[p] \in Worker
  BY DEF ConstantsAssumption
<1>2. QED
  BY <1>1 DEF AckPath, AckedWasHandled

LEMMA AckPathNext == ConstantsAssumption /\ TypeOK /\ AckPath /\ [Next]_vars => AckPath'
<1> SUFFICES ASSUME ConstantsAssumption, TypeOK, AckPath, [Next]_vars PROVE AckPath'
  OBVIOUS
<1> USE DEF broker, history, bounds
<1>0. \A p \in Process : WorkerOf[p] \in Worker
  BY DEF ConstantsAssumption
<1>1. CASE Publish
  BY <1>1, AckPathFrame DEF Publish, TypeOK
<1>2. ASSUME NEW p \in Process, Deliver(p) PROVE AckPath'
  BY <1>2, AckPathFrame DEF Deliver
<1>3. ASSUME NEW p \in Process, Settle(p) PROVE AckPath'
  <2> DEFINE f == Head(inflight[p])
  <2>1. inflight[p] \in Seq(Frame) /\ inflight[p] # <<>>
    BY <1>3 DEF Settle, TypeOK
  <2>2. f = inflight[p][1] /\ 1 \in DOMAIN inflight[p] /\ f \in Frame
    BY <2>1
  <2>3. f.kind = "ack" => f.msg \in completed[WorkerOf[p]]
    BY <2>2 DEF AckPath
  <2>4. \A q \in Process : \A i \in DOMAIN inflight'[q] :
          \E j \in DOMAIN inflight[q] : inflight'[q][i] = inflight[q][j]
    <3>1. \A i \in DOMAIN Tail(inflight[p]) :
            i + 1 \in DOMAIN inflight[p] /\ Tail(inflight[p])[i] = inflight[p][i + 1]
      BY <2>1
    <3>2. QED
      BY <1>3, <3>1 DEF Settle, TypeOK
  <2>5. UNCHANGED <<completed, handler>>
    BY <1>3 DEF Settle
  <2>6. \A w \in Worker, m \in Message : outcome'[w][m] = "acked" =>
          \/ outcome[w][m] = "acked"
          \/ w = WorkerOf[p] /\ m = f.msg /\ f.kind = "ack"
    BY <1>0, <1>3, <2>2 DEF Settle, TypeOK, Frame
  <2>7. QED
    BY <1>0, <2>3, <2>4, <2>5, <2>6 DEF AckPath, AckedWasHandled
<1>4. ASSUME NEW p \in Process, NEW g \in Goroutine, Receive(p, g) PROVE AckPath'
  <2>1. \A q \in Process, h \in Goroutine :
          handler'[q][h].pc = "handled" => handler'[q][h] = handler[q][h]
    BY <1>4 DEF Receive, TypeOK
  <2>2. QED
    BY <1>4, <2>1, AckPathFrame DEF Receive
<1>4b. ASSUME NEW p \in Process, NEW g \in Goroutine, Begin(p, g) PROVE AckPath'
  <2>1. \A q \in Process, h \in Goroutine :
          handler'[q][h].pc = "handled" => handler'[q][h] = handler[q][h]
    BY <1>4b DEF Begin, MoveTo, TypeOK
  <2>2. QED
    BY <1>4b, <2>1, AckPathFrame DEF Begin
<1>5. ASSUME NEW p \in Process, NEW g \in Goroutine, Handle(p, g) PROVE AckPath'
  <2>1. \A w \in Worker : completed[w] \subseteq completed'[w]
    BY <1>5 DEF Handle, TypeOK
  <2>2. handler[p][g].msg \in completed'[WorkerOf[p]]
    BY <1>0, <1>5 DEF Handle, TypeOK
  <2>3. \A q \in Process, h \in Goroutine :
          /\ handler'[q][h].msg = handler[q][h].msg
          /\ <<q, h>> # <<p, g>> => handler'[q][h] = handler[q][h]
    BY <1>5 DEF Handle, MoveTo, TypeOK
  <2>4. QED
    BY <1>0, <1>5, <2>1, <2>2, <2>3 DEF Handle, AckPath, AckedWasHandled
<1>6. ASSUME NEW p \in Process, NEW g \in Goroutine, Ack(p, g) \/ Nack(p, g) PROVE AckPath'
  <2> DEFINE m == handler[p][g].msg
  <2>1. PICK kind \in {"ack", "nack"} :
          /\ kind = "ack" => handler[p][g].pc = "handled"
          /\ Writes(p, kind, m)
          /\ MoveTo(p, g, IF kind = "ack" THEN "acked" ELSE "nacked")
          /\ UNCHANGED <<completed, outcome>>
    BY <1>6 DEF Ack, Nack, Answer
  <2>2. kind = "ack" => m \in completed[WorkerOf[p]]
    BY <2>1 DEF AckPath
  <2>3. \A q \in Process : \A i \in DOMAIN inflight'[q] :
          \/ i \in DOMAIN inflight[q] /\ inflight'[q][i] = inflight[q][i]
          \/ q = p /\ inflight'[q][i] = [kind |-> kind, msg |-> m]
    <3> DEFINE e == [kind |-> kind, msg |-> m]
    <3>1. inflight[p] \in Seq(Frame)
      BY DEF TypeOK
    <3>2. inflight' = [inflight EXCEPT ![p] = Append(inflight[p], e)]
      BY <2>1 DEF Writes
    <3>3. \A q \in Process : inflight'[q] = IF q = p THEN Append(inflight[p], e) ELSE inflight[q]
      BY <3>2 DEF TypeOK
    <3> HIDE DEF e
    <3>4. \A i \in DOMAIN Append(inflight[p], e) :
            \/ i \in DOMAIN inflight[p] /\ Append(inflight[p], e)[i] = inflight[p][i]
            \/ Append(inflight[p], e)[i] = e
      BY <3>1, AppendElements
    <3>5. QED
      BY <3>3, <3>4 DEF e
  <2>4. \A q \in Process, h \in Goroutine :
          handler'[q][h].pc = "handled" => handler'[q][h] = handler[q][h]
    BY <2>1 DEF MoveTo, TypeOK
  <2>5. QED
    BY <1>0, <2>1, <2>2, <2>3, <2>4 DEF AckPath, AckedWasHandled
<1>7. ASSUME NEW p \in Process, NEW g \in Goroutine, DelRetryKey(p, g) PROVE AckPath'
  BY <1>7, AckPathFrame DEF DelRetryKey, TypeOK, Idle
<1>8. ASSUME NEW p \in Process, NEW g \in Goroutine, Fatal(p, g) PROVE AckPath'
  BY <1>8, AckPathFrame DEF Fatal
<1>9. ASSUME NEW p \in Process, NEW s \in {"down", "stopped"}, Vanish(p, s) PROVE AckPath'
  BY <1>9, AckPathFrame DEF Vanish, TypeOK, Idle
<1>10. ASSUME NEW p \in Process, Start(p) PROVE AckPath'
  BY <1>10, AckPathFrame DEF Start
<1>11. ASSUME NEW w \in Worker, NEW b \in Body, ExpireRetryKey(w, b) PROVE AckPath'
  BY <1>11, AckPathFrame DEF ExpireRetryKey
<1>12. CASE UNCHANGED vars
  BY <1>12, AckPathFrame DEF vars
<1>13. QED
  BY <1>1, <1>2, <1>3, <1>4, <1>4b, <1>5, <1>6, <1>7, <1>8, <1>9, <1>10, <1>11, <1>12
     DEF Next, Goroutines, Exit, MainReturns, Crash

LEMMA AckPathCorrect == Spec => []AckPath
<1>1. Init => AckPath
  BY DEF Init, AckPath, AckedWasHandled, Idle
<1>2. QED
  BY <1>1, AckPathNext, TypeCorrect, ConstantsAssumption, PTL DEF Spec

\* A message the broker has removed as acknowledged was handled: GetMessages
\* never acknowledges a message whose handler has not returned, whatever
\* dies, is redelivered or is handled twice meanwhile.
THEOREM AckedMeansHandled == Spec => []AckedWasHandled
BY AckPathCorrect, PTL DEF AckPath

(***************************************************************************)
(* One place.  OnePlace says nothing of where a process keeps a message,   *)
(* and needs that: what it has answered is no longer in its hands, and a   *)
(* process that is started again has nothing left of its last life.        *)
(***************************************************************************)
Distinct(s) == \A i, j \in DOMAIN s : s[i] = s[j] => i = j

Sent(p) == {f.msg : f \in Contents(inflight[p])}

\* A closed channel takes no answers, and a process that is gone has nothing.
Tidy ==
  \A p \in Process :
    /\ status[p] # "up" => inflight[p] = <<>>
    /\ status[p] \in {"down", "stopped"} =>
         prefetched[p] = <<>> /\ \A g \in Goroutine : handler[p][g] = Idle

\* A live process has each of its messages once: waiting, in the hands of one
\* goroutine, or answered.
ApartIn(p) ==
  /\ Distinct(prefetched[p]) /\ Distinct(inflight[p])
  /\ \A e, f \in Contents(inflight[p]) : e.msg = f.msg => e = f
  /\ Contents(prefetched[p]) \cap Sent(p) = {}
  /\ \A g \in Goroutine : Holding(p, g) \cap (Contents(prefetched[p]) \cup Sent(p)) = {}
  /\ \A g, h \in Goroutine : Holding(p, g) \cap Holding(p, h) # {} => g = h

Apart == \A p \in Process : status[p] = "up" => ApartIn(p)

\* Between the queue and the live processes of its worker id.
Across ==
  /\ \A w \in Worker, m \in Message :
       outcome[w][m] = "pending" <=> (m \in queue[w] \/ Holders(w, m) # {})
  /\ \A p \in Process : status[p] = "up" => Unacked(p) \cap queue[WorkerOf[p]] = {}
  /\ \A p, q \in Process :
       /\ status[p] = "up" /\ status[q] = "up" /\ WorkerOf[p] = WorkerOf[q]
       /\ Unacked(p) \cap Unacked(q) # {}
       => p = q

\* Only what was published and reached a declared queue is anywhere.
Routed ==
  /\ \A w \in Worker, m \in Message : published < m => outcome[w][m] = "unrouted"
  /\ \A p \in Process : \A m \in Unacked(p) : outcome[WorkerOf[p]][m] # "unrouted"
  /\ \A w \in Worker, m \in Message :
       outcome[w][m] # "unrouted" => w \in declared /\ RoutingKey[m] \in Bound[w]

PlaceInv == Tidy /\ Apart /\ Across /\ Routed

LEMMA AppendContents ==
  ASSUME NEW S, NEW s \in Seq(S), NEW e \in S
  PROVE  /\ Contents(Append(s, e)) = Contents(s) \cup {e}
         /\ Distinct(s) /\ e \notin Contents(s) => Distinct(Append(s, e))
<1> DEFINE t == Append(s, e)
<1>1. /\ DOMAIN s = 1..Len(s) /\ DOMAIN t = 1..(Len(s) + 1) /\ Len(s) \in Nat
      /\ t[Len(s) + 1] = e /\ \A i \in 1..Len(s) : t[i] = s[i]
  OBVIOUS
<1> HIDE DEF t
<1>2. Contents(t) = Contents(s) \cup {e}
  BY <1>1 DEF Contents
<1>3. ASSUME Distinct(s), e \notin Contents(s) PROVE Distinct(t)
  <2>1. \A i \in 1..Len(s) : s[i] # e
    BY <1>1, <1>3 DEF Contents
  <2>2. QED
    BY <1>1, <1>3, <2>1 DEF Distinct
<1>4. QED
  BY <1>2, <1>3 DEF t

LEMMA TailContents ==
  ASSUME NEW S, NEW s \in Seq(S), s # <<>>
  PROVE  /\ Head(s) \in Contents(s)
         /\ Contents(s) = Contents(Tail(s)) \cup {Head(s)}
         /\ Distinct(s) => Distinct(Tail(s)) /\ Head(s) \notin Contents(Tail(s))
<1> DEFINE t == Tail(s)  e == Head(s)
<1>1. /\ DOMAIN s = 1..Len(s) /\ DOMAIN t = 1..(Len(s) - 1) /\ Len(s) \in Nat \ {0}
      /\ e = s[1] /\ \A i \in 1..(Len(s) - 1) : t[i] = s[i + 1]
  OBVIOUS
<1> HIDE DEF t, e
<1>2. \A i \in 1..Len(s) : i = 1 \/ (i - 1 \in 1..(Len(s) - 1) /\ s[i] = t[i - 1])
  BY <1>1
<1>3. e \in Contents(s) /\ Contents(s) = Contents(t) \cup {e}
  <2>1. e \in Contents(s)
    BY <1>1 DEF Contents
  <2>2. Contents(t) \subseteq Contents(s)
    <3>1. \A i \in 1..(Len(s) - 1) : i + 1 \in 1..Len(s)
      BY <1>1
    <3>2. QED
      BY <1>1, <3>1 DEF Contents
  <2>3. Contents(s) \subseteq Contents(t) \cup {e}
    BY <1>1, <1>2 DEF Contents
  <2>4. QED
    BY <2>1, <2>2, <2>3
<1>4. ASSUME Distinct(s) PROVE Distinct(t) /\ e \notin Contents(t)
  <2>1. \A i, j \in 1..(Len(s) - 1) : s[i + 1] = s[j + 1] => i = j
    BY <1>1, <1>4 DEF Distinct
  <2>2. \A i \in 1..(Len(s) - 1) : s[i + 1] # s[1]
    BY <1>1, <1>4 DEF Distinct
  <2>3. Distinct(t)
    BY <1>1, <2>1 DEF Distinct
  <2>4. e \notin Contents(t)
    BY <1>1, <2>2 DEF Contents
  <2>5. QED
    BY <2>3, <2>4
<1>5. QED
  BY <1>3, <1>4 DEF t, e

\* A process whose lists and hands are as they were keeps its messages.
LEMMA SameHands ==
  ASSUME NEW p \in Process, prefetched'[p] = prefetched[p], inflight'[p] = inflight[p],
         \A g \in Goroutine : handler'[p][g] = handler[p][g]
  PROVE  /\ Unacked(p)' = Unacked(p)
         /\ ApartIn(p) => ApartIn(p)'
         /\ \A g \in Goroutine : Holding(p, g)' = Holding(p, g)
<1>1. \A g \in Goroutine : Holding(p, g)' = Holding(p, g)
  BY DEF Holding
<1>2. Unacked(p)' = Unacked(p)
  BY <1>1 DEF Unacked, Contents
<1>3. Sent(p)' = Sent(p)
  BY DEF Sent, Contents
<1>4. ApartIn(p) => ApartIn(p)'
  BY <1>1, <1>3 DEF ApartIn, Contents, Distinct
<1>5. QED
  BY <1>1, <1>2, <1>4

LEMMA HandlerOf ==
  ASSUME TypeOK, NEW p \in Process, NEW g \in Goroutine, NEW h,
         handler' = [handler EXCEPT ![p][g] = h]
  PROVE  /\ handler'[p][g] = h
         /\ \A k \in Goroutine : k # g => handler'[p][k] = handler[p][k]
         /\ \A q \in Process : q # p => \A k \in Goroutine : handler'[q][k] = handler[q][k]
BY DEF TypeOK

LEMMA MoveToOf ==
  ASSUME TypeOK, NEW p \in Process, NEW g \in Goroutine, NEW pc, MoveTo(p, g, pc),
         handler[p][g] # Idle
  PROVE  /\ handler'[p][g].pc = pc /\ handler'[p][g].msg = handler[p][g].msg
         /\ \A k \in Goroutine : k # g => handler'[p][k] = handler[p][k]
         /\ \A q \in Process : q # p => \A k \in Goroutine : handler'[q][k] = handler[q][k]
<1> DEFINE h == [handler[p][g] EXCEPT !.pc = pc]
<1>1. handler' = [handler EXCEPT ![p][g] = h]
  BY DEF MoveTo
<1>2. handler[p][g] \in Busy
  BY DEF TypeOK
<1>3. h.pc = pc /\ h.msg = handler[p][g].msg
  BY <1>2 DEF Busy
<1> HIDE DEF h
<1>4. /\ handler'[p][g] = h
      /\ \A k \in Goroutine : k # g => handler'[p][k] = handler[p][k]
      /\ \A q \in Process : q # p => \A k \in Goroutine : handler'[q][k] = handler[q][k]
  BY <1>1, HandlerOf
<1>5. QED
  BY <1>3, <1>4

\* Deliver: the message joins the waiting ones.
LEMMA DeliverMoves ==
  ASSUME TypeOK, ConstantsAssumption, NEW p \in Process, Deliver(p)
  PROVE  \E m \in queue[WorkerOf[p]] :
           /\ queue' = [queue EXCEPT ![WorkerOf[p]] = @ \ {m}]
           /\ Unacked(p)' = Unacked(p) \cup {m}
           /\ m \notin Unacked(p) /\ ApartIn(p) => ApartIn(p)'
<1>1. PICK m \in queue[WorkerOf[p]] :
        /\ queue' = [queue EXCEPT ![WorkerOf[p]] = @ \ {m}]
        /\ prefetched' = [prefetched EXCEPT ![p] = Append(@, m)]
        /\ UNCHANGED <<handler, inflight>>
  BY DEF Deliver
<1>2. m \in Message /\ prefetched[p] \in Seq(Message)
  BY DEF TypeOK, ConstantsAssumption
<1>3. prefetched'[p] = Append(prefetched[p], m)
  BY <1>1 DEF TypeOK
<1>4. /\ Contents(prefetched[p])' = Contents(prefetched[p]) \cup {m}
      /\ Distinct(prefetched[p]) /\ m \notin Contents(prefetched[p]) => Distinct(prefetched[p])'
  <2>1. /\ Contents(prefetched'[p]) = Contents(prefetched[p]) \cup {m}
        /\ Distinct(prefetched[p]) /\ m \notin Contents(prefetched[p]) => Distinct(prefetched'[p])
    BY <1>2, <1>3, AppendContents
  <2>2. Contents(prefetched[p])' = Contents(prefetched'[p]) /\ Distinct(prefetched[p])' = Distinct(prefetched'[p])
    BY DEF Contents, Distinct
  <2>3. QED
    BY <2>1, <2>2
<1>5. \A g \in Goroutine : Holding(p, g)' = Holding(p, g)
  BY <1>1 DEF Holding
<1>6. Sent(p)' = Sent(p) /\ Contents(inflight[p])' = Contents(inflight[p])
      /\ Distinct(inflight[p])' = Distinct(inflight[p])
  BY <1>1 DEF Sent, Contents, Distinct
<1>7. Unacked(p) = Contents(prefetched[p]) \cup Sent(p) \cup UNION {Holding(p, g) : g \in Goroutine}
  BY DEF Unacked, Sent
<1>8. Unacked(p)' = Contents(prefetched[p])' \cup Sent(p)' \cup UNION {Holding(p, g)' : g \in Goroutine}
  BY DEF Unacked, Sent
<1>9. Unacked(p)' = Unacked(p) \cup {m}
  BY <1>4, <1>5, <1>6, <1>7, <1>8
<1>10. ASSUME m \notin Unacked(p), ApartIn(p) PROVE ApartIn(p)'
  <2>1. m \notin Contents(prefetched[p]) /\ m \notin Sent(p)
    BY <1>7, <1>10
  <2>2. \A g \in Goroutine : m \notin Holding(p, g)
    BY <1>7, <1>10
  <2>3. QED
    BY <1>4, <1>5, <1>6, <1>10, <2>1, <2>2 DEF ApartIn
<1>11. QED
  BY <1>1, <1>9, <1>10

\* Receive: the oldest waiting message goes into the hands of a goroutine.
LEMMA ReceiveMoves ==
  ASSUME TypeOK, ConstantsAssumption, NEW p \in Process, NEW g \in Goroutine, Receive(p, g)
  PROVE  Unacked(p)' = Unacked(p) /\ (ApartIn(p) => ApartIn(p)')
<1> DEFINE m == Head(prefetched[p])
<1>1. PICK pc \in {"counted", "giveUp"} :
        /\ handler[p][g] = Idle /\ prefetched[p] # <<>>
        /\ handler' = [handler EXCEPT ![p][g] = [pc |-> pc, msg |-> m]]
        /\ prefetched' = [prefetched EXCEPT ![p] = Tail(@)]
        /\ UNCHANGED inflight
  BY DEF Receive
<1>2. prefetched[p] \in Seq(Message) /\ prefetched'[p] = Tail(prefetched[p])
  BY <1>1 DEF TypeOK
<1>3. /\ m \in Contents(prefetched[p]) /\ Contents(prefetched[p]) = Contents(prefetched'[p]) \cup {m}
      /\ Distinct(prefetched[p]) => Distinct(prefetched'[p]) /\ m \notin Contents(prefetched'[p])
  BY <1>1, <1>2, TailContents
<1>4. Contents(prefetched[p])' = Contents(prefetched'[p]) /\ Distinct(prefetched[p])' = Distinct(prefetched'[p])
  BY DEF Contents, Distinct
<1> HIDE DEF m
<1>0. /\ handler'[p][g] = [pc |-> pc, msg |-> m]
      /\ \A k \in Goroutine : k # g => handler'[p][k] = handler[p][k]
  BY <1>1 DEF TypeOK
<1>5. Holding(p, g) = {} /\ Holding(p, g)' = {m}
  BY <1>0, <1>1 DEF Holding, Idle
<1>6. \A k \in Goroutine : k # g => Holding(p, k)' = Holding(p, k)
  BY <1>0 DEF Holding
<1>7. Sent(p)' = Sent(p) /\ Contents(inflight[p])' = Contents(inflight[p])
      /\ Distinct(inflight[p])' = Distinct(inflight[p])
  BY <1>1 DEF Sent, Contents, Distinct
<1>8. /\ Unacked(p) = Contents(prefetched[p]) \cup Sent(p) \cup UNION {Holding(p, k) : k \in Goroutine}
      /\ Unacked(p)' = Contents(prefetched[p])' \cup Sent(p)' \cup UNION {Holding(p, k)' : k \in Goroutine}
  BY DEF Unacked, Sent
<1>9. UNION {Holding(p, k)' : k \in Goroutine} = (UNION {Holding(p, k) : k \in Goroutine}) \cup {m}
  BY <1>5, <1>6
<1>10. Unacked(p)' = Unacked(p)
  BY <1>3, <1>4, <1>7, <1>8, <1>9
<1>11. ASSUME ApartIn(p) PROVE ApartIn(p)'
  <2>1. m \notin Sent(p) /\ \A k \in Goroutine : m \notin Holding(p, k)
    BY <1>3, <1>11 DEF ApartIn
  <2>2. m \notin Contents(prefetched'[p]) /\ Contents(prefetched'[p]) \subseteq Contents(prefetched[p])
    BY <1>3, <1>11 DEF ApartIn
  <2>3. \A k \in Goroutine : Holding(p, k)' \cap (Contents(prefetched'[p]) \cup Sent(p)) = {}
    BY <1>5, <1>6, <1>11, <2>1, <2>2 DEF ApartIn
  <2>4. \A k, h \in Goroutine : Holding(p, k)' \cap Holding(p, h)' # {} => k = h
    BY <1>5, <1>6, <1>11, <2>1 DEF ApartIn
  <2>5. QED
    BY <1>3, <1>4, <1>7, <1>11, <2>2, <2>3, <2>4 DEF ApartIn
<1>12. QED
  BY <1>10, <1>11

\* Ack and Nack: the message leaves the hands of the goroutine as an answer.
LEMMA AnswerMoves ==
  ASSUME TypeOK, NEW p \in Process, NEW g \in Goroutine,
         NEW from \in {"handled", "giveUp"}, NEW kind \in {"ack", "nack"},
         NEW to \in {"acked", "nacked"}, Answer(p, g, from, kind, to)
  PROVE  Unacked(p)' = Unacked(p) /\ (ApartIn(p) => ApartIn(p)')
<1> DEFINE m == handler[p][g].msg
           f == [kind |-> kind, msg |-> m]
<1>1. /\ handler[p][g].pc = from /\ handler[p][g] # Idle /\ MoveTo(p, g, to)
      /\ inflight' = [inflight EXCEPT ![p] = Append(@, f)] /\ UNCHANGED prefetched
  BY DEF Answer, Writes, Idle
<1>2. m \in Message /\ inflight[p] \in Seq(Frame)
  BY <1>1, MoveToType DEF TypeOK
<1>3. f \in Frame /\ f.msg = m
  BY <1>2 DEF Frame
<1> HIDE DEF f
<1>4. /\ Contents(inflight'[p]) = Contents(inflight[p]) \cup {f}
      /\ Distinct(inflight[p]) /\ f \notin Contents(inflight[p]) => Distinct(inflight'[p])
  <2>1. inflight'[p] = Append(inflight[p], f)
    BY <1>1 DEF TypeOK
  <2>2. QED
    BY <1>2, <1>3, <2>1, AppendContents
<1>5. Contents(inflight[p])' = Contents(inflight'[p]) /\ Distinct(inflight[p])' = Distinct(inflight'[p])
  BY DEF Contents, Distinct
<1>6. Sent(p)' = Sent(p) \cup {m}
  BY <1>3, <1>4, <1>5 DEF Sent
<1>7. Holding(p, g) = {m} /\ Holding(p, g)' = {}
  <2>1. handler'[p][g].pc = to
    BY <1>1, MoveToOf
  <2> QED BY <1>1, <2>1 DEF Holding
<1> HIDE DEF m
<1>8. \A k \in Goroutine : k # g => Holding(p, k)' = Holding(p, k)
  <2>1. \A k \in Goroutine : k # g => handler'[p][k] = handler[p][k]
    BY <1>1, MoveToOf
  <2> QED BY <2>1 DEF Holding
<1>9. Contents(prefetched[p])' = Contents(prefetched[p]) /\ Distinct(prefetched[p])' = Distinct(prefetched[p])
  BY <1>1 DEF Contents, Distinct
<1>10. /\ Unacked(p) = Contents(prefetched[p]) \cup Sent(p) \cup UNION {Holding(p, k) : k \in Goroutine}
       /\ Unacked(p)' = Contents(prefetched[p])' \cup Sent(p)' \cup UNION {Holding(p, k)' : k \in Goroutine}
  BY DEF Unacked, Sent
<1>11. UNION {Holding(p, k) : k \in Goroutine} = (UNION {Holding(p, k)' : k \in Goroutine}) \cup {m}
  BY <1>7, <1>8
<1>12. Unacked(p)' = Unacked(p)
  BY <1>6, <1>9, <1>10, <1>11
<1>13. ASSUME ApartIn(p) PROVE ApartIn(p)'
  <2>1. m \notin Sent(p) /\ m \notin Contents(prefetched[p]) /\ \A k \in Goroutine : k # g => m \notin Holding(p, k)
    BY <1>7, <1>13 DEF ApartIn
  <2>2. \A e \in Contents(inflight[p]) : e.msg # m
    BY <2>1 DEF Sent
  <2>3. Distinct(inflight'[p]) /\ \A e, h \in Contents(inflight'[p]) : e.msg = h.msg => e = h
    BY <1>3, <1>4, <1>13, <2>2 DEF ApartIn
  <2>4. \A k \in Goroutine : Holding(p, k)' \cap (Contents(prefetched[p]) \cup Sent(p)') = {}
    BY <1>6, <1>7, <1>8, <1>13, <2>1 DEF ApartIn
  <2>5. \A k, h \in Goroutine : Holding(p, k)' \cap Holding(p, h)' # {} => k = h
    BY <1>7, <1>8, <1>13 DEF ApartIn
  <2>6. QED
    BY <1>5, <1>6, <1>9, <1>13, <2>1, <2>3, <2>4, <2>5 DEF ApartIn
<1>14. QED
  BY <1>12, <1>13

\* Settle: the oldest answer is off the wire.
LEMMA SettleMoves ==
  ASSUME TypeOK, NEW p \in Process, Settle(p)
  PROVE  LET m == Head(inflight[p]).msg IN
         /\ m \in Sent(p) /\ Head(inflight[p]) \in Contents(inflight[p])
         /\ Unacked(p) = Unacked(p)' \cup {m}
         /\ ApartIn(p) => ApartIn(p)' /\ m \notin Unacked(p)'
<1> DEFINE f == Head(inflight[p])
           m == f.msg
<1>1. /\ inflight[p] # <<>> /\ inflight' = [inflight EXCEPT ![p] = Tail(@)]
      /\ UNCHANGED <<prefetched, handler>>
  BY DEF Settle
<1>2. inflight[p] \in Seq(Frame) /\ inflight'[p] = Tail(inflight[p])
  BY <1>1 DEF TypeOK
<1>3. /\ f \in Contents(inflight[p]) /\ Contents(inflight[p]) = Contents(inflight'[p]) \cup {f}
      /\ Distinct(inflight[p]) => Distinct(inflight'[p]) /\ f \notin Contents(inflight'[p])
  BY <1>1, <1>2, TailContents
<1> HIDE DEF f
<1>4. Contents(inflight[p])' = Contents(inflight'[p]) /\ Distinct(inflight[p])' = Distinct(inflight'[p])
  BY DEF Contents, Distinct
<1>5. m \in Sent(p) /\ Sent(p) = Sent(p)' \cup {m}
  BY <1>3, <1>4 DEF Sent
<1>6. \A k \in Goroutine : Holding(p, k)' = Holding(p, k)
  BY <1>1 DEF Holding
<1>7. Contents(prefetched[p])' = Contents(prefetched[p]) /\ Distinct(prefetched[p])' = Distinct(prefetched[p])
  BY <1>1 DEF Contents, Distinct
<1>8. /\ Unacked(p) = Contents(prefetched[p]) \cup Sent(p) \cup UNION {Holding(p, k) : k \in Goroutine}
      /\ Unacked(p)' = Contents(prefetched[p])' \cup Sent(p)' \cup UNION {Holding(p, k)' : k \in Goroutine}
  BY DEF Unacked, Sent
<1>9. Unacked(p) = Unacked(p)' \cup {m}
  BY <1>5, <1>6, <1>7, <1>8
<1>10. ASSUME ApartIn(p) PROVE ApartIn(p)' /\ m \notin Unacked(p)'
  <2>1. \A e \in Contents(inflight'[p]) : e.msg # m
    BY <1>3, <1>10 DEF ApartIn
  <2>2. m \notin Sent(p)'
    BY <1>4, <2>1 DEF Sent
  <2>3. m \notin Contents(prefetched[p]) /\ \A k \in Goroutine : m \notin Holding(p, k)
    BY <1>5, <1>10 DEF ApartIn
  <2>4. m \notin Unacked(p)'
    BY <1>6, <1>7, <1>8, <2>2, <2>3
  <2>5. ApartIn(p)'
    BY <1>3, <1>4, <1>5, <1>6, <1>7, <1>10 DEF ApartIn
  <2>6. QED
    BY <2>4, <2>5
<1>11. QED
  BY <1>3, <1>5, <1>9, <1>10 DEF f

\* Begin, Handle and DelRetryKey: the same messages are in the same hands.
LEMMA HandleMoves ==
  ASSUME TypeOK, NEW p \in Process, NEW g \in Goroutine,
         Begin(p, g) \/ Handle(p, g) \/ DelRetryKey(p, g)
  PROVE  Unacked(p)' = Unacked(p) /\ (ApartIn(p) => ApartIn(p)')
<1>1. \A k \in Goroutine : Holding(p, k)' = Holding(p, k)
  <2>1. CASE Begin(p, g) \/ Handle(p, g)
    <3>1. PICK from \in {"counted", "running"}, to \in {"running", "handled"} :
            MoveTo(p, g, to) /\ handler[p][g].pc = from /\ handler[p][g] # Idle
      BY <2>1 DEF Begin, Handle, Idle
    <3>2. /\ handler'[p][g].pc = to /\ handler'[p][g].msg = handler[p][g].msg
          /\ \A k \in Goroutine : k # g => handler'[p][k] = handler[p][k]
      BY <3>1, MoveToOf
    <3>3. QED
      BY <3>1, <3>2 DEF Holding
  <2>2. CASE DelRetryKey(p, g)
    <3>1. handler' = [handler EXCEPT ![p][g] = Idle] /\ handler[p][g].pc \in {"acked", "nacked"}
      BY <2>2 DEF DelRetryKey
    <3>2. /\ handler'[p][g] = Idle
          /\ \A k \in Goroutine : k # g => handler'[p][k] = handler[p][k]
      BY <3>1 DEF TypeOK
    <3>3. QED
      BY <3>1, <3>2 DEF Holding, Idle
  <2>3. QED
    BY <2>1, <2>2
<1>2. UNCHANGED <<prefetched, inflight>>
  BY DEF Begin, Handle, DelRetryKey
<1>3. QED
  BY <1>1, <1>2 DEF Unacked, Sent, ApartIn, Contents, Distinct

\* Only process p does anything.
Elsewhere(p) ==
  \A q \in Process : q # p =>
    /\ status'[q] = status[q] /\ prefetched'[q] = prefetched[q] /\ inflight'[q] = inflight[q]
    /\ \A g \in Goroutine : handler'[q][g] = handler[q][g]

LEMMA StepsOfOne ==
  ASSUME TypeOK, NEW p \in Process,
         \/ Deliver(p) \/ Settle(p) \/ Vanish(p, "down") \/ Vanish(p, "stopped") \/ Start(p)
         \/ Goroutines(p)
  PROVE  Elsewhere(p)
<1> USE DEF TypeOK, Elsewhere
<1>1. CASE Deliver(p)
  BY <1>1 DEF Deliver
<1>2. CASE Settle(p)
  BY <1>2 DEF Settle
<1>3. CASE Vanish(p, "down") \/ Vanish(p, "stopped")
  BY <1>3 DEF Vanish
<1>4. CASE Start(p)
  BY <1>4 DEF Start
<1>5. ASSUME NEW g \in Goroutine, Receive(p, g) PROVE Elsewhere(p)
  BY <1>5 DEF Receive
<1>6. ASSUME NEW g \in Goroutine, Begin(p, g) \/ Handle(p, g) PROVE Elsewhere(p)
  BY <1>6 DEF Begin, Handle, MoveTo
<1>7. ASSUME NEW g \in Goroutine, Ack(p, g) \/ Nack(p, g) PROVE Elsewhere(p)
  BY <1>7 DEF Ack, Nack, Answer, MoveTo, Writes
<1>8. ASSUME NEW g \in Goroutine, DelRetryKey(p, g) PROVE Elsewhere(p)
  BY <1>8 DEF DelRetryKey
<1>9. ASSUME NEW g \in Goroutine, Fatal(p, g) PROVE Elsewhere(p)
  BY <1>9 DEF Fatal
<1>10. QED
  BY <1>1, <1>2, <1>3, <1>4, <1>5, <1>6, <1>7, <1>8, <1>9 DEF Goroutines

LEMMA ElsewhereSame ==
  ASSUME NEW p \in Process, Elsewhere(p), NEW q \in Process, q # p
  PROVE  /\ Unacked(q)' = Unacked(q) /\ status'[q] = status[q]
         /\ ApartIn(q) => ApartIn(q)'
<1>1. /\ status'[q] = status[q] /\ prefetched'[q] = prefetched[q] /\ inflight'[q] = inflight[q]
      /\ \A g \in Goroutine : handler'[q][g] = handler[q][g]
  BY DEF Elsewhere
<1>2. QED
  BY <1>1, SameHands

LEMMA ApartStep ==
  ASSUME Apart, NEW p \in Process, Elsewhere(p), status'[p] = "up" => ApartIn(p)'
  PROVE  Apart'
BY ElsewhereSame DEF Apart

LEMMA ApartEmpty ==
  ASSUME NEW p \in Process, prefetched[p] = <<>>, inflight[p] = <<>>,
         \A g \in Goroutine : handler[p][g] = Idle
  PROVE  ApartIn(p) /\ Unacked(p) = {}
<1>1. Contents(prefetched[p]) = {} /\ Contents(inflight[p]) = {} /\ Sent(p) = {}
  BY DEF Contents, Sent
<1>2. \A g \in Goroutine : Holding(p, g) = {}
  BY DEF Holding, Idle
<1>3. QED
  BY <1>1, <1>2 DEF ApartIn, Unacked, Sent, Distinct

\* Nothing moves between the queue, the broker's verdicts and the live processes.
LEMMA AcrossKeep ==
  ASSUME Across, NEW p \in Process, Elsewhere(p), UNCHANGED <<queue, outcome>>,
         \/ status'[p] # "up" /\ status[p] # "up"
         \/ status'[p] = "up" /\ status[p] = "up" /\ Unacked(p)' = Unacked(p)
         \/ status'[p] = "up" /\ status[p] # "up" /\ Unacked(p)' = {}
  PROVE  Across'
<1>1. \A q \in Process : status'[q] = "up" =>
        \/ Unacked(q)' = {}
        \/ status[q] = "up" /\ Unacked(q)' = Unacked(q)
  BY ElsewhereSame
<1>2. \A q \in Process : status[q] = "up" /\ Unacked(q) # {} => status'[q] = "up" /\ Unacked(q)' = Unacked(q)
  BY ElsewhereSame
<1>3. \A w \in Worker, m \in Message : Holders(w, m)' # {} <=> Holders(w, m) # {}
  BY <1>1, <1>2 DEF Holders
<1>4. QED
  BY <1>1, <1>3 DEF Across

\* The channel of a live process closes: its messages are in the queue again.
LEMMA AcrossClose ==
  ASSUME ConstantsAssumption, TypeOK, Across, NEW p \in Process, Elsewhere(p),
         status[p] = "up", status'[p] # "up", Requeue(p), UNCHANGED outcome
  PROVE  Across'
<1> DEFINE w0 == WorkerOf[p]
<1>1. w0 \in Worker /\ queue'[w0] = queue[w0] \cup Unacked(p)
      /\ \A w \in Worker : w # w0 => queue'[w] = queue[w]
  BY DEF ConstantsAssumption, TypeOK, Requeue
<1>2. \A q \in Process : status'[q] = "up" =>
        q # p /\ status[q] = "up" /\ Unacked(q)' = Unacked(q)
  BY ElsewhereSame
<1>3. \A q \in Process : status[q] = "up" /\ q # p => status'[q] = "up" /\ Unacked(q)' = Unacked(q)
  BY ElsewhereSame
<1>4. ASSUME NEW w \in Worker, NEW m \in Message
      PROVE  outcome'[w][m] = "pending" <=> (m \in queue'[w] \/ Holders(w, m)' # {})
  <2>1. Holders(w, m) # {} <=> Holders(w, m)' # {} \/ (w = w0 /\ m \in Unacked(p))
    BY <1>2, <1>3 DEF Holders
  <2>2. m \in queue'[w] <=> m \in queue[w] \/ (w = w0 /\ m \in Unacked(p))
    BY <1>1
  <2>3. QED
    BY <2>1, <2>2 DEF Across
<1>5. ASSUME NEW q \in Process, status'[q] = "up" PROVE Unacked(q)' \cap queue'[WorkerOf[q]] = {}
  <2>1. WorkerOf[q] \in Worker /\ q # p /\ status[q] = "up" /\ Unacked(q)' = Unacked(q)
    BY <1>2, <1>5 DEF ConstantsAssumption
  <2>2. WorkerOf[q] = w0 => Unacked(q) \cap Unacked(p) = {}
    BY <2>1 DEF Across
  <2>3. QED
    BY <1>1, <2>1, <2>2 DEF Across
<1>6. QED
  BY <1>2, <1>4, <1>5 DEF Across

LEMMA RoutedKeep ==
  ASSUME Routed, UNCHANGED <<published, outcome>>, declared \subseteq declared',
         \A q \in Process : Unacked(q)' \subseteq Unacked(q)
  PROVE  Routed'
BY DEF Routed

LEMMA TidyNext == ConstantsAssumption /\ TypeOK /\ Tidy /\ [Next]_vars => Tidy'
<1> SUFFICES ASSUME ConstantsAssumption, TypeOK, Tidy, [Next]_vars PROVE Tidy'
  OBVIOUS
<1> USE DEF Tidy, broker, history, bounds
<1>1. CASE Publish
  BY <1>1 DEF Publish
<1>2. ASSUME NEW p \in Process, Deliver(p) PROVE Tidy'
  BY <1>2 DEF Deliver, TypeOK
<1>3. ASSUME NEW p \in Process, Settle(p) PROVE Tidy'
  BY <1>3 DEF Settle, TypeOK
<1>4. ASSUME NEW p \in Process, NEW g \in Goroutine, Receive(p, g) PROVE Tidy'
  BY <1>4 DEF Receive, TypeOK
<1>5. ASSUME NEW p \in Process, NEW g \in Goroutine, Begin(p, g) \/ Handle(p, g) PROVE Tidy'
  <2>1. CASE Begin(p, g)
    BY <2>1 DEF Begin, MoveTo, TypeOK
  <2>2. CASE Handle(p, g)
    BY <2>2 DEF Handle, MoveTo, TypeOK
  <2>3. QED
    BY <1>5, <2>1, <2>2
<1>6. ASSUME NEW p \in Process, NEW g \in Goroutine, Ack(p, g) \/ Nack(p, g) PROVE Tidy'
  BY <1>6, SMTT(30) DEF Ack, Nack, Answer, Writes, MoveTo, TypeOK
<1>7. ASSUME NEW p \in Process, NEW g \in Goroutine, DelRetryKey(p, g) PROVE Tidy'
  BY <1>7 DEF DelRetryKey, TypeOK
<1>8. ASSUME NEW p \in Process, NEW g \in Goroutine, Fatal(p, g) PROVE Tidy'
  BY <1>8 DEF Fatal, TypeOK
<1>9. ASSUME NEW p \in Process, NEW s \in {"down", "stopped"}, Vanish(p, s) PROVE Tidy'
  BY <1>9 DEF Vanish, TypeOK
<1>10. ASSUME NEW p \in Process, Start(p) PROVE Tidy'
  BY <1>10 DEF Start, TypeOK
<1>11. ASSUME NEW w \in Worker, NEW b \in Body, ExpireRetryKey(w, b) PROVE Tidy'
  BY <1>11 DEF ExpireRetryKey
<1>12. CASE UNCHANGED vars
  BY <1>12 DEF vars
<1>13. QED
  BY <1>1, <1>2, <1>3, <1>4, <1>5, <1>6, <1>7, <1>8, <1>9, <1>10, <1>11, <1>12
     DEF Next, Goroutines, Exit, MainReturns, Crash

LEMMA ApartNext ==
  ConstantsAssumption /\ TypeOK /\ Tidy /\ Apart /\ Across /\ [Next]_vars => Apart'
<1> SUFFICES ASSUME ConstantsAssumption, TypeOK, Tidy, Apart, Across, [Next]_vars PROVE Apart'
  OBVIOUS
<1> USE DEF broker, history, bounds
<1>1. ASSUME UNCHANGED <<status, prefetched, inflight, handler>> PROVE Apart'
  BY <1>1, SameHands DEF Apart
<1>2. ASSUME NEW p \in Process, Deliver(p) PROVE Apart'
  <2>1. status[p] = "up"
    BY <1>2 DEF Deliver
  <2>2. \A m \in queue[WorkerOf[p]] : m \notin Unacked(p)
    BY <2>1 DEF Across
  <2>3. ApartIn(p)'
    BY <1>2, <2>1, <2>2, DeliverMoves DEF Apart
  <2>4. QED
    BY <1>2, <2>3, StepsOfOne, ApartStep
<1>3. ASSUME NEW p \in Process, Settle(p) PROVE Apart'
  <2>1. status[p] = "up"
    BY <1>3 DEF Settle, Tidy
  <2>2. ApartIn(p)'
    BY <1>3, <2>1, SettleMoves DEF Apart
  <2>3. QED
    BY <1>3, <2>2, StepsOfOne, ApartStep
<1>4. ASSUME NEW p \in Process, NEW g \in Goroutine, Receive(p, g) PROVE Apart'
  <2>1. status'[p] = status[p]
    BY <1>4 DEF Receive
  <2>2. Elsewhere(p)
    BY <1>4, StepsOfOne DEF Goroutines
  <2>3. QED
    BY <1>4, <2>1, <2>2, ReceiveMoves, ApartStep DEF Apart
<1>5. ASSUME NEW p \in Process, NEW g \in Goroutine, Begin(p, g) \/ Handle(p, g) \/ DelRetryKey(p, g)
      PROVE  Apart'
  <2>1. status'[p] = status[p]
    BY <1>5 DEF Begin, Handle, DelRetryKey
  <2>2. Elsewhere(p)
    BY <1>5, StepsOfOne DEF Goroutines
  <2>3. QED
    BY <1>5, <2>1, <2>2, HandleMoves, ApartStep DEF Apart
<1>6. ASSUME NEW p \in Process, NEW g \in Goroutine, Ack(p, g) \/ Nack(p, g) PROVE Apart'
  <2>1. status[p] = "up" /\ status'[p] = status[p]
    BY <1>6 DEF Ack, Nack, Answer
  <2>2. ApartIn(p)'
    <3>1. PICK from \in {"handled", "giveUp"}, kind \in {"ack", "nack"}, to \in {"acked", "nacked"} :
            Answer(p, g, from, kind, to)
      BY <1>6 DEF Ack, Nack
    <3>2. QED
      BY <2>1, <3>1, AnswerMoves DEF Apart
  <2>3. QED
    BY <1>6, <2>2, StepsOfOne, ApartStep DEF Goroutines
<1>7. ASSUME NEW p \in Process, NEW g \in Goroutine, Fatal(p, g) PROVE Apart'
  <2>1. status'[p] # "up"
    BY <1>7 DEF Fatal, TypeOK
  <2>2. QED
    BY <1>7, <2>1, StepsOfOne, ApartStep DEF Goroutines
<1>8. ASSUME NEW p \in Process, Vanish(p, "down") \/ Vanish(p, "stopped")
      PROVE  Apart'
  <2>1. status'[p] # "up"
    BY <1>8 DEF Vanish, TypeOK
  <2>2. QED
    BY <1>8, <2>1, StepsOfOne, ApartStep
<1>9. ASSUME NEW p \in Process, Start(p) PROVE Apart'
  <2>1. ApartIn(p)
    BY <1>9, ApartEmpty DEF Start, Tidy
  <2>2. ApartIn(p)'
    BY <1>9, <2>1, SameHands DEF Start
  <2>3. QED
    BY <1>9, <2>2, StepsOfOne, ApartStep
<1>10. QED
  BY <1>1, <1>2, <1>3, <1>4, <1>5, <1>6, <1>7, <1>8, <1>9
     DEF Next, Goroutines, Exit, MainReturns, Crash, Publish, ExpireRetryKey, vars

\* A message that is published was nowhere before.
LEMMA AcrossPublish ==
  ASSUME ConstantsAssumption, TypeOK, Across, Routed, Publish
  PROVE  Across'
<1> DEFINE n == published + 1
           W == {w \in declared : RoutingKey[n] \in Bound[w]}
<1>1. n \in Message /\ \A w \in Worker : outcome[w][n] = "unrouted"
  BY DEF Publish, Message, TypeOK, ConstantsAssumption, Routed
<1>2. \A w \in Worker :
        /\ n \notin queue[w] /\ Holders(w, n) = {}
        /\ queue'[w] = IF w \in W THEN queue[w] \cup {n} ELSE queue[w]
  BY <1>1 DEF Publish, Across
<1>3. \A w \in Worker, m \in Message :
        outcome'[w][m] = IF m = n /\ w \in W THEN "pending" ELSE outcome[w][m]
  BY <1>1 DEF Publish, TypeOK
<1>4. \A q \in Process : Unacked(q)' = Unacked(q) /\ status'[q] = status[q]
  BY SameHands DEF Publish
<1>5. \A w \in Worker, m \in Message : Holders(w, m)' = Holders(w, m)
  BY <1>4 DEF Holders
<1> HIDE DEF n, W
<1>6. ASSUME NEW w \in Worker, NEW m \in Message
      PROVE  outcome'[w][m] = "pending" <=> (m \in queue'[w] \/ Holders(w, m)' # {})
  <2>1. CASE m = n
    BY <1>1, <1>2, <1>3, <1>5, <2>1
  <2>2. CASE m # n
    <3>1. m \in queue'[w] <=> m \in queue[w]
      BY <1>2, <2>2
    <3>2. outcome'[w][m] = outcome[w][m] /\ Holders(w, m)' = Holders(w, m)
      BY <1>3, <1>5, <2>2
    <3>3. QED
      BY <3>1, <3>2 DEF Across
  <2>3. QED
    BY <2>1, <2>2
<1>7. ASSUME NEW q \in Process, status'[q] = "up" PROVE Unacked(q)' \cap queue'[WorkerOf[q]] = {}
  <2>1. WorkerOf[q] \in Worker /\ n \notin Unacked(q)
    BY <1>1, <1>2, <1>4, <1>7 DEF Holders, ConstantsAssumption
  <2>2. Unacked(q) \cap queue[WorkerOf[q]] = {} /\ Unacked(q)' = Unacked(q)
    BY <1>4, <1>7 DEF Across
  <2>3. queue'[WorkerOf[q]] \subseteq queue[WorkerOf[q]] \cup {n}
    BY <1>2, <2>1
  <2>4. QED
    BY <2>1, <2>2, <2>3
<1>8. QED
  BY <1>4, <1>6, <1>7 DEF Across

LEMMA AcrossDeliver ==
  ASSUME ConstantsAssumption, TypeOK, Across, NEW p \in Process, Deliver(p)
  PROVE  Across'
<1> DEFINE w0 == WorkerOf[p]
<1>1. status[p] = "up" /\ status'[p] = "up" /\ w0 \in Worker /\ UNCHANGED outcome
  BY DEF Deliver, ConstantsAssumption
<1>2. PICK n \in queue[w0] : /\ queue' = [queue EXCEPT ![w0] = @ \ {n}]
                             /\ Unacked(p)' = Unacked(p) \cup {n}
  BY DeliverMoves
<1>3. n \in Message /\ n \notin Unacked(p)
      /\ \A w \in Worker : queue'[w] = IF w = w0 THEN queue[w] \ {n} ELSE queue[w]
  BY <1>1, <1>2 DEF TypeOK, Across
<1>4. \A q \in Process : q # p => Unacked(q)' = Unacked(q) /\ status'[q] = status[q]
  BY StepsOfOne, ElsewhereSame
<1>5. \A q \in Process : status[q] = "up" /\ WorkerOf[q] = w0 => n \notin Unacked(q)
  BY <1>2 DEF Across
<1>6. ASSUME NEW w \in Worker, NEW m \in Message
      PROVE  outcome'[w][m] = "pending" <=> (m \in queue'[w] \/ Holders(w, m)' # {})
  <2>1. Holders(w, m)' # {} <=> Holders(w, m) # {} \/ (w = w0 /\ m = n)
    BY <1>1, <1>2, <1>4 DEF Holders
  <2>2. m \in queue[w] <=> m \in queue'[w] \/ (w = w0 /\ m = n)
    BY <1>2, <1>3
  <2>3. QED
    BY <1>1, <2>1, <2>2 DEF Across
<1>7. ASSUME NEW q \in Process, status'[q] = "up" PROVE Unacked(q)' \cap queue'[WorkerOf[q]] = {}
  <2>1. WorkerOf[q] \in Worker /\ status[q] = "up"
    BY <1>1, <1>4, <1>7 DEF ConstantsAssumption
  <2>2. Unacked(q) \cap queue[WorkerOf[q]] = {}
    BY <2>1 DEF Across
  <2>3. queue'[WorkerOf[q]] \subseteq queue[WorkerOf[q]]
    BY <1>3, <2>1
  <2>4. CASE q # p
    BY <1>4, <2>2, <2>3, <2>4
  <2>5. CASE q = p
    <3>1. n \notin queue'[WorkerOf[p]]
      BY <1>1, <1>3
    <3>2. QED
      BY <1>2, <2>2, <2>3, <2>5, <3>1
  <2>6. QED
    BY <2>4, <2>5
<1>8. ASSUME NEW q \in Process, NEW r \in Process, status'[q] = "up", status'[r] = "up",
             WorkerOf[q] = WorkerOf[r], Unacked(q)' \cap Unacked(r)' # {}
      PROVE  q = r
  <2>1. status[q] = "up" /\ status[r] = "up"
    BY <1>1, <1>4, <1>8
  <2>2. CASE q # p /\ r # p
    BY <1>4, <1>8, <2>1, <2>2 DEF Across
  <2>3. CASE q = p /\ r # p
    BY <1>2, <1>4, <1>5, <1>8, <2>1, <2>3 DEF Across
  <2>4. CASE q # p /\ r = p
    BY <1>2, <1>4, <1>5, <1>8, <2>1, <2>4 DEF Across
  <2>5. QED
    BY <2>2, <2>3, <2>4
<1>9. QED
  BY <1>6, <1>7, <1>8 DEF Across

\* Settle: the broker's verdict on a message that only p has.
LEMMA SettleOutcome ==
  ASSUME ConstantsAssumption, TypeOK, Tidy, NEW p \in Process, Settle(p)
  PROVE  LET f == Head(inflight[p]) IN
         /\ f \in Frame /\ WorkerOf[p] \in Worker /\ status[p] = "up"
         /\ \A w \in Worker, m \in Message :
              outcome'[w][m] = IF w = WorkerOf[p] /\ m = f.msg
                               THEN (IF f.kind = "ack" THEN "acked" ELSE "dead")
                               ELSE outcome[w][m]
<1>1. inflight[p] # <<>> /\ inflight[p] \in Seq(Frame)
  BY DEF Settle, TypeOK
<1>2. Head(inflight[p]) \in Frame
  BY <1>1, HeadTailTypes
<1>3. WorkerOf[p] \in Worker /\ status[p] = "up"
  BY <1>1 DEF Tidy, ConstantsAssumption
<1>4. QED
  BY <1>2, <1>3 DEF Settle, TypeOK, Frame

LEMMA AcrossSettle ==
  ASSUME ConstantsAssumption, TypeOK, Tidy, Apart, Across, NEW p \in Process, Settle(p)
  PROVE  Across'
<1> DEFINE n == Head(inflight[p]).msg
           w0 == WorkerOf[p]
<1>1. /\ status[p] = "up" /\ status'[p] = "up" /\ w0 \in Worker /\ n \in Message
      /\ UNCHANGED queue
  BY SettleOutcome DEF Settle, Frame
<1>2. \A w \in Worker, m \in Message :
        IF w = w0 /\ m = n THEN outcome'[w][m] # "pending" ELSE outcome'[w][m] = outcome[w][m]
  BY SettleOutcome
<1>3. Unacked(p) = Unacked(p)' \cup {n} /\ n \notin Unacked(p)'
  BY <1>1, SettleMoves DEF Apart
<1> HIDE DEF n
<1>4. \A q \in Process : q # p => Unacked(q)' = Unacked(q) /\ status'[q] = status[q]
  BY StepsOfOne, ElsewhereSame
<1>5. n \notin queue[w0]
      /\ \A q \in Process : q # p /\ status[q] = "up" /\ WorkerOf[q] = w0 => n \notin Unacked(q)
  BY <1>1, <1>3 DEF Across
<1>6. ASSUME NEW w \in Worker, NEW m \in Message
      PROVE  outcome'[w][m] = "pending" <=> (m \in queue'[w] \/ Holders(w, m)' # {})
  <2>1. CASE w = w0 /\ m = n
    <3>1. Holders(w, m)' = {}
      BY <1>1, <1>3, <1>4, <1>5, <2>1 DEF Holders
    <3>2. QED
      BY <1>1, <1>2, <1>5, <2>1, <3>1
  <2>2. CASE ~(w = w0 /\ m = n)
    <3>1. Holders(w, m)' = Holders(w, m)
      BY <1>1, <1>3, <1>4, <2>2 DEF Holders
    <3>2. QED
      BY <1>1, <1>2, <2>2, <3>1 DEF Across
  <2>3. QED
    BY <2>1, <2>2
<1>7. \A q \in Process : status'[q] = "up" => status[q] = "up" /\ Unacked(q)' \subseteq Unacked(q)
  BY <1>1, <1>3, <1>4
<1>8. QED
  BY <1>1, <1>6, <1>7 DEF Across

LEMMA AcrossNext ==
  ConstantsAssumption /\ TypeOK /\ Tidy /\ Apart /\ Across /\ Routed /\ [Next]_vars => Across'
<1> SUFFICES ASSUME ConstantsAssumption, TypeOK, Tidy, Apart, Across, Routed, [Next]_vars
             PROVE  Across'
  OBVIOUS
<1> USE DEF broker, history, bounds
<1>1. CASE Publish
  BY <1>1, AcrossPublish
<1>2. ASSUME NEW p \in Process, Deliver(p) PROVE Across'
  BY <1>2, AcrossDeliver
<1>3. ASSUME NEW p \in Process, Settle(p) PROVE Across'
  BY <1>3, AcrossSettle
<1>4. ASSUME NEW p \in Process, NEW g \in Goroutine,
             \/ Receive(p, g) \/ Begin(p, g) \/ Handle(p, g)
             \/ Ack(p, g) \/ Nack(p, g) \/ DelRetryKey(p, g)
      PROVE  Across'
  <2>1. Unacked(p)' = Unacked(p)
    <3>1. CASE Ack(p, g) \/ Nack(p, g)
      <4>1. PICK from \in {"handled", "giveUp"}, kind \in {"ack", "nack"}, to \in {"acked", "nacked"} :
              Answer(p, g, from, kind, to)
        BY <3>1 DEF Ack, Nack
      <4>2. QED
        BY <4>1, AnswerMoves
    <3>2. QED
      BY <1>4, <3>1, ReceiveMoves, HandleMoves
  <2>2. UNCHANGED <<queue, outcome, status>>
    BY <1>4 DEF Receive, Begin, Handle, Ack, Nack, Answer, DelRetryKey
  <2>3. Elsewhere(p)
    BY <1>4, StepsOfOne DEF Goroutines
  <2>4. QED
    BY <2>1, <2>2, <2>3, AcrossKeep
<1>5. ASSUME NEW p \in Process, NEW g \in Goroutine, Fatal(p, g) PROVE Across'
  <2>1. /\ status[p] = "up" /\ status'[p] # "up" /\ Requeue(p) /\ UNCHANGED outcome
    BY <1>5 DEF Fatal, TypeOK
  <2>2. Elsewhere(p)
    BY <1>5, StepsOfOne DEF Goroutines
  <2>3. QED
    BY <2>1, <2>2, AcrossClose
<1>6. ASSUME NEW p \in Process, Exit(p) \/ MainReturns(p) \/ Crash(p) PROVE Across'
  <2>1. /\ Vanish(p, "down") \/ Vanish(p, "stopped")
        /\ IF status[p] = "up" THEN Requeue(p) ELSE UNCHANGED queue
    BY <1>6 DEF Exit, MainReturns, Crash
  <2>2. status'[p] # "up" /\ UNCHANGED outcome
    BY <2>1 DEF Vanish, TypeOK
  <2>3. Elsewhere(p)
    BY <2>1, StepsOfOne
  <2>4. QED
    BY <2>1, <2>2, <2>3, AcrossClose, AcrossKeep
<1>7. ASSUME NEW p \in Process, Start(p) PROVE Across'
  <2>1. Unacked(p) = {} /\ status[p] # "up"
    BY <1>7, ApartEmpty DEF Start, Tidy
  <2>2. Unacked(p)' = {}
    BY <1>7, <2>1, SameHands DEF Start
  <2>3. status'[p] = "up" /\ UNCHANGED <<queue, outcome>>
    BY <1>7 DEF Start, TypeOK
  <2>4. QED
    BY <1>7, <2>1, <2>2, <2>3, StepsOfOne, AcrossKeep
<1>8. CASE (\E w \in Worker, b \in Body : ExpireRetryKey(w, b)) \/ UNCHANGED vars
  <2>1. \A p \in Process : Unacked(p)' = Unacked(p)
    BY <1>8, SameHands DEF ExpireRetryKey, vars
  <2>2. \A w \in Worker, m \in Message : Holders(w, m)' = Holders(w, m)
    BY <1>8, <2>1 DEF Holders, ExpireRetryKey, vars
  <2>3. UNCHANGED <<queue, outcome, status>>
    BY <1>8 DEF ExpireRetryKey, vars
  <2>4. QED
    BY <2>1, <2>2, <2>3 DEF Across
<1>9. QED
  BY <1>1, <1>2, <1>3, <1>4, <1>5, <1>6, <1>7, <1>8 DEF Next, Goroutines

\* What goes out to a process has been routed, and stays so.
LEMMA RoutedNext ==
  ConstantsAssumption /\ TypeOK /\ Tidy /\ Across /\ Routed /\ [Next]_vars => Routed'
<1> SUFFICES ASSUME ConstantsAssumption, TypeOK, Tidy, Across, Routed, [Next]_vars
             PROVE  Routed'
  OBVIOUS
<1> USE DEF broker, history, bounds
<1>0. \A p \in Process : WorkerOf[p] \in Worker
  BY DEF ConstantsAssumption
<1>1. CASE Publish
  <2>1. \A q \in Process : Unacked(q)' = Unacked(q) /\ Unacked(q) \subseteq Message
    BY <1>1, SameHands, UnackedType DEF Publish
  <2>2. published' = published + 1 /\ published \in Nat /\ declared' = declared
    BY <1>1 DEF Publish, TypeOK
  <2>3. \A w \in Worker, m \in Message :
          outcome'[w][m] = IF m = published + 1 /\ w \in declared /\ RoutingKey[m] \in Bound[w]
                           THEN "pending" ELSE outcome[w][m]
    BY <1>1 DEF Publish, TypeOK, Message
  <2>4. \A w \in Worker, m \in Message : published' < m => outcome'[w][m] = "unrouted"
    <3>1. \A m \in Message : published' < m => published < m /\ m # published + 1
      BY <2>2 DEF Message
    <3>2. QED
      BY <2>3, <3>1 DEF Routed
  <2>5. QED
    BY <1>0, <2>1, <2>2, <2>3, <2>4 DEF Routed
<1>2. ASSUME NEW p \in Process, Deliver(p) PROVE Routed'
  <2>1. PICK n \in queue[WorkerOf[p]] : Unacked(p)' = Unacked(p) \cup {n}
    BY <1>2, DeliverMoves
  <2>2. n \in Message /\ outcome[WorkerOf[p]][n] # "unrouted"
    <3>1. n \in Message
      BY <1>0, <2>1 DEF TypeOK
    <3>2. outcome[WorkerOf[p]][n] = "pending"
      BY <1>0, <2>1, <3>1 DEF Across
    <3>3. QED
      BY <3>1, <3>2
  <2>3. \A q \in Process : q # p => Unacked(q)' = Unacked(q)
    BY <1>2, StepsOfOne, ElsewhereSame
  <2>4. UNCHANGED <<published, outcome, declared>>
    BY <1>2 DEF Deliver
  <2>5. QED
    BY <2>1, <2>2, <2>3, <2>4 DEF Routed
<1>3. ASSUME NEW p \in Process, Settle(p) PROVE Routed'
  <2> DEFINE n == Head(inflight[p]).msg
  <2>1. n \in Sent(p) /\ Unacked(p)' \subseteq Unacked(p)
    BY <1>3, SettleMoves
  <2>2. n \in Unacked(p) /\ n \in Message /\ outcome[WorkerOf[p]][n] # "unrouted"
    BY <2>1, UnackedType DEF Unacked, Sent, Routed
  <2>3. \A w \in Worker, m \in Message :
          outcome'[w][m] # "unrouted" <=> outcome[w][m] # "unrouted"
    BY <1>3, <2>2, SettleOutcome
  <2> HIDE DEF n
  <2>4. \A q \in Process : Unacked(q)' \subseteq Unacked(q) /\ Unacked(q) \subseteq Message
    BY <1>3, <2>1, StepsOfOne, ElsewhereSame, UnackedType
  <2>5. UNCHANGED <<published, declared>>
    BY <1>3 DEF Settle
  <2>6. QED
    BY <1>0, <2>3, <2>4, <2>5 DEF Routed
<1>4. ASSUME NEW p \in Process, Goroutines(p) PROVE Routed'
  <2>1. Unacked(p)' \subseteq Unacked(p)
    <3>1. ASSUME NEW g \in Goroutine, Ack(p, g) \/ Nack(p, g) PROVE Unacked(p)' = Unacked(p)
      <4>1. PICK from \in {"handled", "giveUp"}, kind \in {"ack", "nack"}, to \in {"acked", "nacked"} :
              Answer(p, g, from, kind, to)
        BY <3>1 DEF Ack, Nack
      <4>2. QED
        BY <4>1, AnswerMoves
    <3>2. ASSUME NEW g \in Goroutine, Fatal(p, g) PROVE Unacked(p)' \subseteq Unacked(p)
      <4>1. UNCHANGED <<handler, inflight>>
        BY <3>2 DEF Fatal
      <4>2. Contents(prefetched[p])' \subseteq Contents(prefetched[p])
        <5>1. prefetched[p] # <<>> => Head(prefetched[p]) \in Contents(prefetched[p])
          BY TailContents DEF TypeOK
        <5>2. \A e : Contents(<<e>>) = {e} /\ Contents(<<>>) = {}
          BY DEF Contents
        <5>3. \/ prefetched'[p] = <<>>
              \/ prefetched[p] # <<>> /\ prefetched'[p] = <<Head(prefetched[p])>>
          BY <3>2 DEF Fatal, TypeOK
        <5>4. Contents(prefetched[p])' = Contents(prefetched'[p])
          BY DEF Contents
        <5>5. QED
          BY <5>1, <5>2, <5>3, <5>4, ZenonT(40)
      <4>3. \A g2 \in Goroutine : Holding(p, g2)' = Holding(p, g2)
        BY <4>1 DEF Holding
      <4>4. Contents(inflight[p])' = Contents(inflight[p])
        BY <4>1 DEF Contents
      <4>5. QED
        BY <4>2, <4>3, <4>4 DEF Unacked
    <3>3. QED
      BY <1>4, <3>1, <3>2, ReceiveMoves, HandleMoves DEF Goroutines
  <2>2. \A q \in Process : Unacked(q)' \subseteq Unacked(q)
    BY <1>4, <2>1, StepsOfOne, ElsewhereSame
  <2>3. UNCHANGED <<published, outcome, declared>>
    BY <1>4 DEF Goroutines, Receive, Begin, Handle, Ack, Nack, Answer, DelRetryKey, Fatal
  <2>4. QED
    BY <2>2, <2>3, RoutedKeep
<1>5. ASSUME NEW p \in Process, Vanish(p, "down") \/ Vanish(p, "stopped") PROVE Routed'
  <2>1. Unacked(p)' = {}
    <3>1. /\ prefetched'[p] = <<>> /\ inflight'[p] = <<>>
          /\ \A g \in Goroutine : handler'[p][g] = Idle
      BY <1>5 DEF Vanish, TypeOK
    <3>2. Contents(prefetched[p])' = {} /\ Contents(inflight[p])' = {}
      BY <3>1 DEF Contents
    <3>3. \A g \in Goroutine : Holding(p, g)' = {}
      BY <3>1 DEF Holding, Idle
    <3>4. QED
      BY <3>2, <3>3 DEF Unacked
  <2>2. \A q \in Process : Unacked(q)' \subseteq Unacked(q)
    BY <1>5, <2>1, StepsOfOne, ElsewhereSame
  <2>3. UNCHANGED <<published, outcome, declared>>
    BY <1>5 DEF Vanish
  <2>4. QED
    BY <2>2, <2>3, RoutedKeep
<1>6. ASSUME NEW p \in Process, Start(p) PROVE Routed'
  <2>1. \A q \in Process : Unacked(q)' = Unacked(q)
    BY <1>6, SameHands DEF Start
  <2>2. QED
    BY <1>6, <2>1, RoutedKeep DEF Start
<1>7. CASE (\E w \in Worker, b \in Body : ExpireRetryKey(w, b)) \/ UNCHANGED vars
  <2>1. \A q \in Process : Unacked(q)' = Unacked(q)
    BY <1>7, SameHands DEF ExpireRetryKey, vars
  <2>2. QED
    BY <1>7, <2>1, RoutedKeep DEF ExpireRetryKey, vars
<1>8. QED
  BY <1>1, <1>2, <1>3, <1>4, <1>5, <1>6, <1>7 DEF Next, Exit, MainReturns, Crash

LEMMA PlaceInit == ConstantsAssumption /\ Init => PlaceInv
<1> SUFFICES ASSUME ConstantsAssumption, Init PROVE PlaceInv
  OBVIOUS
<1>1. \A p \in Process : ApartIn(p) /\ Unacked(p) = {} /\ status[p] = "down"
  BY ApartEmpty DEF Init
<1>2. \A w \in Worker, m \in Message :
        outcome[w][m] = "unrouted" /\ queue[w] = {} /\ Holders(w, m) = {}
  BY <1>1 DEF Init, Holders
<1>3. Tidy
  BY DEF Init, Tidy
<1>4. \A p \in Process : WorkerOf[p] \in Worker
  BY DEF ConstantsAssumption
<1>5. QED
  BY <1>1, <1>2, <1>3, <1>4 DEF PlaceInv, Apart, Across, Routed

LEMMA PlaceCorrect == Spec => []PlaceInv
<1>1. ConstantsAssumption /\ TypeOK /\ PlaceInv /\ [Next]_vars => PlaceInv'
  BY TidyNext, ApartNext, AcrossNext, RoutedNext DEF PlaceInv
<1>2. QED
  BY <1>1, PlaceInit, TypeCorrect, ConstantsAssumption, PTL DEF Spec

\* A message is never lost or doubled: while the broker awaits an answer it is
\* in the queue of the worker id or with one of its live processes, through
\* fatal handlers, exits, kills and restarts.
THEOREM NeverLostOrDoubled == Spec => []InOnePlace
<1>1. ConstantsAssumption /\ PlaceInv => OnePlace
  <2> SUFFICES ASSUME ConstantsAssumption, PlaceInv, NEW w \in Worker, NEW m \in Message
               PROVE  /\ outcome[w][m] = "pending" <=> (m \in queue[w] \/ Holders(w, m) # {})
                      /\ m \in queue[w] => Holders(w, m) = {}
                      /\ Cardinality(Holders(w, m)) <= 1
    BY DEF OnePlace
  <2>1. \A p, q \in Holders(w, m) : p = q
    BY DEF PlaceInv, Across, Holders
  <2>2. m \in queue[w] => Holders(w, m) = {}
    BY DEF PlaceInv, Across, Holders
  <2>3. Cardinality(Holders(w, m)) <= 1
    <3>1. CASE Holders(w, m) = {}
      BY <3>1, FS_EmptySet
    <3>2. ASSUME NEW p \in Holders(w, m) PROVE Cardinality(Holders(w, m)) <= 1
      <4>1. Holders(w, m) = {p}
        BY <2>1, <3>2
      <4>2. Cardinality({p}) = 1
        BY FS_Singleton
      <4>3. QED
        BY <4>1, <4>2
    <3>3. QED
      BY <3>1, <3>2
  <2>4. QED
    BY <2>2, <2>3 DEF PlaceInv, Across
<1>2. QED
  BY <1>1, PlaceCorrect, TypeCorrect, ConstantsAssumption, PTL DEF InOnePlace

(***************************************************************************)
(* Giving up.  The counter in Redis is compared at every step with what    *)
(* has been tried: the handlers started and the deliveries that were       *)
(* counted without.  It may lag behind, after a kill between two steps or  *)
(* an expiry, but it is never ahead until the tries suffice.               *)
(***************************************************************************)
tried == [w \in Worker |-> [m \in Message |-> attempts[w][m] + unstarted[w][m]]]

LEMMA TriedType ==
  /\ TypeOK => \A w \in Worker, m \in Message : tried[w][m] \in Int
  /\ TypeOK' => \A w \in Worker, m \in Message : tried'[w][m] \in Int
<1>1. TypeOK => \A w \in Worker, m \in Message : attempts[w][m] \in Int /\ unstarted[w][m] \in Int
  BY DEF TypeOK
<1>2. TypeOK' => \A w \in Worker, m \in Message : attempts'[w][m] \in Int /\ unstarted'[w][m] \in Int
  BY DEF TypeOK
<1>3. QED
  BY <1>1, <1>2 DEF tried

LEMMA TriedSame == UNCHANGED <<attempts, unstarted>> => UNCHANGED tried
BY DEF tried

Enough(n, m) == UniqueBody(m) => n + 1 >= MessageRetries

Tries ==
  /\ \A w \in Worker, m \in Message :
       UniqueBody(m) => retries[RetryKey(w, m)] <= tried[w][m] \/ tried[w][m] + 1 >= MessageRetries
  /\ \A p \in Process, g \in Goroutine :
       handler[p][g].pc = "giveUp" => Enough(tried[WorkerOf[p]][handler[p][g].msg], handler[p][g].msg)
  /\ \A p \in Process : \A i \in DOMAIN inflight[p] :
       inflight[p][i].kind = "nack" => Enough(tried[WorkerOf[p]][inflight[p][i].msg], inflight[p][i].msg)
  /\ \A w \in Worker, m \in Message : outcome[w][m] = "dead" => Enough(tried[w][m], m)

\* A step that gives nobody up and lets no counter run ahead.
LEMMA TriesFrame ==
  ASSUME Tries, TypeOK, TypeOK', ConstantsAssumption,
         \A w \in Worker, m \in Message : tried[w][m] <= tried'[w][m],
         \A w \in Worker, m \in Message : UniqueBody(m) =>
           \/ retries'[RetryKey(w, m)] <= retries[RetryKey(w, m)]
           \/ retries'[RetryKey(w, m)] <= tried'[w][m]
           \/ tried'[w][m] + 1 >= MessageRetries,
         \A p \in Process, g \in Goroutine :
           handler'[p][g].pc = "giveUp" =>
             handler'[p][g] = handler[p][g] \/ Enough(tried'[WorkerOf[p]][handler'[p][g].msg], handler'[p][g].msg),
         \A p \in Process : inflight'[p] \in {inflight[p], <<>>},
         \A w \in Worker, m \in Message : outcome'[w][m] = "dead" => outcome[w][m] = "dead"
  PROVE  Tries'
<1>1. MessageRetries \in Nat /\ \A p \in Process : WorkerOf[p] \in Worker
  BY DEF ConstantsAssumption
<1>2. \A w \in Worker, m \in Message :
        /\ tried[w][m] \in Int /\ tried'[w][m] \in Int
        /\ retries[RetryKey(w, m)] \in Nat /\ retries'[RetryKey(w, m)] \in Nat
  BY RetryKeyType, TriedType DEF TypeOK
<1>3. \A w \in Worker, m \in Message : Enough(tried[w][m], m) => Enough(tried'[w][m], m)
  BY <1>1, <1>2 DEF Enough, UniqueBody
<1>4. \A w \in Worker, m \in Message :
        UniqueBody(m) => retries'[RetryKey(w, m)] <= tried'[w][m] \/ tried'[w][m] + 1 >= MessageRetries
  BY <1>1, <1>2 DEF Tries
<1>5. \A p \in Process, g \in Goroutine :
        handler'[p][g].pc = "giveUp" => Enough(tried'[WorkerOf[p]][handler'[p][g].msg], handler'[p][g].msg)
  <2>1. \A p \in Process, g \in Goroutine : handler[p][g].pc = "giveUp" => handler[p][g].msg \in Message
    BY DEF TypeOK, Idle, Busy
  <2>2. QED
    BY <1>1, <1>3, <2>1 DEF Tries
<1>6. \A p \in Process : \A i \in DOMAIN inflight'[p] :
        inflight'[p][i].kind = "nack" => Enough(tried'[WorkerOf[p]][inflight'[p][i].msg], inflight'[p][i].msg)
  <2>1. \A p \in Process : \A i \in DOMAIN inflight[p] : inflight[p][i].msg \in Message
    <3>1. \A p \in Process : \A i \in DOMAIN inflight[p] : inflight[p][i] \in Frame
      BY DEF TypeOK
    <3>2. QED
      BY <3>1 DEF Frame
  <2>2. \A p \in Process : \A i \in DOMAIN inflight'[p] :
          i \in DOMAIN inflight[p] /\ inflight'[p][i] = inflight[p][i]
    OBVIOUS
  <2>3. QED
    BY <1>1, <1>3, <2>1, <2>2 DEF Tries
<1>7. \A w \in Worker, m \in Message : outcome'[w][m] = "dead" => Enough(tried'[w][m], m)
  <2>1. \A w \in Worker, m \in Message : outcome[w][m] = "dead" => Enough(tried[w][m], m)
    BY DEF Tries
  <2>2. QED
    BY <1>3, <2>1
<1>8. QED
  BY <1>4, <1>5, <1>6, <1>7 DEF Tries, Enough, UniqueBody, RetryKey

LEMMA TriesNext ==
  ConstantsAssumption /\ TypeOK /\ Tidy /\ Tries /\ [Next]_vars => Tries'
<1> SUFFICES ASSUME ConstantsAssumption, TypeOK, Tidy, Tries, [Next]_vars PROVE Tries'
  OBVIOUS
<1> USE DEF broker, history, bounds
<1>0. TypeOK'
  BY TypeNext
<1>a. /\ MessageRetries \in Nat /\ \A p \in Process : WorkerOf[p] \in Worker
      /\ \A w \in Worker, m \in Message : RetryKey(w, m) \in Worker \X Body
  BY RetryKeyType DEF ConstantsAssumption
<1>b. \A w \in Worker, m \in Message :
        /\ tried[w][m] \in Int /\ retries[RetryKey(w, m)] \in Nat
        /\ tried'[w][m] \in Int /\ retries'[RetryKey(w, m)] \in Nat
  BY <1>0, <1>a, TriedType DEF TypeOK
<1>1. ASSUME UNCHANGED <<attempts, unstarted, retries, handler, inflight>>,
             \A w \in Worker, m \in Message : outcome'[w][m] = "dead" => outcome[w][m] = "dead"
      PROVE  Tries'
  BY <1>0, <1>1, <1>b, TriedSame, TriesFrame
<1>2. CASE Publish
  BY <1>1, <1>2 DEF Publish, TypeOK
<1>3. ASSUME NEW p \in Process, Deliver(p) PROVE Tries'
  BY <1>1, <1>3 DEF Deliver
<1>4. ASSUME NEW p \in Process, Settle(p) PROVE Tries'
  <2> DEFINE f == Head(inflight[p])
  <2>1. inflight[p] \in Seq(Frame) /\ inflight[p] # <<>>
    BY <1>4 DEF Settle, TypeOK
  <2>2. f = inflight[p][1] /\ 1 \in DOMAIN inflight[p]
    BY <2>1
  <2>3. f.kind = "nack" => Enough(tried[WorkerOf[p]][f.msg], f.msg)
    BY <2>2 DEF Tries
  <2>4. \A q \in Process : \A i \in DOMAIN inflight'[q] :
          \E j \in DOMAIN inflight[q] : inflight'[q][i] = inflight[q][j]
    <3>1. \A i \in DOMAIN Tail(inflight[p]) :
            i + 1 \in DOMAIN inflight[p] /\ Tail(inflight[p])[i] = inflight[p][i + 1]
      BY <2>1
    <3>2. QED
      BY <1>4, <3>1 DEF Settle, TypeOK
  <2>5. UNCHANGED <<tried, retries, handler>>
    BY <1>4, TriedSame DEF Settle
  <2>6. \A w \in Worker, m \in Message : outcome'[w][m] = "dead" =>
          \/ outcome[w][m] = "dead"
          \/ w = WorkerOf[p] /\ m = f.msg /\ f.kind = "nack"
    BY <1>4, SettleOutcome DEF Frame
  <2> HIDE DEF f
  <2>7. \A w \in Worker, m \in Message : outcome'[w][m] = "dead" => Enough(tried[w][m], m)
    BY <2>3, <2>6 DEF Tries
  <2>8. \A q \in Process : \A i \in DOMAIN inflight'[q] :
          inflight'[q][i].kind = "nack" => Enough(tried[WorkerOf[q]][inflight'[q][i].msg], inflight'[q][i].msg)
    BY <2>4 DEF Tries
  <2>9. QED
    BY <2>5, <2>7, <2>8 DEF Tries, UniqueBody, RetryKey, Enough
<1>5. ASSUME NEW p \in Process, NEW g \in Goroutine, Receive(p, g) PROVE Tries'
  <2> DEFINE w0 == WorkerOf[p]
             n == Head(prefetched[p])
             c == retries[RetryKey(w0, n)] + 1
  <2>1. w0 \in Worker /\ n \in Message
    BY <1>5, <1>a, HeadTailTypes DEF Receive, TypeOK
  <2>2. /\ retries' = IF DeadLetterEnabled THEN [retries EXCEPT ![RetryKey(w0, n)] = c] ELSE retries
        /\ handler' = [handler EXCEPT ![p][g] =
                         [pc |-> IF Exhausted(c) THEN "giveUp" ELSE "counted", msg |-> n]]
        /\ unstarted' = IF Exhausted(c) THEN unstarted ELSE [unstarted EXCEPT ![w0][n] = @ + 1]
        /\ UNCHANGED <<attempts, inflight, outcome>>
    BY <1>5 DEF Receive
  <2>3. c \in Nat /\ tried[w0][n] \in Int
    BY <1>b, <2>1
  <2>4. \A w \in Worker, m \in Message :
          tried'[w][m] = IF ~Exhausted(c) /\ w = w0 /\ m = n THEN tried[w][m] + 1 ELSE tried[w][m]
    <3> HIDE DEF c
    <3>1. \A w \in Worker, m \in Message : attempts[w][m] \in Nat /\ unstarted[w][m] \in Int
      BY DEF TypeOK
    <3>2. \A w \in Worker, m \in Message :
            unstarted'[w][m] = IF ~Exhausted(c) /\ w = w0 /\ m = n
                               THEN unstarted[w][m] + 1 ELSE unstarted[w][m]
      BY <2>1, <2>2 DEF TypeOK
    <3>3. QED
      BY <2>2, <3>1, <3>2 DEF tried
  <2>5. \A w \in Worker, m \in Message : RetryKey(w, m) = RetryKey(w0, n) <=> w = w0 /\ BodyOf[m] = BodyOf[n]
    BY DEF RetryKey
  <2>6. \A k \in Worker \X Body : k # RetryKey(w0, n) => retries'[k] = retries[k]
    BY <2>2 DEF TypeOK
  <2>7. retries'[RetryKey(w0, n)] = retries[RetryKey(w0, n)] \/ retries'[RetryKey(w0, n)] = c
    <3>1. RetryKey(w0, n) \in Worker \X Body
      BY <1>a, <2>1
    <3> HIDE DEF c
    <3>2. QED
      BY <2>2, <3>1 DEF TypeOK
  <2>8. CASE Exhausted(c)
    <3>1. c >= MessageRetries
      BY <2>8 DEF Exhausted
    <3>2. UniqueBody(n) => retries[RetryKey(w0, n)] <= tried[w0][n] \/ tried[w0][n] + 1 >= MessageRetries
      BY <2>1 DEF Tries
    <3>3. UniqueBody(n) => tried[w0][n] + 1 >= MessageRetries
      BY <1>a, <1>b, <2>1, <2>3, <3>1, <3>2
    <3>4. tried' = tried
      BY <2>2, <2>8, TriedSame
    <3>5. \A w \in Worker, m \in Message : UniqueBody(m) =>
            retries'[RetryKey(w, m)] <= retries[RetryKey(w, m)] \/ tried'[w][m] + 1 >= MessageRetries
      <4> SUFFICES ASSUME NEW w \in Worker, NEW m \in Message, UniqueBody(m)
                   PROVE  retries'[RetryKey(w, m)] <= retries[RetryKey(w, m)] \/ tried'[w][m] + 1 >= MessageRetries
        OBVIOUS
      <4>1. CASE RetryKey(w, m) = RetryKey(w0, n)
        <5>1. w = w0 /\ m = n
          BY <2>1, <2>5, <4>1 DEF UniqueBody
        <5>2. QED
          BY <3>3, <3>4, <5>1
      <4>2. CASE RetryKey(w, m) # RetryKey(w0, n)
        BY <1>a, <1>b, <2>6, <4>2
      <4>3. QED
        BY <4>1, <4>2
    <3>6. \A q \in Process, h \in Goroutine : handler'[q][h] # handler[q][h] =>
            q = p /\ handler'[q][h].msg = n
      BY <2>2 DEF TypeOK
    <3>7. \A q \in Process, h \in Goroutine : handler'[q][h].pc = "giveUp" =>
            handler'[q][h] = handler[q][h] \/ Enough(tried'[WorkerOf[q]][handler'[q][h].msg], handler'[q][h].msg)
      BY <3>3, <3>4, <3>6 DEF Enough
    <3>8. \A w \in Worker, m \in Message : tried[w][m] <= tried'[w][m]
      BY <1>b, <3>4
    <3>9. \A q \in Process : inflight'[q] \in {inflight[q], <<>>}
      BY <2>2
    <3>10. \A w \in Worker, m \in Message : outcome'[w][m] = "dead" => outcome[w][m] = "dead"
      BY <2>2
    <3>11. \A w \in Worker, m \in Message : UniqueBody(m) =>
             \/ retries'[RetryKey(w, m)] <= retries[RetryKey(w, m)]
             \/ retries'[RetryKey(w, m)] <= tried'[w][m]
             \/ tried'[w][m] + 1 >= MessageRetries
      BY <3>5, Zenon
    <3>12. QED
      BY <1>0, <1>b, <3>7, <3>8, <3>9, <3>10, <3>11, TriesFrame, ZenonT(40)
  <2>9. CASE ~Exhausted(c)
    <3>1. tried'[w0][n] = tried[w0][n] + 1
      BY <2>1, <2>4, <2>9
    <3>2. UniqueBody(n) => retries[RetryKey(w0, n)] <= tried[w0][n] \/ tried[w0][n] + 1 >= MessageRetries
      BY <2>1 DEF Tries
    <3>3. UniqueBody(n) => retries'[RetryKey(w0, n)] <= tried'[w0][n] \/ tried'[w0][n] + 1 >= MessageRetries
      BY <1>a, <1>b, <2>1, <2>3, <2>7, <3>1, <3>2
    <3>4. \A w \in Worker, m \in Message : tried[w][m] <= tried'[w][m]
      BY <1>b, <2>4
    <3>5. \A w \in Worker, m \in Message : UniqueBody(m) =>
            \/ retries'[RetryKey(w, m)] <= retries[RetryKey(w, m)]
            \/ retries'[RetryKey(w, m)] <= tried'[w][m]
            \/ tried'[w][m] + 1 >= MessageRetries
      <4> SUFFICES ASSUME NEW w \in Worker, NEW m \in Message, UniqueBody(m)
                   PROVE  \/ retries'[RetryKey(w, m)] <= retries[RetryKey(w, m)]
                          \/ retries'[RetryKey(w, m)] <= tried'[w][m]
                          \/ tried'[w][m] + 1 >= MessageRetries
        OBVIOUS
      <4>1. CASE RetryKey(w, m) = RetryKey(w0, n)
        <5>1. w = w0 /\ m = n
          BY <2>1, <2>5, <4>1 DEF UniqueBody
        <5>2. QED
          BY <3>3, <5>1
      <4>2. CASE RetryKey(w, m) # RetryKey(w0, n)
        BY <1>a, <1>b, <2>6, <4>2
      <4>3. QED
        BY <4>1, <4>2
    <3>6. \A q \in Process, h \in Goroutine : handler'[q][h].pc = "giveUp" => handler'[q][h] = handler[q][h]
      BY <2>2, <2>9 DEF TypeOK
    <3>7. QED
      BY <1>0, <2>2, <3>4, <3>5, <3>6, TriesFrame
  <2>10. QED
    BY <2>8, <2>9
<1>6. ASSUME NEW p \in Process, NEW g \in Goroutine, Begin(p, g) \/ Handle(p, g) PROVE Tries'
  <2>1. \A q \in Process, h \in Goroutine : handler'[q][h].pc = "giveUp" => handler'[q][h] = handler[q][h]
    <3>1. PICK pc \in {"running", "handled"} : MoveTo(p, g, pc)
      BY <1>6 DEF Begin, Handle
    <3>2. QED
      BY <3>1 DEF MoveTo, TypeOK
  <2>2. UNCHANGED <<tried, retries, inflight, outcome>>
    <3>1. CASE Begin(p, g)
      <4> DEFINE w == WorkerOf[p]
                 m == handler[p][g].msg
      <4>1. w \in Worker /\ m \in Message
        BY <1>a, <3>1 DEF Begin, TypeOK, Idle, Busy
      <4>2. /\ unstarted' = [unstarted EXCEPT ![w][m] = @ - 1]
            /\ attempts' = [attempts EXCEPT ![w][m] = @ + 1]
            /\ UNCHANGED <<retries, inflight, outcome>>
        BY <3>1 DEF Begin
      <4> HIDE DEF w, m
      <4>3. \A v \in Worker, n \in Message : attempts[v][n] \in Nat /\ unstarted[v][n] \in Int
        BY DEF TypeOK
      <4>4. \A v \in Worker, n \in Message :
              attempts'[v][n] + unstarted'[v][n] = attempts[v][n] + unstarted[v][n]
        BY <4>1, <4>2, <4>3 DEF TypeOK
      <4>5. QED
        BY <4>2, <4>4 DEF tried
    <3>2. CASE Handle(p, g)
      BY <3>2, TriedSame DEF Handle
    <3>3. QED
      BY <1>6, <3>1, <3>2
  <2>3. QED
    BY <1>0, <1>b, <2>1, <2>2, TriesFrame
<1>7. ASSUME NEW p \in Process, NEW g \in Goroutine, Ack(p, g) \/ Nack(p, g) PROVE Tries'
  <2> DEFINE m == handler[p][g].msg
  <2>1. PICK kind \in {"ack", "nack"} :
          /\ kind = "nack" => handler[p][g].pc = "giveUp"
          /\ Writes(p, kind, m)
          /\ MoveTo(p, g, IF kind = "ack" THEN "acked" ELSE "nacked")
          /\ UNCHANGED <<tried, retries, outcome>>
    BY <1>7, TriedSame DEF Ack, Nack, Answer
  <2>2. kind = "nack" => Enough(tried[WorkerOf[p]][m], m)
    BY <2>1 DEF Tries
  <2>3. \A q \in Process : \A i \in DOMAIN inflight'[q] :
          \/ i \in DOMAIN inflight[q] /\ inflight'[q][i] = inflight[q][i]
          \/ q = p /\ inflight'[q][i] = [kind |-> kind, msg |-> m]
    <3> DEFINE e == [kind |-> kind, msg |-> m]
    <3>1. inflight[p] \in Seq(Frame)
      BY DEF TypeOK
    <3>2. inflight' = [inflight EXCEPT ![p] = Append(inflight[p], e)]
      BY <2>1 DEF Writes
    <3>3. \A q \in Process : inflight'[q] = IF q = p THEN Append(inflight[p], e) ELSE inflight[q]
      BY <3>2 DEF TypeOK
    <3> HIDE DEF e
    <3>4. \A i \in DOMAIN Append(inflight[p], e) :
            \/ i \in DOMAIN inflight[p] /\ Append(inflight[p], e)[i] = inflight[p][i]
            \/ Append(inflight[p], e)[i] = e
      BY <3>1, AppendElements
    <3>5. QED
      BY <3>3, <3>4 DEF e
  <2>4. \A q \in Process, h \in Goroutine : handler'[q][h].pc = "giveUp" => handler'[q][h] = handler[q][h]
    BY <2>1 DEF MoveTo, TypeOK
  <2>5. \A q \in Process : \A i \in DOMAIN inflight'[q] :
          inflight'[q][i].kind = "nack" => Enough(tried[WorkerOf[q]][inflight'[q][i].msg], inflight'[q][i].msg)
    <3> SUFFICES ASSUME NEW q \in Process, NEW i \in DOMAIN inflight'[q], inflight'[q][i].kind = "nack"
                 PROVE  Enough(tried[WorkerOf[q]][inflight'[q][i].msg], inflight'[q][i].msg)
      OBVIOUS
    <3> HIDE DEF m
    <3>1. CASE i \in DOMAIN inflight[q] /\ inflight'[q][i] = inflight[q][i]
      BY <3>1 DEF Tries
    <3>2. CASE q = p /\ inflight'[q][i] = [kind |-> kind, msg |-> m]
      BY <2>2, <3>2
    <3>3. QED
      BY <2>3, <3>1, <3>2
  <2>6. QED
    BY <2>1, <2>4, <2>5, SMTT(30) DEF Tries, UniqueBody, RetryKey, Enough
<1>8. ASSUME NEW p \in Process, NEW g \in Goroutine, DelRetryKey(p, g) PROVE Tries'
  <2>1. \A q \in Process, h \in Goroutine : handler'[q][h].pc = "giveUp" => handler'[q][h] = handler[q][h]
    BY <1>8 DEF DelRetryKey, TypeOK, Idle
  <2>2. UNCHANGED <<tried, inflight, outcome>>
    BY <1>8, TriedSame DEF DelRetryKey
  <2>3. \A w \in Worker, m \in Message : retries'[RetryKey(w, m)] <= retries[RetryKey(w, m)]
    <3>1. PICK k0 : retries' = retries \/ retries' = [retries EXCEPT ![k0] = 0]
      BY <1>8 DEF DelRetryKey, Del
    <3>2. \A k \in Worker \X Body : retries'[k] = retries[k] \/ retries'[k] = 0
      BY <3>1 DEF TypeOK
    <3>3. \A w \in Worker, m \in Message :
            retries'[RetryKey(w, m)] = retries[RetryKey(w, m)] \/ retries'[RetryKey(w, m)] = 0
      BY <1>a, <3>2
    <3>4. QED
      BY <1>b, <3>3
  <2>4. QED
    BY <1>0, <1>b, <2>1, <2>2, <2>3, TriesFrame
<1>9. ASSUME NEW p \in Process, NEW g \in Goroutine, Fatal(p, g) PROVE Tries'
  BY <1>1, <1>9 DEF Fatal
<1>10. ASSUME NEW p \in Process, NEW s \in {"down", "stopped"}, Vanish(p, s) PROVE Tries'
  <2>1. \A q \in Process, h \in Goroutine : handler'[q][h].pc = "giveUp" => handler'[q][h] = handler[q][h]
    BY <1>10 DEF Vanish, TypeOK, Idle
  <2>2. \A q \in Process : inflight'[q] \in {inflight[q], <<>>}
    BY <1>10 DEF Vanish, TypeOK
  <2>3. UNCHANGED <<tried, retries, outcome>>
    BY <1>10, TriedSame DEF Vanish
  <2>4. QED
    BY <1>0, <1>b, <2>1, <2>2, <2>3, TriesFrame
<1>11. ASSUME NEW p \in Process, Start(p) PROVE Tries'
  BY <1>1, <1>11 DEF Start
<1>12. ASSUME NEW w0 \in Worker, NEW b \in Body, ExpireRetryKey(w0, b) PROVE Tries'
  <2>1. retries' = [retries EXCEPT ![<<w0, b>>] = 0] /\ UNCHANGED <<tried, handler, inflight, outcome>>
    BY <1>12, TriedSame DEF ExpireRetryKey
  <2>2. \A k \in Worker \X Body : retries'[k] = retries[k] \/ retries'[k] = 0
    BY <2>1 DEF TypeOK
  <2>3. \A w \in Worker, m \in Message : retries'[RetryKey(w, m)] <= retries[RetryKey(w, m)]
    <3>1. \A w \in Worker, m \in Message :
            retries'[RetryKey(w, m)] = retries[RetryKey(w, m)] \/ retries'[RetryKey(w, m)] = 0
      BY <1>a, <2>2
    <3>2. QED
      BY <1>b, <3>1
  <2>4. QED
    BY <1>0, <1>b, <2>1, <2>3, TriesFrame
<1>13. CASE UNCHANGED vars
  BY <1>1, <1>13 DEF vars
<1>14. QED
  BY <1>2, <1>3, <1>4, <1>5, <1>6, <1>7, <1>8, <1>9, <1>10, <1>11, <1>12, <1>13
     DEF Next, Goroutines, Exit, MainReturns, Crash

LEMMA TriesCorrect == Spec => []Tries
<1>1. ConstantsAssumption /\ Init => Tries
  <2> SUFFICES ASSUME ConstantsAssumption, Init PROVE Tries
    OBVIOUS
  <2>1. \A w \in Worker, m \in Message : retries[RetryKey(w, m)] = 0 /\ tried[w][m] = 0
    BY RetryKeyType DEF Init, tried
  <2>2. \A p \in Process : /\ inflight[p] = <<>>
                           /\ \A g \in Goroutine : handler[p][g].pc = "idle"
    BY DEF Init, Idle
  <2>3. \A w \in Worker, m \in Message : outcome[w][m] = "unrouted"
    BY DEF Init
  <2>4. QED
    BY <2>1, <2>2, <2>3 DEF Tries
<1>2. QED
  BY <1>1, TriesNext, PlaceCorrect, TypeCorrect, ConstantsAssumption, PTL DEF Spec, PlaceInv

\* What is nacked was in the queue of an exact topic only if its .dead queue
\* is bound, and no step takes a copy out of a .dead queue.
LEMMA DeadLettersNext ==
  ConstantsAssumption /\ TypeOK /\ Tidy /\ Routed /\ DeadLettersKept /\ [Next]_vars
    => DeadLettersKept'
<1> SUFFICES ASSUME ConstantsAssumption, TypeOK, Tidy, Routed, DeadLettersKept, [Next]_vars
             PROVE  DeadLettersKept'
  OBVIOUS
<1> USE DEF broker, history, bounds
<1>0. Exact \subseteq Worker
  BY DEF ConstantsAssumption
<1>1. CASE Publish
  <2>1. \A w \in Worker, m \in Message : outcome'[w][m] = "dead" => outcome[w][m] = "dead"
    BY <1>1 DEF Publish, TypeOK
  <2>2. QED
    BY <1>0, <1>1, <2>1 DEF Publish, DeadLettersKept
<1>2. ASSUME NEW p \in Process, Settle(p) PROVE DeadLettersKept'
  <2> DEFINE f == Head(inflight[p])
             w0 == WorkerOf[p]
  <2>1. /\ f \in Frame /\ w0 \in Worker
        /\ \A w \in Worker, m \in Message :
             outcome'[w][m] = IF w = w0 /\ m = f.msg
                              THEN (IF f.kind = "ack" THEN "acked" ELSE "dead")
                              ELSE outcome[w][m]
    BY <1>2, SettleOutcome
  <2>2. f.msg \in Message
    BY <2>1 DEF Frame
  <2>3. \A v \in Worker, m \in Message :
          deadQueue'[v][m] = IF m = f.msg /\ f.kind # "ack" /\ v \in DeadQueuesFor(m)
                             THEN deadQueue[v][m] + 1 ELSE deadQueue[v][m]
    BY <1>2, <2>2 DEF Settle, TypeOK
  <2>4. w0 \in Exact => w0 \in DeadQueuesFor(f.msg)
    <3>1. f.msg \in Unacked(p)
      BY <1>2, SettleMoves DEF Unacked, Sent
    <3>2. QED
      BY <2>1, <2>2, <3>1 DEF Routed, DeadQueuesFor
  <2> HIDE DEF f
  <2>5. ASSUME NEW w \in Exact, NEW m \in Message, outcome'[w][m] = "dead" PROVE deadQueue'[w][m] > 0
    <3>1. deadQueue[w][m] \in Nat
      BY <1>0 DEF TypeOK
    <3>2. CASE w = w0 /\ m = f.msg
      BY <1>0, <2>1, <2>3, <2>4, <2>5, <3>1, <3>2
    <3>3. CASE ~(w = w0 /\ m = f.msg)
      <4>1. deadQueue[w][m] > 0
        BY <1>0, <2>1, <2>5, <3>3 DEF DeadLettersKept
      <4>2. QED
        BY <1>0, <2>3, <3>1, <4>1
    <3>4. QED
      BY <3>2, <3>3
  <2>6. QED
    BY <2>5 DEF DeadLettersKept
<1>3. CASE UNCHANGED <<outcome, deadQueue>>
  BY <1>3 DEF DeadLettersKept
<1>4. ASSUME NEW p \in Process, Deliver(p) PROVE UNCHANGED <<outcome, deadQueue>>
  BY <1>4 DEF Deliver
<1>5. ASSUME NEW p \in Process, Goroutines(p) PROVE UNCHANGED <<outcome, deadQueue>>
  BY <1>5 DEF Goroutines, Receive, Begin, Handle, Ack, Nack, Answer, DelRetryKey, Fatal
<1>6. ASSUME NEW p \in Process, Exit(p) \/ MainReturns(p) \/ Crash(p) \/ Start(p)
      PROVE  UNCHANGED <<outcome, deadQueue>>
  BY <1>6 DEF Exit, MainReturns, Crash, Start, Vanish
<1>7. ASSUME NEW w \in Worker, NEW b \in Body, ExpireRetryKey(w, b)
      PROVE  UNCHANGED <<outcome, deadQueue>>
  BY <1>7 DEF ExpireRetryKey
<1>8. CASE UNCHANGED vars
  BY <1>3, <1>8 DEF vars
<1>9. QED
  BY <1>1, <1>2, <1>3, <1>4, <1>5, <1>6, <1>7, <1>8 DEF Next

\* The broker settles a message only for cause: its handler has returned, or
\* MessageRetries - 1 earlier deliveries of it were counted, by whatever
\* processes, each with its handler started but where a process ended, or is
\* about to, between the count and the call (queue.go:154, 181), and a worker
\* id with an exact topic has the message in its .dead queue.
THEOREM SettledOnlyForCause == Spec => []SettledForCause
<1>1. Init => DeadLettersKept
  BY ConstantsAssumption DEF Init, DeadLettersKept, ConstantsAssumption
<1>2. Spec => []DeadLettersKept
  BY <1>1, DeadLettersNext, PlaceCorrect, TypeCorrect, ConstantsAssumption, PTL
     DEF Spec, PlaceInv
<1>3. Tries => DeadOnlyAfterAttempts
  BY DEF Tries, Enough, tried, DeadOnlyAfterAttempts
<1>4. QED
  BY <1>2, <1>3, AckedMeansHandled, TriesCorrect, PTL DEF SettledForCause

(***************************************************************************)
(* The library implements at-least-once delivery.                          *)
(***************************************************************************)
\* Every step is one of the contract or leaves what it speaks of alone.
LEMMA ContractStep ==
  ConstantsAssumption /\ TypeOK /\ PlaceInv /\ AckPath /\ [Next]_vars
    => [Contract!Next]_(Contract!vars)
<1> SUFFICES ASSUME ConstantsAssumption, TypeOK, PlaceInv, AckPath, [Next]_vars
             PROVE  [Contract!Next]_(Contract!vars)
  OBVIOUS
<1> USE DEF broker, history, bounds, Contract!vars
<1>0. Contract!Message = Message
  BY DEF Contract!Message, Message
<1>1. CASE Publish
  <2> DEFINE n == published + 1
             W == {w \in declared : RoutingKey[n] \in Bound[w]}
  <2>1. n \in Message /\ \A w \in Worker : outcome[w][n] = "unrouted"
    BY <1>1 DEF Publish, Message, TypeOK, ConstantsAssumption, PlaceInv, Routed
  <2>2. W \in SUBSET Worker
    BY DEF TypeOK
  <2>3. Contract!Route(n, W)
    BY <1>1, <2>1 DEF Publish, Contract!Route
  <2>4. QED
    BY <1>0, <2>1, <2>2, <2>3 DEF Contract!Next
<1>2. ASSUME NEW p \in Process, Settle(p) PROVE Contract!Next
  <2> DEFINE f == Head(inflight[p])
             w == WorkerOf[p]
  <2>1. f \in Frame /\ w \in Worker /\ status[p] = "up"
    BY <1>2, SettleOutcome DEF PlaceInv
  <2>2. f.msg \in Message /\ f.msg \in Unacked(p)
    BY <1>2, <2>1, SettleMoves DEF Unacked, Sent, Frame
  <2>3. outcome[w][f.msg] = "pending"
    BY <2>1, <2>2 DEF PlaceInv, Across, Holders
  <2>4. f.kind = "ack" => f.msg \in completed[w]
    <3>1. inflight[p] \in Seq(Frame) /\ inflight[p] # <<>>
      BY <1>2 DEF Settle, TypeOK
    <3>2. f = inflight[p][1] /\ 1 \in DOMAIN inflight[p]
      BY <3>1
    <3>3. QED
      BY <3>2 DEF AckPath
  <2>5. /\ outcome' = [outcome EXCEPT ![w][f.msg] = IF f.kind = "ack" THEN "acked" ELSE "dead"]
        /\ UNCHANGED completed
    BY <1>2 DEF Settle
  <2> HIDE DEF f, w
  <2>6. CASE f.kind = "ack"
    <3>1. Contract!Acknowledge(w, f.msg)
      BY <2>3, <2>4, <2>5, <2>6 DEF Contract!Acknowledge
    <3>2. QED
      BY <1>0, <2>1, <2>2, <3>1 DEF Contract!Next
  <2>7. CASE f.kind # "ack"
    <3>1. Contract!GiveUp(w, f.msg)
      BY <2>3, <2>5, <2>7 DEF Contract!GiveUp
    <3>2. QED
      BY <1>0, <2>1, <2>2, <3>1 DEF Contract!Next
  <2>8. QED
    BY <2>6, <2>7
<1>3. ASSUME NEW p \in Process, NEW g \in Goroutine, Handle(p, g) PROVE Contract!Next
  <2> DEFINE m == handler[p][g].msg
             w == WorkerOf[p]
  <2>1. handler[p][g].pc = "running" /\ w \in Worker
    BY <1>3 DEF Handle, ConstantsAssumption
  <2>2. m \in Message
    BY <2>1 DEF TypeOK, Idle, Busy
  <2>3. m \in Unacked(p)
    BY <2>1 DEF Unacked, Holding
  <2>4. outcome[w][m] # "unrouted"
    BY <2>3 DEF PlaceInv, Routed
  <2>5. Contract!Complete(w, m)
    BY <1>3, <2>4 DEF Handle, Contract!Complete
  <2>6. QED
    BY <1>0, <2>1, <2>2, <2>5 DEF Contract!Next
<1>4. ASSUME NEW p \in Process, Deliver(p) PROVE UNCHANGED <<outcome, completed>>
  BY <1>4 DEF Deliver
<1>5. ASSUME NEW p \in Process, NEW g \in Goroutine,
             \/ Receive(p, g) \/ Begin(p, g) \/ Fatal(p, g)
             \/ Ack(p, g) \/ Nack(p, g) \/ DelRetryKey(p, g)
      PROVE  UNCHANGED <<outcome, completed>>
  BY <1>5 DEF Receive, Begin, Ack, Nack, Answer, DelRetryKey, Fatal
<1>6. ASSUME NEW p \in Process, Exit(p) \/ MainReturns(p) \/ Crash(p) \/ Start(p)
      PROVE  UNCHANGED <<outcome, completed>>
  BY <1>6 DEF Exit, MainReturns, Crash, Start, Vanish
<1>7. ASSUME NEW w \in Worker, NEW b \in Body, ExpireRetryKey(w, b)
      PROVE  UNCHANGED <<outcome, completed>>
  BY <1>7 DEF ExpireRetryKey
<1>8. CASE UNCHANGED vars
  BY <1>8 DEF vars
<1>9. QED
  BY <1>1, <1>2, <1>3, <1>4, <1>5, <1>6, <1>7, <1>8 DEF Next, Goroutines

\* GetMessages and SendMessage implement the at-least-once delivery their
\* callers rely on: a routed message stays pending until its handler has
\* returned and it is acknowledged, or until it is given up.
THEOREM ImplementsAtLeastOnce == Spec => ContractSpec
<1>1. Init => Contract!Init
  BY DEF Init, Contract!Init, Message, Contract!Message
<1>2. QED
  BY <1>1, ContractStep, TypeCorrect, PlaceCorrect, AckPathCorrect, ConstantsAssumption, PTL
     DEF Spec, ContractSpec, Contract!Spec
=============================================================================
