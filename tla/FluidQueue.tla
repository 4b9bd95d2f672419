----------------------------- MODULE FluidQueue -----------------------------
(***************************************************************************)
(* lib/queue and lib/log: one AMQP topic, the worker ids that consume it,  *)
(* the processes (service instances) of each worker id and the goroutines  *)
(* of each process that run the handler; the Redis retry counter, the dead *)
(* letter exchange, and what log.Fatal and a crash do to the messages a    *)
(* process holds.                                                          *)
(***************************************************************************)
EXTENDS Integers, Sequences, FiniteSets

CONSTANTS
  Worker,             \* worker ids: each has one durable queue for the topic
  Process,            \* service instances
  WorkerOf,           \* the worker id (FLU_WORKER_ID) of each process
  Goroutine,          \* FLU_AMQP_GOROUTINES_PER_QUEUE, as a set
  NMessages,          \* bound: how many messages are ever published
  Key, RoutingKey,    \* the routing key each message is published with
  Bound,              \* the routing keys the topic of a worker id matches
  Exact,              \* the worker ids whose topic is a key, not a pattern
  Body, BodyOf,       \* message bodies: what the retry key is a hash of
  Poison,             \* the bodies every handler fails on (log.Fatal)
  DeadLetterEnabled,  \* FLU_AMQP_QUEUE_DEAD_LETTER_ENABLED # "false"
  MessageRetries,     \* FLU_AMQP_QUEUE_MESSAGE_RETRIES
  RestartAlways,      \* the supervisor restarts a process that exits with 0
  MaxCrashes,         \* bound: kills of a process from outside
  MaxExpiries         \* bound: retry keys lost to their 24 hour expiry

Message == 1..NMessages
NoMessage == 0

ASSUME ConstantsAssumption ==
  /\ NMessages \in Nat
  /\ WorkerOf \in [Process -> Worker]
  /\ RoutingKey \in [Message -> Key]
  /\ Bound \in [Worker -> SUBSET Key]
  /\ Exact \subseteq Worker
  /\ BodyOf \in [Message -> Body]
  /\ Poison \subseteq Body
  /\ DeadLetterEnabled \in BOOLEAN
  /\ RestartAlways \in BOOLEAN
  /\ MessageRetries \in Nat
  /\ MaxCrashes \in Nat /\ MaxExpiries \in Nat

VARIABLES
  declared,    \* worker ids whose queue exists at the broker
  published,   \* number of messages published so far
  queue,       \* per worker id, the messages ready for delivery
  prefetched,  \* per process, delivered messages no goroutine has taken
  handler,     \* per process and goroutine, the message in hand and the step
  inflight,    \* per process, acks and nacks the broker has not seen yet
  retries,     \* Redis: the retry counter of each worker id and body
  deadQueue,   \* per worker id, copies of each message in its .dead queue
  outcome,     \* per worker id, what became of each message
  status,      \* per process: up, dying (log.Fatal), down, stopped (exit 0)
  completed,   \* history: messages whose handler has returned
  attempts,    \* history: how often the handler was started
  unstarted,   \* history: deliveries counted in Redis without a handler started
  crashes, expiries

broker == <<declared, published, queue, deadQueue, outcome>>
history == <<completed, attempts, unstarted>>
bounds == <<crashes, expiries>>
vars == <<broker, prefetched, handler, inflight, retries, status, history, bounds>>

Idle == [pc |-> "idle", msg |-> NoMessage]
Busy == [pc : {"counted", "running", "handled", "giveUp", "acked", "nacked"}, msg : Message]
Frame == [kind : {"ack", "nack"}, msg : Message]

TypeOK ==
  /\ declared \subseteq Worker
  /\ published \in 0..NMessages
  /\ queue \in [Worker -> SUBSET Message]
  /\ prefetched \in [Process -> Seq(Message)]
  /\ handler \in [Process -> [Goroutine -> {Idle} \cup Busy]]
  /\ inflight \in [Process -> Seq(Frame)]
  /\ retries \in [Worker \X Body -> Nat]
  /\ deadQueue \in [Worker -> [Message -> Nat]]
  /\ outcome \in [Worker -> [Message -> {"unrouted", "pending", "acked", "dead"}]]
  /\ status \in [Process -> {"up", "dying", "down", "stopped"}]
  /\ completed \in [Worker -> SUBSET Message]
  /\ attempts \in [Worker -> [Message -> Nat]]
  /\ unstarted \in [Worker -> [Message -> Int]]
  /\ crashes \in 0..MaxCrashes /\ expiries \in 0..MaxExpiries

Init ==
  /\ declared = {} /\ published = 0
  /\ queue = [w \in Worker |-> {}]
  /\ prefetched = [p \in Process |-> <<>>]
  /\ handler = [p \in Process |-> [g \in Goroutine |-> Idle]]
  /\ inflight = [p \in Process |-> <<>>]
  /\ retries = [k \in Worker \X Body |-> 0]
  /\ deadQueue = [w \in Worker |-> [m \in Message |-> 0]]
  /\ outcome = [w \in Worker |-> [m \in Message |-> "unrouted"]]
  /\ status = [p \in Process |-> "down"]
  /\ completed = [w \in Worker |-> {}]
  /\ attempts = [w \in Worker |-> [m \in Message |-> 0]]
  /\ unstarted = [w \in Worker |-> [m \in Message |-> 0]]
  /\ crashes = 0 /\ expiries = 0

-----------------------------------------------------------------------------
(* Helpers.                                                                *)

Contents(s) == {s[i] : i \in DOMAIN s}

\* What goroutine g of p holds and has not answered.
Holding(p, g) ==
  IF handler[p][g].pc \in {"counted", "running", "handled", "giveUp"}
  THEN {handler[p][g].msg} ELSE {}

\* What the broker will hand out again if the channel of p closes.
Unacked(p) ==
  Contents(prefetched[p])
    \cup {f.msg : f \in Contents(inflight[p])}
    \cup UNION {Holding(p, g) : g \in Goroutine}

RequeuePrefetched(p) == queue' = [queue EXCEPT ![WorkerOf[p]] = @ \cup Contents(prefetched[p])]

Requeue(p) == queue' = [queue EXCEPT ![WorkerOf[p]] = @ \cup Unacked(p)]

\* worker.<worker id>.retry.<topic>.<hash of the body>
RetryKeyOfTopic(w, m) == <<w, CHOOSE b \in Body : TRUE>>

RetryKey(w, m) == <<w, BodyOf[m]>>

\* Deletes the retry key of message m for the worker id of p.
Del(p, m) == retries' = [retries EXCEPT ![RetryKey(WorkerOf[p], m)] = 0]

\* The delivery that brings the counter to n is not run any more.
ExhaustedEarly(n) == DeadLetterEnabled /\ n + 1 >= MessageRetries

Exhausted(n) == DeadLetterEnabled /\ n >= MessageRetries

\* The .dead queues the direct exchange "dead-exchange" has a binding for:
\* .dead queues are bound by the topic, and a direct exchange compares it
\* with the routing key, so the pattern of a wildcard topic never matches.
DeadQueuesFor(m) == {w \in declared \cap Exact : RoutingKey[m] \in Bound[w]}

-----------------------------------------------------------------------------
(* The broker.                                                             *)

\* SendMessageBytes: persistent, mandatory, but nobody listens for returns.
Publish ==
  /\ published < NMessages
  /\ LET m == published + 1
         W == {w \in declared : RoutingKey[m] \in Bound[w]}
     IN  /\ published' = m
         /\ queue' = [w \in Worker |-> IF w \in W THEN queue[w] \cup {m} ELSE queue[w]]
         /\ outcome' = [w \in Worker |->
                         [outcome[w] EXCEPT ![m] = IF w \in W THEN "pending" ELSE @]]
  /\ UNCHANGED <<declared, deadQueue, prefetched, handler, inflight, retries, status,
                 history, bounds>>

\* The broker pushes its oldest ready message: no prefetch limit is set.
Deliver(p) ==
  LET w == WorkerOf[p] IN
  /\ status[p] = "up"
  /\ \E m \in queue[w] :
       /\ \A n \in queue[w] : m <= n
       /\ queue' = [queue EXCEPT ![w] = @ \ {m}]
       /\ prefetched' = [prefetched EXCEPT ![p] = Append(@, m)]
  /\ UNCHANGED <<declared, published, deadQueue, outcome, handler, inflight, retries,
                 status, history, bounds>>

\* The broker reads the oldest ack or nack that p has written.
Settle(p) ==
  /\ inflight[p] # <<>>
  /\ LET w == WorkerOf[p]
         m == Head(inflight[p]).msg
         ack == Head(inflight[p]).kind = "ack"
     IN  /\ outcome' = [outcome EXCEPT ![w][m] = IF ack THEN "acked" ELSE "dead"]
         /\ deadQueue' = [v \in Worker |-> [deadQueue[v] EXCEPT ![m] =
                            IF ~ack /\ v \in DeadQueuesFor(m) THEN @ + 1 ELSE @]]
  /\ inflight' = [inflight EXCEPT ![p] = Tail(@)]
  /\ UNCHANGED <<declared, published, queue, prefetched, handler, retries, status,
                 history, bounds>>

-----------------------------------------------------------------------------
(* A goroutine of GetMessages, one message at a time.                      *)

WritesOnlyAcks(p, kind, m) ==
  inflight' = [inflight EXCEPT ![p] =
                IF kind = "ack" THEN Append(@, [kind |-> kind, msg |-> m]) ELSE @]

Writes(p, kind, m) == inflight' = [inflight EXCEPT ![p] = Append(@, [kind |-> kind, msg |-> m])]

MoveTo(p, g, pc) == handler' = [handler EXCEPT ![p][g].pc = pc]

\* Takes a message from internalQueue and counts the delivery in Redis.  The
\* time to live set on the key next matters to ExpireRetryKey only.
Receive(p, g) ==
  /\ status[p] \in {"up", "dying"}
  /\ handler[p][g] = Idle
  /\ prefetched[p] # <<>>
  /\ LET w == WorkerOf[p]
         m == Head(prefetched[p])
         retryCount == retries[RetryKey(w, m)] + 1
         exhausted == Exhausted(retryCount)
     IN  /\ retries' = IF DeadLetterEnabled
                       THEN [retries EXCEPT ![RetryKey(w, m)] = retryCount] ELSE retries
         /\ handler' = [handler EXCEPT ![p][g] =
                         [pc |-> IF exhausted THEN "giveUp" ELSE "counted", msg |-> m]]
         /\ unstarted' = IF exhausted THEN unstarted
                         ELSE [unstarted EXCEPT ![w][m] = @ + 1]
  /\ prefetched' = [prefetched EXCEPT ![p] = Tail(@)]
  /\ UNCHANGED <<broker, inflight, status, completed, attempts, bounds>>

\* The handler f is called.  The process may end before it gets here.
Begin(p, g) ==
  /\ status[p] \in {"up", "dying"}
  /\ handler[p][g].pc = "counted"
  /\ MoveTo(p, g, "running")
  /\ LET w == WorkerOf[p]
         m == handler[p][g].msg
     IN  /\ unstarted' = [unstarted EXCEPT ![w][m] = @ - 1]
         /\ attempts' = [attempts EXCEPT ![w][m] = @ + 1]
  /\ UNCHANGED <<broker, prefetched, inflight, retries, status, completed, bounds>>

\* The handler f returns.  In a dying process it may still do so.
Handle(p, g) ==
  /\ status[p] \in {"up", "dying"}
  /\ handler[p][g].pc = "running"
  /\ BodyOf[handler[p][g].msg] \notin Poison
  /\ MoveTo(p, g, "handled")
  /\ completed' = [completed EXCEPT ![WorkerOf[p]] = @ \cup {handler[p][g].msg}]
  /\ UNCHANGED <<broker, prefetched, inflight, retries, status, attempts, unstarted, bounds>>

\* Every later step logs first, and a dying process no longer answers log
\* calls: only an "up" process gets past them.
Answer(p, g, from, kind, to) ==
  /\ status[p] = "up"
  /\ handler[p][g].pc = from
  /\ Writes(p, kind, handler[p][g].msg)
  /\ MoveTo(p, g, to)
  /\ UNCHANGED <<broker, prefetched, retries, status, history, bounds>>

AckOnReceipt(p, g) == Answer(p, g, "running", "ack", "acked")

Ack(p, g) == Answer(p, g, "handled", "ack", "acked")

Nack(p, g) == Answer(p, g, "giveUp", "nack", "nacked")

\* state.Del after the ack or the nack was written, seen by the broker or not.
DelRetryKey(p, g) ==
  /\ status[p] = "up"
  /\ handler[p][g].pc \in {"acked", "nacked"}
  /\ IF DeadLetterEnabled THEN Del(p, handler[p][g].msg) ELSE UNCHANGED retries
  /\ handler' = [handler EXCEPT ![p][g] = Idle]
  /\ UNCHANGED <<broker, prefetched, inflight, status, history, bounds>>

-----------------------------------------------------------------------------
(* The end of a process.                                                   *)

\* log.Fatal inside the handler: the shutdown callback closes the channel,
\* which the broker confirms after reading everything written before, and
\* the logging server sleeps, with the other goroutines still there.  The
\* loop feeding internalQueue may be holding the oldest prefetched message.
Fatal(p, g) ==
  /\ status[p] = "up"
  /\ handler[p][g].pc = "running"
  /\ BodyOf[handler[p][g].msg] \in Poison
  /\ inflight[p] = <<>>
  /\ status' = [status EXCEPT ![p] = "dying"]
  /\ Requeue(p)
  /\ \E n \in {0, 1} :
       prefetched' = [prefetched EXCEPT ![p] = IF @ = <<>> \/ n = 0 THEN <<>> ELSE <<Head(@)>>]
  /\ UNCHANGED <<declared, published, deadQueue, outcome, handler, inflight, retries,
                 history, bounds>>

Vanish(p, s) ==
  /\ status' = [status EXCEPT ![p] = s]
  /\ prefetched' = [prefetched EXCEPT ![p] = <<>>]
  /\ handler' = [handler EXCEPT ![p] = [g \in Goroutine |-> Idle]]
  /\ inflight' = [inflight EXCEPT ![p] = <<>>]
  /\ UNCHANGED <<declared, published, deadQueue, outcome, retries, history, expiries>>

\* processExit after its backoff: os.Exit(1).
Exit(p) ==
  /\ status[p] = "dying"
  /\ Vanish(p, "down")
  /\ UNCHANGED <<queue, crashes>>

\* The closed channel ends the loop of GetMessages, main returns and the
\* process exits with 0 before the backoff of processExit is over.
MainReturns(p) ==
  /\ status[p] = "dying"
  /\ prefetched[p] = <<>>
  /\ Vanish(p, "stopped")
  /\ UNCHANGED <<queue, crashes>>

\* Killed from outside: acks and nacks the broker has not read are lost.
Crash(p) ==
  /\ status[p] \in {"up", "dying"}
  /\ crashes < MaxCrashes
  /\ crashes' = crashes + 1
  /\ IF status[p] = "up" THEN Requeue(p) ELSE UNCHANGED queue
  /\ Vanish(p, "down")

\* init and queueConsume: the queues are declared before consuming.
Start(p) ==
  /\ status[p] = "down" \/ (RestartAlways /\ status[p] = "stopped")
  /\ status' = [status EXCEPT ![p] = "up"]
  /\ declared' = declared \cup {WorkerOf[p]}
  /\ UNCHANGED <<published, queue, deadQueue, outcome, prefetched, handler, inflight,
                 retries, history, bounds>>

\* A retry key not touched for 24 hours is gone.
ExpireRetryKey(w, b) ==
  /\ retries[<<w, b>>] > 0
  /\ expiries < MaxExpiries
  /\ expiries' = expiries + 1
  /\ retries' = [retries EXCEPT ![<<w, b>>] = 0]
  /\ UNCHANGED <<broker, prefetched, handler, inflight, status, history, crashes>>

-----------------------------------------------------------------------------
Goroutines(p) == \E g \in Goroutine :
  \/ Receive(p, g) \/ Begin(p, g) \/ Handle(p, g) \/ Fatal(p, g)
  \/ Ack(p, g) \/ Nack(p, g) \/ DelRetryKey(p, g)

Next ==
  \/ Publish
  \/ \E p \in Process : \/ Deliver(p) \/ Settle(p) \/ Goroutines(p)
                        \/ Exit(p) \/ MainReturns(p) \/ Crash(p) \/ Start(p)
  \/ \E w \in Worker, b \in Body : ExpireRetryKey(w, b)

Spec == Init /\ [][Next]_vars

\* The broker, each goroutine, the exit path and the supervisor keep going;
\* nothing obliges a producer to publish, a process to crash, a key to
\* expire, or the main goroutine to beat the backoff.
Fairness ==
  \A p \in Process :
    /\ WF_vars(Deliver(p)) /\ WF_vars(Settle(p))
    /\ WF_vars(Exit(p)) /\ WF_vars(Start(p))
    /\ \A g \in Goroutine :
         /\ WF_vars(Receive(p, g)) /\ WF_vars(Begin(p, g))
         /\ WF_vars(Handle(p, g)) /\ WF_vars(Fatal(p, g))
         /\ WF_vars(Ack(p, g)) /\ WF_vars(Nack(p, g)) /\ WF_vars(DelRetryKey(p, g))

FairSpec == Spec /\ Fairness

-----------------------------------------------------------------------------
(* What the library promises.                                              *)

Holders(w, m) == {p \in Process : WorkerOf[p] = w /\ status[p] = "up" /\ m \in Unacked(p)}

\* An unanswered message is in exactly one place: its queue, or one live
\* process (queueConsume, Ack, Nack, the requeue when a channel closes).
\* Nothing is lost between the broker and the handlers, nothing is doubled.
OnePlace ==
  \A w \in Worker, m \in Message :
    /\ outcome[w][m] = "pending" <=> (m \in queue[w] \/ Holders(w, m) # {})
    /\ m \in queue[w] => Holders(w, m) = {}
    /\ Cardinality(Holders(w, m)) <= 1

\* The broker forgets a message as acknowledged only once its handler has
\* returned (queue.go: f(message) comes before queueAckDeliveryTag).
AckedWasHandled ==
  \A w \in Worker, m \in Message : outcome[w][m] = "acked" => m \in completed[w]

UniqueBody(m) == \A n \in Message : BodyOf[n] = BodyOf[m] => n = m

\* The counter in Redis outlives crashes, redeliveries to other instances
\* and goroutines: a message is given up only after MessageRetries - 1 earlier
\* deliveries of it were counted (the delivery that reaches the limit is not
\* run), and of these each one had its handler started, unless its process
\* ended, or is about to, between the count and the call (queue.go:154, 181).
DeadOnlyAfterAttempts ==
  \A w \in Worker, m \in Message :
    outcome[w][m] = "dead" /\ UniqueBody(m)
      => attempts[w][m] + unstarted[w][m] + 1 >= MessageRetries

\* With one goroutine per queue a message the handler can process is given
\* up only if the process was killed from outside MessageRetries - 1 times:
\* a poison message ahead of it in the queue does not use up its retries.
HealthyDeadOnlyByCrashes ==
  \A w \in Worker, m \in Message :
    outcome[w][m] = "dead" /\ UniqueBody(m) /\ BodyOf[m] \notin Poison
      => crashes + 1 >= MessageRetries

\* What the broker rejects for a worker id with an exact topic is kept in
\* its .dead queue (x-dead-letter-exchange and the bindings of queueConsume).
DeadLettersKept ==
  \A w \in Exact, m \in Message : outcome[w][m] = "dead" => deadQueue[w][m] > 0

\* An unanswered message is in exactly one place, its queue or one live
\* process, whatever died, closed its channel or was killed meanwhile
\* (queueConsume, the shutdown callback, the requeue of the broker).
InOnePlace == TypeOK /\ OnePlace

\* The broker forgets a message only for cause: it was handled, or it was
\* delivered often enough, its handler started each time but where a process
\* ended first, and it is kept in the .dead queue (queue.go:144-206,
\* server.go:40-100).
SettledForCause == AckedWasHandled /\ DeadOnlyAfterAttempts /\ DeadLettersKept

\* GetMessages and SendMessage implement at-least-once delivery.
Contract == INSTANCE AtLeastOnce

ContractSpec == Contract!Spec

\* Every routed message is acknowledged or given up, even if its handler
\* fails every time and takes its process down with it.
EventuallySettled ==
  \A w \in Worker, m \in Message :
    outcome[w][m] = "pending" ~> outcome[w][m] \in {"acked", "dead"}

=============================================================================
