---------------------------- MODULE MCFluidQueue ----------------------------
(* FluidQueue on two deployments of one worker id with two instances.       *)
(*   "instances": one goroutine each, kills from outside, an expired key.   *)
(*   "goroutines": two goroutines each, so that a fatal handler leaves the  *)
(*   other one running in a process whose messages were already requeued.   *)
EXTENDS FluidQueue

CONSTANTS g1, g2

\* A poison message ahead of a healthy one.
OneWorker == {"w1"}
TwoInstances == {"p1", "p2"}
AllW1 == [p \in Process |-> "w1"]
OneKey == {"k"}
SameKey == [m \in Message |-> "k"]
BoundToAll == [w \in Worker |-> Key]
PoisonFirst == <<"bad", "good">>
TwoBodies == {"bad", "good"}
BadOnly == {"bad"}

VARIABLE deployment

mcvars == <<vars, deployment>>

MCInit == Init /\ deployment \in {"instances", "goroutines"}

\* What a step may do in the deployment at hand.
Deployed ==
  /\ UNCHANGED deployment
  /\ deployment = "instances" => \A p \in Process : handler'[p][g2] = Idle
  /\ deployment = "goroutines" => crashes' = 0 /\ expiries' = 0

MCNext == Next /\ Deployed

MCFairness ==
  \A p \in Process :
    /\ WF_mcvars(Deliver(p) /\ Deployed) /\ WF_mcvars(Settle(p) /\ Deployed)
    /\ WF_mcvars(Exit(p) /\ Deployed) /\ WF_mcvars(Start(p) /\ Deployed)
    /\ \A g \in Goroutine :
         /\ WF_mcvars(Receive(p, g) /\ Deployed) /\ WF_mcvars(Begin(p, g) /\ Deployed)
         /\ WF_mcvars(Handle(p, g) /\ Deployed)
         /\ WF_mcvars(Fatal(p, g) /\ Deployed) /\ WF_mcvars(Ack(p, g) /\ Deployed)
         /\ WF_mcvars(Nack(p, g) /\ Deployed) /\ WF_mcvars(DelRetryKey(p, g) /\ Deployed)

MCSpec == MCInit /\ [][MCNext]_mcvars /\ MCFairness

-----------------------------------------------------------------------------
\* With one goroutine per queue a message that can be handled is given up only
\* by kills from outside: a poison message ahead of it does not use up its
\* retries, nor does one that takes its process down (queue.go:144-160).
HealthyGivenUpByCrashes == deployment = "instances" => HealthyDeadOnlyByCrashes
=============================================================================
