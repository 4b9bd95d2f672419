---------------------------- MODULE MCFluidToken ----------------------------
(* FluidToken with two sets of constants over the same contract.            *)
(*   "pool", the constants of the configuration: a lending and a circular   *)
(*   provider, fees, batches of two, quarantine, releases and drains.       *)
(*   "controls": one provider, emergency mode, a blacklisted holder, roles, *)
(*   thresholds, allowances and permits.                                     *)
EXTENDS FluidToken

TwoAccounts == {"alice", "bob"}
LendingPool == {"aave"}
LendingAndCircular == {"aave", "stupid"}
StupidProvider == {"stupid"}
AliceHas(n) == [a \in TwoAccounts |-> IF a = "alice" THEN n ELSE 0]
AliceHasOne == AliceHas(1)
AliceHasTwo == AliceHas(2)
BobOnly == {"bob"}
FeesToPoolOrBob == {"stupid", "bob", "nobody"}

C == INSTANCE FluidToken WITH
       Provider <- LendingPool, Circular <- {}, Unlimited <- 2, Wallet <- AliceHasOne,
       Amount <- {1}, Threshold <- {1}, Fee <- {}, Recipient <- {}, Appointee <- BobOnly,
       Suspect <- BobOnly, Grantee <- BobOnly, Grant <- {1, 2}, MaxBatch <- 1,
       MaxBlocked <- 0, MaxUnderlying <- 2, MaxReleased <- 0, MaxBudget <- 2, MaxPermits <- 1

ASSUME C!TokenAssumption

VARIABLE setting

mcvars == <<vars, setting>>

MCInit ==
  \/ setting = "pool" /\ Init
  \/ setting = "controls" /\ C!Init

Pool == setting = "pool" /\ Next
Controls == setting = "controls" /\ C!Next

MCNext == (Pool \/ Controls) /\ UNCHANGED setting

MCSpec == MCInit /\ [][MCNext]_mcvars

-----------------------------------------------------------------------------
\* Whatever the mode, the fees, the provider and what others do, an account
\* that is not blacklisted can turn all it holds into underlying, as long as
\* no quarantined reward was released (_erc20Out, upgradeLiquidityProvider).
ExitStaysOpen ==
  IF setting = "pool" THEN TypeOK /\ ExitOpen ELSE C!TypeOK /\ C!ExitOpen
=============================================================================
