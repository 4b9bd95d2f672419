----------------------------- MODULE FluidToken -----------------------------
(***************************************************************************)
(* Token.sol: a fluid token, the liquidity providers its underlying is     *)
(* lent through, and the wallets that hold the underlying.  A call that    *)
(* reverts is a step that is not taken; the guards are its requirements.   *)
(***************************************************************************)
EXTENDS Sums, Sequences

CONSTANTS
  Account,         \* addresses that call the token and hold it
  Provider,        \* ILiquidityProvider contracts for the underlying
  Circular,        \* those that are a StupidLiquidityProvider
  NoAccount,       \* address(0)
  FeeDenom,        \* FEE_DENOM
  Unlimited,       \* type(uint256).max, an allowance that is never spent
  FirstProvider, FirstOperator, FirstOracle, FirstCouncil,  \* given to init
  FirstThreshold,  \* DEFAULT_MAX_UNCHECKED_REWARD
  Wallet,          \* underlying tokens each account starts with
  Amount,          \* inputs: amounts of tokens in calls
  Threshold,       \* inputs: quarantine thresholds the operator sets
  Fee, Recipient,  \* inputs: fees, and recipients of them, the operator sets
  Appointee,       \* inputs: accounts the roles are handed to
  Suspect,         \* inputs: accounts that are blacklisted
  Grantee, Grant,  \* inputs: accounts that are granted allowances, and how much
  MaxBatch,        \* bound: winners in one call of batchReward
  MaxBlocked,      \* bound: quarantined rewards of one account
  MaxUnderlying,   \* bound: underlying in wallets and pools, interest included
  MaxReleased,     \* bound: quarantined rewards ever released
  MaxBudget,       \* bound: what one account may owe another in grants
  MaxPermits       \* bound: permits an account has used when it signs another

Holder == Account \cup Provider

ASSUME TokenAssumption ==
  /\ IsFiniteSet(Account) /\ IsFiniteSet(Provider)
  /\ Account \cap Provider = {} /\ NoAccount \notin Holder
  /\ Circular \subseteq Provider
  /\ FeeDenom \in Nat \ {0} /\ Unlimited \in Nat
  /\ FirstProvider \in Provider
  /\ FirstOperator \in Account /\ FirstOracle \in Account /\ FirstCouncil \in Account
  /\ FirstThreshold \in Nat /\ Wallet \in [Account -> Nat]
  /\ Amount \subseteq Nat /\ Threshold \subseteq Nat /\ Fee \subseteq Nat /\ Grant \subseteq Nat
  /\ Recipient \subseteq Holder \cup {NoAccount}
  /\ Appointee \subseteq Account \cup {NoAccount} /\ Suspect \subseteq Account
  /\ Grantee \subseteq Account
  /\ MaxBatch \in Nat /\ MaxBlocked \in Nat /\ MaxBudget \in Nat
  /\ MaxPermits \in Nat /\ MaxUnderlying \in Nat /\ MaxReleased \in Nat

VARIABLES
  balances, totalSupply,                 \* ERC20
  allowances, nonces,                    \* ERC20 and ERC2612
  underlying, invested, pool,            \* wallets, pools, the pool in use
  maxUncheckedReward, blockedRewards,    \* the reward quarantine
  mintFee, burnFee, feeRecipient,
  noEmergencyMode, blacklist,
  operator, oracle, emergencyCouncil,
  signed,    \* permits signed by their owners, in anyone's hands
  budget,    \* history: what each owner granted, less what was spent of it
  released   \* history: what unblockReward has paid out

erc20 == <<balances, totalSupply>>
approvals == <<allowances, nonces, signed, budget>>
reserve == <<underlying, invested, pool>>
quarantine == <<maxUncheckedReward, blockedRewards, released>>
fees == <<mintFee, burnFee, feeRecipient>>
safety == <<noEmergencyMode, blacklist>>
roles == <<operator, oracle, emergencyCouncil>>
vars == <<erc20, approvals, reserve, quarantine, fees, safety, roles>>

PermitMessage == [owner : Account, spender : Account, value : Nat, nonce : Nat]

TypeOK ==
  /\ balances \in [Holder -> Nat] /\ totalSupply \in Nat
  /\ allowances \in [Account -> [Account -> Nat]] /\ nonces \in [Account -> Nat]
  /\ signed \subseteq PermitMessage /\ budget \in [Account -> [Account -> Int]]
  /\ underlying \in [Account -> Nat] /\ invested \in [Provider -> Nat] /\ pool \in Provider
  /\ maxUncheckedReward \in Nat /\ blockedRewards \in [Account -> Nat] /\ released \in Nat
  /\ mintFee \in 0..FeeDenom - 1 /\ burnFee \in 0..FeeDenom - 1
  /\ feeRecipient \in Holder \cup {NoAccount}
  /\ noEmergencyMode \in BOOLEAN /\ blacklist \subseteq Account
  /\ operator \in Account /\ {oracle, emergencyCouncil} \subseteq Account \cup {NoAccount}

Init ==
  /\ balances = [h \in Holder |-> 0] /\ totalSupply = 0
  /\ allowances = [o \in Account |-> [s \in Account |-> 0]]
  /\ nonces = [o \in Account |-> 0]
  /\ signed = {} /\ budget = [o \in Account |-> [s \in Account |-> 0]]
  /\ underlying = Wallet /\ invested = [p \in Provider |-> 0] /\ pool = FirstProvider
  /\ maxUncheckedReward = FirstThreshold /\ blockedRewards = [a \in Account |-> 0]
  /\ released = 0
  /\ mintFee = 0 /\ burnFee = 0 /\ feeRecipient = NoAccount
  /\ noEmergencyMode = TRUE /\ blacklist = {}
  /\ operator = FirstOperator /\ oracle = FirstOracle /\ emergencyCouncil = FirstCouncil

-----------------------------------------------------------------------------
(* Helpers.                                                                *)

Credit(b, a, n) == [h \in Holder |-> IF h = a THEN b[h] + n ELSE b[h]]

Debit(b, a, n) == [b EXCEPT ![a] = @ - n]

\* What is kept of n at a rate in thousandths; small amounts are free.
FeeOn(rate, n) == IF rate # 0 /\ n > rate THEN (n * rate) \div FeeDenom ELSE 0

CanPay(fee) == fee > 0 => feeRecipient # NoAccount

\* totalPoolAmount of a StupidLiquidityProvider first burns the fluid tokens
\* that provider holds: what is left of balances b, and how many were burnt.
StillHeld(b, p) == b

AfterBurn(b, p) == IF p \in Circular THEN [b EXCEPT ![p] = 0] ELSE b

SelfBurn(b, p) == IF p \in Circular THEN b[p] ELSE 0

\* rewardPoolAmount, and the check that makes it revert.
RewardPool == invested[pool] - (totalSupply - SelfBurn(balances, pool))

BadUnderlyingLiq == invested[pool] < totalSupply - SelfBurn(balances, pool)

\* The winners of a batch whose reward is paid, and those quarantined.
Quarantined(rewards) == {i \in DOMAIN rewards : rewards[i].amount > maxUncheckedReward}

Paid(rewards) == DOMAIN rewards \ Quarantined(rewards)

Of(rewards, winners, a) == {i \in winners : rewards[i].winner = a}

Total(rewards, winners) == Sum([i \in winners |-> rewards[i].amount])

\* The loop of batchReward takes every winner's amount off the reward pool.
EachFits(rewards) == \A i \in DOMAIN rewards : rewards[i].amount <= RewardPool

PoolSuffices(rewards) == Total(rewards, DOMAIN rewards) <= RewardPool

\* A lending provider lends out exactly what it is given and insists on
\* getting back exactly what it asks for.
AddToPool(n) == invested' = [invested EXCEPT ![pool] = @ + n]

TakeFromPool(n) ==
  /\ n <= invested[pool]
  /\ invested' = [invested EXCEPT ![pool] = @ - n]

\* What a quarantined account can still be paid or denied.
IsBlocked(user, n) == n <= blockedRewards[user]

\* The pools once everything has been taken from one and added to another.
Shifted(newPool) == [[invested EXCEPT ![pool] = 0] EXCEPT ![newPool] = @ + invested[pool]]

\* Who may wrap, and who may unwrap.
MayWrapAlways(by) == by \notin blacklist

MayWrap(by) == noEmergencyMode /\ by \notin blacklist

MayUnwrapUnlessPaused(by) == noEmergencyMode /\ by \notin blacklist

MayUnwrap(by) == by \notin blacklist

-----------------------------------------------------------------------------
(* Wrapping and unwrapping.                                                *)

\* erc20In and erc20InTo: by's underlying is lent out, fluid tokens minted.
Erc20In(by, to, n) ==
  LET fee == FeeOn(mintFee, n) IN
  /\ MayWrap(by)
  /\ n > 0 /\ underlying[by] >= n
  /\ CanPay(fee)
  /\ underlying' = [underlying EXCEPT ![by] = @ - n]
  /\ AddToPool(n)
  /\ balances' = Credit(Credit(balances, to, n - fee), feeRecipient, fee)
  /\ totalSupply' = totalSupply + n
  /\ UNCHANGED <<pool, approvals, quarantine, fees, safety, roles>>

\* erc20Out and erc20OutTo: also in emergency mode.
Erc20Out(by, to, n) ==
  LET fee == FeeOn(burnFee, n) IN
  /\ MayUnwrap(by)
  /\ n <= balances[by] /\ n <= totalSupply
  /\ CanPay(fee)
  /\ balances' = Credit(Debit(balances, by, n), feeRecipient, fee)
  /\ totalSupply' = totalSupply - n + fee
  /\ TakeFromPool(n - fee)
  /\ underlying' = [underlying EXCEPT ![to] = @ + (n - fee)]
  /\ UNCHANGED <<pool, approvals, quarantine, fees, safety, roles>>

\* The underlying stays in the pool and becomes part of the reward pool.
BurnFluidWithoutWithdrawal(by, n) ==
  /\ n <= balances[by] /\ n <= totalSupply
  /\ balances' = Debit(balances, by, n)
  /\ totalSupply' = totalSupply - n
  /\ UNCHANGED <<reserve, approvals, quarantine, fees, safety, roles>>

-----------------------------------------------------------------------------
(* The reward pool.                                                        *)

\* rewardPoolAmount and getUtilityVars, which anyone may call.
RewardPoolAmount ==
  /\ ~BadUnderlyingLiq
  /\ balances' = AfterBurn(balances, pool)
  /\ totalSupply' = totalSupply - SelfBurn(balances, pool)
  /\ UNCHANGED <<reserve, approvals, quarantine, fees, safety, roles>>

BatchReward(by, rewards) ==
  /\ noEmergencyMode /\ by = oracle
  /\ ~BadUnderlyingLiq /\ PoolSuffices(rewards)
  /\ balances' = [h \in Holder |-> AfterBurn(balances, pool)[h]
                                     + Total(rewards, Of(rewards, Paid(rewards), h))]
  /\ totalSupply' = totalSupply - SelfBurn(balances, pool) + Total(rewards, Paid(rewards))
  /\ blockedRewards' = [a \in Account |-> blockedRewards[a]
                                     + Total(rewards, Of(rewards, Quarantined(rewards), a))]
  /\ \A a \in Account : blockedRewards'[a] <= MaxBlocked
  /\ UNCHANGED <<reserve, approvals, maxUncheckedReward, released, fees, safety, roles>>

\* Pays out or removes a quarantined reward, without a look at the pool.
UnblockReward(by, user, n, payout) ==
  /\ noEmergencyMode /\ by = operator
  /\ IsBlocked(user, n)
  /\ payout => released + n <= MaxReleased
  /\ blockedRewards' = [blockedRewards EXCEPT ![user] = @ - n]
  /\ IF payout
     THEN /\ balances' = Credit(balances, user, n)
          /\ totalSupply' = totalSupply + n
          /\ released' = released + n
     ELSE UNCHANGED <<erc20, released>>
  /\ UNCHANGED <<reserve, approvals, maxUncheckedReward, fees, safety, roles>>

DrainRewardPool(by, to, n) ==
  /\ noEmergencyMode /\ by = operator
  /\ ~BadUnderlyingLiq /\ n <= RewardPool
  /\ balances' = Credit(AfterBurn(balances, pool), to, n)
  /\ totalSupply' = totalSupply - SelfBurn(balances, pool) + n
  /\ UNCHANGED <<reserve, approvals, quarantine, fees, safety, roles>>

\* Moves the whole pool; both providers are asked for totalPoolAmount.
UpgradeLiquidityProvider(by, newPool, min) ==
  LET left == AfterBurn(balances, pool)
      moved == Shifted(newPool)
  IN  /\ noEmergencyMode /\ by = operator
      /\ moved[newPool] > min + 1
      /\ invested' = moved /\ pool' = newPool
      /\ balances' = AfterBurn(left, newPool)
      /\ totalSupply' = totalSupply - SelfBurn(balances, pool) - SelfBurn(left, newPool)
      /\ UNCHANGED <<underlying, approvals, quarantine, fees, safety, roles>>

\* Interest, or tokens anyone gives to a provider.
AccrueInterest(p) ==
  /\ Sum(underlying) + Sum(invested) < MaxUnderlying
  /\ invested' = [invested EXCEPT ![p] = @ + 1]
  /\ UNCHANGED <<erc20, underlying, pool, approvals, quarantine, fees, safety, roles>>

-----------------------------------------------------------------------------
(* What the operator, the oracle and the emergency council may set.        *)

UpdateRewardQuarantineThreshold(by, n) ==
  /\ by = operator
  /\ maxUncheckedReward' = n
  /\ UNCHANGED <<erc20, reserve, approvals, blockedRewards, released, fees, safety, roles>>

SetFeeDetails(by, mint, burn, recipient) ==
  /\ by = operator
  /\ mint < FeeDenom /\ burn < FeeDenom
  /\ mintFee' = mint /\ burnFee' = burn /\ feeRecipient' = recipient
  /\ UNCHANGED <<erc20, reserve, approvals, quarantine, safety, roles>>

BlacklistAddress(by, a, status) ==
  /\ by \in {operator, emergencyCouncil}
  /\ blacklist' = IF status THEN blacklist \cup {a} ELSE blacklist \ {a}
  /\ UNCHANGED <<erc20, reserve, approvals, quarantine, fees, noEmergencyMode, roles>>

EnableEmergencyMode(by) ==
  /\ by \in {operator, emergencyCouncil, oracle}
  /\ noEmergencyMode' = FALSE
  /\ UNCHANGED <<erc20, reserve, approvals, quarantine, fees, blacklist, roles>>

DisableEmergencyMode(by) ==
  /\ by = operator
  /\ noEmergencyMode' = TRUE
  /\ UNCHANGED <<erc20, reserve, approvals, quarantine, fees, blacklist, roles>>

UpdateRoles(by, a) ==
  /\ by = operator
  /\ \/ oracle' = a /\ UNCHANGED <<operator, emergencyCouncil>>
     \/ a # NoAccount /\ operator' = a /\ UNCHANGED <<oracle, emergencyCouncil>>
     \/ emergencyCouncil' = a /\ UNCHANGED <<operator, oracle>>
  /\ UNCHANGED <<erc20, reserve, approvals, quarantine, fees, safety>>

-----------------------------------------------------------------------------
(* Transfers and allowances.                                               *)

Move(from, to, n) ==
  /\ {from, to} \cap blacklist = {}
  /\ n <= balances[from]
  /\ balances' = Credit(Debit(balances, from, n), to, n)
  /\ UNCHANGED <<totalSupply, reserve, quarantine, fees, safety, roles>>

Transfer(by, to, n) == Move(by, to, n) /\ UNCHANGED approvals

\* An allowance of type(uint256).max is never used up.
SpendAllowance(owner, by, n) ==
  IF allowances[owner][by] = Unlimited THEN UNCHANGED <<allowances, budget>>
  ELSE /\ n <= allowances[owner][by]
       /\ allowances' = [allowances EXCEPT ![owner][by] = @ - n]
       /\ budget' = [budget EXCEPT ![owner][by] = @ - n]

TransferFrom(by, from, to, n) ==
  /\ by \notin blacklist
  /\ SpendAllowance(from, by, n)
  /\ Move(from, to, n)
  /\ UNCHANGED <<nonces, signed>>

\* What the owner lets the spender have on top of everything before.
Grants(owner, spender, n) ==
  /\ budget[owner][spender] + n <= MaxBudget
  /\ budget' = [budget EXCEPT ![owner][spender] = @ + n]

Approve(by, spender, n) ==
  /\ Grants(by, spender, n)
  /\ allowances' = [allowances EXCEPT ![by][spender] = n]
  /\ UNCHANGED <<erc20, reserve, nonces, signed, quarantine, fees, safety, roles>>

IncreaseAllowance(by, spender, n) ==
  /\ allowances[by][spender] + n <= Unlimited
  /\ Grants(by, spender, n)
  /\ allowances' = [allowances EXCEPT ![by][spender] = @ + n]
  /\ UNCHANGED <<erc20, reserve, nonces, signed, quarantine, fees, safety, roles>>

DecreaseAllowance(by, spender, n) ==
  /\ n <= allowances[by][spender]
  /\ allowances' = [allowances EXCEPT ![by][spender] = @ - n]
  /\ UNCHANGED <<erc20, reserve, nonces, signed, budget, quarantine, fees, safety, roles>>

\* An owner signs a permit for its current nonce.
Sign(owner, spender, n) ==
  LET p == [owner |-> owner, spender |-> spender, value |-> n, nonce |-> nonces[owner]] IN
  /\ p \notin signed /\ nonces[owner] < MaxPermits
  /\ Grants(owner, spender, n)
  /\ signed' = signed \cup {p}
  /\ UNCHANGED <<erc20, reserve, allowances, nonces, quarantine, fees, safety, roles>>

\* Anyone may hand in a signed permit, before its deadline or never.
UsedNonce(p) == p.nonce <= nonces[p.owner]

ValidNonce(p) == p.nonce = nonces[p.owner]

Permit(p) ==
  /\ ValidNonce(p)
  /\ nonces' = [nonces EXCEPT ![p.owner] = @ + 1]
  /\ allowances' = [allowances EXCEPT ![p.owner][p.spender] = p.value]
  /\ UNCHANGED <<erc20, reserve, signed, budget, quarantine, fees, safety, roles>>

-----------------------------------------------------------------------------
Rewards == UNION {[1..n -> [winner : Account, amount : Amount]] : n \in 0..MaxBatch}

Exchange(by) ==
  \/ \E to \in Account, n \in Amount : Erc20In(by, to, n) \/ Erc20Out(by, to, n)
  \/ \E n \in Amount : BurnFluidWithoutWithdrawal(by, n)

RewardSteps(by) ==
  \/ \E rewards \in Rewards : BatchReward(by, rewards)
  \/ \E a \in Account, n \in Amount : \/ DrainRewardPool(by, a, n)
                                      \/ \E payout \in BOOLEAN : UnblockReward(by, a, n, payout)
  \/ \E p \in Provider, min \in Amount \cup {0} : UpgradeLiquidityProvider(by, p, min)

Settings(by) ==
  \/ \E n \in Threshold : UpdateRewardQuarantineThreshold(by, n)
  \/ \E m, b \in Fee, r \in Recipient : SetFeeDetails(by, m, b, r)
  \/ \E a \in Suspect, status \in BOOLEAN : BlacklistAddress(by, a, status)
  \/ EnableEmergencyMode(by) \/ DisableEmergencyMode(by)
  \/ \E a \in Appointee : UpdateRoles(by, a)

Transfers(by) ==
  \/ \E to \in Holder, n \in Amount : \/ Transfer(by, to, n)
                                      \/ \E from \in Account : TransferFrom(by, from, to, n)
  \/ \E a \in Grantee, n \in Grant : \/ Approve(by, a, n) \/ IncreaseAllowance(by, a, n)
                                     \/ DecreaseAllowance(by, a, n) \/ Sign(by, a, n)

Next ==
  \/ \E by \in Account : Exchange(by) \/ RewardSteps(by) \/ Settings(by) \/ Transfers(by)
  \/ \E p \in signed : Permit(p)
  \/ \E p \in Provider : AccrueInterest(p)
  \/ RewardPoolAmount

Spec == Init /\ [][Next]_vars

-----------------------------------------------------------------------------
(* What the contract promises.                                             *)

\* _mint, _burn, _transfer, the fees and the burns of a circular provider
\* keep the supply equal to what the accounts hold.
SupplyIsSumOfBalances == totalSupply = Sum(balances)

\* Every fluid token is backed by underlying in the pool in use, except
\* for what unblockReward has minted: no sequence of wraps, fees, batches,
\* drains and changes of provider overdraws the pool.
BackedUpToReleases == totalSupply <= invested[pool] + released

\* No step but the release of a quarantined reward makes or widens a gap
\* between the tokens issued and the pool behind them.
GapWidensOnlyByRelease ==
  [][released' = released /\ totalSupply' > invested'[pool'] =>
       totalSupply' - invested'[pool'] <= totalSupply - invested[pool]]_vars

\* IEmergencyMode: in emergency mode nothing is swapped in and no rewards
\* are paid: no fluid tokens come into being, no underlying is taken.
EmergencyStopsIssue ==
  [][~noEmergencyMode => /\ totalSupply' <= totalSupply
                         /\ \A a \in Account : underlying'[a] >= underlying[a]]_vars

\* Whatever the mode and whatever others do, an account that is not
\* blacklisted can turn all it holds back into underlying, as long as no
\* quarantined reward was released and fees, if any, have a recipient.
ExitOpen ==
  \A a \in Account \ blacklist :
    released = 0 /\ CanPay(burnFee) => ENABLED Erc20Out(a, a, balances[a])

\* Value does not leave a blacklisted account: its balance only shrinks by
\* tokens it burns for the benefit of the reward pool.
FrozenFundsStay ==
  [][\A a \in blacklist : balances'[a] < balances[a] =>
        /\ totalSupply - totalSupply' = balances[a] - balances'[a]
        /\ UNCHANGED reserve]_vars

\* In an emergency nothing is issued, what a blacklisted account holds does
\* not leave it, and only the release of a quarantined reward widens the gap
\* between the tokens and the pool behind them.
ControlsHold == EmergencyStopsIssue /\ FrozenFundsStay /\ GapWidensOnlyByRelease

\* Whatever the order of approvals, permits and transfers, a spender can
\* never take more than the owner has granted it in all.
WithinGrants ==
  \A o, s \in Account : allowances[o][s] <= budget[o][s]

=============================================================================
