------------------------------ MODULE Staking ------------------------------
(***************************************************************************)
(* StakingV1: FLY is staked in positions, each with the time it was made.  *)
(* Points grow with the FLY and the age of a position.  Unstaking moves    *)
(* FLY to a second list, where it waits out the unbonding period, and a    *)
(* further call pays out what has.  In an emergency it is paid at once.    *)
(*                                                                         *)
(* A call that reverts is a step not taken.  FLY is a plain ERC20, and     *)
(* those who stake have allowed the contract to take it.                   *)
(***************************************************************************)
EXTENDS Sums, Sequences

CONSTANTS
  Account, Operator, FirstDistributor, \* the Merkle distributor stakes for others
  Wallet,                              \* what everyone has in FLY at first
  MaxPositions, Unbonding,             \* MAX_STAKING_POSITIONS, UNBONDING_PERIOD
  BonusTime, PointUnit,                \* the time that the bonus is worth, and 1e12
  Staker, Amount,                      \* inputs: who stakes, and how much
  MaxEmergencies, MaxTime              \* bounds on the model

ASSUME StakingAssumption ==
  /\ IsFiniteSet(Account)
  /\ {Operator, FirstDistributor} \subseteq Account /\ Staker \subseteq Account
  /\ Wallet \in [Account -> Nat] /\ Amount \subseteq Nat
  /\ MaxPositions \in Nat /\ Unbonding \in Nat /\ BonusTime \in Nat
  /\ PointUnit \in Nat \ {0} /\ MaxEmergencies \in Nat /\ MaxTime \in Nat

VARIABLES
  staked,          \* stakedStorage_, in the order of the array
  unstaking,       \* unstakingStorage_
  wallet, held,    \* balances of the FLY token: of the accounts, of the contract
  noEmergencyMode, distributor,
  emergencies,     \* bounded by MaxEmergencies
  now              \* block.timestamp

lists == <<staked, unstaking>>
roles == <<noEmergencyMode, emergencies, distributor>>
vars == <<lists, wallet, held, roles, now>>

Total(s) == Sum([i \in DOMAIN s |-> s[i].fly])

TypeOK ==
  /\ staked \in [Account -> Seq([bonus : BOOLEAN, fly : Nat, at : 0..MaxTime])]
  /\ \A a \in Account : Len(staked[a]) <= MaxPositions
  /\ unstaking \in [Account -> Seq([fly : Nat, by : 0..MaxTime + Unbonding])]
  /\ wallet \in [Account -> Nat] /\ held \in Nat
  /\ noEmergencyMode \in BOOLEAN /\ emergencies \in 0..MaxEmergencies
  /\ distributor \in Account /\ now \in 0..MaxTime

Init ==
  /\ staked = [a \in Account |-> <<>>] /\ unstaking = [a \in Account |-> <<>>]
  /\ wallet = Wallet /\ held = 0
  /\ noEmergencyMode = TRUE /\ emergencies = 0 /\ distributor = FirstDistributor /\ now = 0

\* The last position takes the place of the i-th.
PopKeepingLast(s, i) == SubSeq(s, 1, Len(s) - 1)
Pop(s, i) == SubSeq([s EXCEPT ![i] = s[Len(s)]], 1, Len(s) - 1)

-----------------------------------------------------------------------------
(* Staking.                                                                *)

NewPosition(fly, bonus) == [bonus |-> bonus, fly |-> fly, at |-> now]

RoomFor(a) == Len(staked[a]) < MaxPositions

Deposit(spender, recipient, n, bonus) ==
  /\ noEmergencyMode /\ n > 0 /\ RoomFor(recipient)
  /\ wallet[spender] >= n
  /\ staked' = [staked EXCEPT ![recipient] = Append(@, NewPosition(n, bonus))]
  /\ wallet' = [wallet EXCEPT ![spender] = @ - n] /\ held' = held + n
  /\ UNCHANGED <<unstaking, roles, now>>

\* stake, and stakePermit
Stake(a, n) == Deposit(a, a, n, FALSE)

StakeFor(spender, recipient, n) ==
  spender \in {distributor, Operator} /\ Deposit(spender, recipient, n, TRUE)

-----------------------------------------------------------------------------
(* Unstaking.                                                              *)

\* One turn of the loop in beginUnstake: the i-th position is taken as a whole,
\* or as far as it is needed.
Take(r, i) ==
  LET p == r.staked[i]
      whole == r.remaining >= p.fly
      fly == IF whole THEN p.fly ELSE r.remaining
  IN  IF r.remaining = 0 THEN r
      ELSE [remaining |-> r.remaining - fly,
            staked |-> IF whole THEN Pop(r.staked, i)
                       ELSE [r.staked EXCEPT ![i].fly = @ - fly],
            unstaking |-> Append(r.unstaking, [fly |-> fly, by |-> now + Unbonding])]

\* The loop, which goes through the list from the last position.
Unstaked(a, n) ==
  LET count == Len(staked[a])
      turn[k \in 0..count] ==
        IF k = 0 THEN [remaining |-> n, staked |-> staked[a], unstaking |-> unstaking[a]]
        ELSE Take(turn[k - 1], count + 1 - k)
  IN  turn[count]

BeginUnstake(a, n) ==
  LET r == Unstaked(a, n) IN
  /\ n > r.remaining
  /\ staked' = [staked EXCEPT ![a] = r.staked]
  /\ unstaking' = [unstaking EXCEPT ![a] = r.unstaking]
  /\ UNCHANGED <<wallet, held, roles, now>>

Matured(p) == p.by <= now

\* One turn of the loop in finaliseUnstake.
Collect(r, i) ==
  IF Matured(r.unstaking[i])
  THEN [returned |-> r.returned + r.unstaking[i].fly, unstaking |-> Pop(r.unstaking, i)]
  ELSE r

Collected(a) ==
  LET count == Len(unstaking[a])
      turn[k \in 0..count] ==
        IF k = 0 THEN [returned |-> 0, unstaking |-> unstaking[a]]
        ELSE Collect(turn[k - 1], count + 1 - k)
  IN  turn[count]

FinaliseUnstake(a) ==
  LET r == Collected(a) IN
  /\ r.returned > 0 /\ held >= r.returned
  /\ unstaking' = [unstaking EXCEPT ![a] = r.unstaking]
  /\ wallet' = [wallet EXCEPT ![a] = @ + r.returned] /\ held' = held - r.returned
  /\ UNCHANGED <<staked, roles, now>>

\* What emergencyWithdraw leaves of a list: the positions, with nothing in them.
Kept(s) == s
Emptied(s) == [i \in DOMAIN s |-> [s[i] EXCEPT !.fly = 0]]

EmergencyWithdraw(a) ==
  LET fly == Total(staked[a]) + Total(unstaking[a]) IN
  /\ ~noEmergencyMode /\ held >= fly
  /\ staked' = [staked EXCEPT ![a] = Emptied(@)]
  /\ unstaking' = [unstaking EXCEPT ![a] = Emptied(@)]
  /\ wallet' = [wallet EXCEPT ![a] = @ + fly] /\ held' = held - fly
  /\ UNCHANGED <<roles, now>>

-----------------------------------------------------------------------------
(* The operator, who shares enabling the emergency mode with the council.  *)

ApplyDay1Bonus(a, i) ==
  /\ staked[a][i].fly > 0
  /\ staked' = [staked EXCEPT ![a][i].bonus = TRUE]
  /\ UNCHANGED <<unstaking, wallet, held, roles, now>>

UpdateMerkleDistributor(new) ==
  /\ distributor' = new
  /\ UNCHANGED <<lists, wallet, held, noEmergencyMode, emergencies, now>>

EnableEmergencyMode ==
  /\ emergencies < MaxEmergencies /\ emergencies' = emergencies + 1
  /\ noEmergencyMode' = FALSE
  /\ UNCHANGED <<lists, wallet, held, distributor, now>>

DisableEmergencyMode ==
  /\ noEmergencyMode' = TRUE
  /\ UNCHANGED <<lists, wallet, held, emergencies, distributor, now>>

Tick == now < MaxTime /\ now' = now + 1 /\ UNCHANGED <<lists, wallet, held, roles>>

Next ==
  \/ \E a \in Staker, n \in Amount : Stake(a, n) \/ BeginUnstake(a, n)
  \/ \E a \in Account, b \in Staker, n \in Amount : StakeFor(a, b, n)
  \/ \E a \in Staker : FinaliseUnstake(a) \/ EmergencyWithdraw(a)
  \/ \E a \in Staker : \E i \in DOMAIN staked[a] : ApplyDay1Bonus(a, i)
  \/ \E a \in Account : UpdateMerkleDistributor(a)
  \/ EnableEmergencyMode \/ DisableEmergencyMode \/ Tick

Spec == Init /\ [][Next]_vars

-----------------------------------------------------------------------------
(* Properties.                                                             *)

\* stakingDetails and calculatePoints; every position is rounded on its own.
PointsOf(p) ==
  (p.fly * (now - p.at)) \div PointUnit
    + (IF p.bonus THEN (p.fly * BonusTime) \div PointUnit ELSE 0)

Points(a) == Sum([i \in DOMAIN staked[a] |-> PointsOf(staked[a][i])])

BonusFly(a) ==
  Sum([i \in DOMAIN staked[a] |-> IF staked[a][i].bonus THEN staked[a][i].fly ELSE 0])

\* What has waited out the unbonding period, and what began to wait now.
MaturedFly(a) ==
  Sum([i \in DOMAIN unstaking[a] |-> IF Matured(unstaking[a][i]) THEN unstaking[a][i].fly ELSE 0])

BeganNow(s) ==
  Sum([i \in DOMAIN s |-> IF s[i].by = now + Unbonding THEN s[i].fly ELSE 0])

OwedTo(a) == Total(staked[a]) + Total(unstaking[a])

HeldIsOwed == held = Sum([a \in Account |-> OwedTo(a)])

\* The contract holds exactly the FLY of the positions in the two lists of
\* everyone, so that whoever leaves last is paid too, after any order of
\* partial unstaking, collecting and emergency withdrawals (beginUnstake,
\* finaliseUnstake, emergencyWithdraw).
Solvent == TypeOK /\ HeldIsOwed

\* Nobody but the operator and the distributor, who stake for others, ever
\* comes to own less: what leaves a wallet is in a list and what leaves a list
\* is in the wallet.
KeepsOwn ==
  \A a \in Account : wallet[a] + OwedTo(a) > wallet'[a] + OwedTo(a)' => a \in {Operator, distributor}

\* Out of an emergency, the wallet of an account grows exactly by the FLY that
\* was asked for an unbonding period ago or earlier, and none of that is left.
PaidIfMatured ==
  \A a \in Account : noEmergencyMode /\ wallet'[a] > wallet[a] =>
    /\ wallet'[a] - wallet[a] = MaturedFly(a)
    /\ \A i \in DOMAIN unstaking'[a] : unstaking'[a][i].by > now

\* beginUnstake moves the FLY that was asked for, or all there is, and all of
\* it waits for the full period, over however many positions it is spread.
UnstakesWhatWasAsked ==
  \A a \in Staker, n \in Amount : staked[a] # <<>> /\ BeginUnstake(a, n) =>
    LET moved == IF n < Total(staked[a]) THEN n ELSE Total(staked[a]) IN
    /\ Total(staked[a]) = Total(staked'[a]) + moved
    /\ BeganNow(unstaking'[a]) = BeganNow(unstaking[a]) + moved

\* Points come from time and from the bonus only, and are lost only by taking
\* FLY out: to split, merge, pop or reorder positions creates and loses none.
PointsFollowStakes ==
  \A a \in Account :
    /\ Points(a)' > Points(a) => now' > now \/ BonusFly(a)' > BonusFly(a)
    /\ Points(a)' < Points(a) => Total(staked'[a]) < Total(staked[a])

\* No step of StakingV1 takes what is not its own, pays before the unbonding
\* period, moves other than the amount asked for, or makes points of nothing.
StepsFair == [][KeepsOwn /\ PaidIfMatured /\ UnstakesWhatWasAsked /\ PointsFollowStakes]_vars
=============================================================================
