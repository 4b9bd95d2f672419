-------------------------- MODULE FluidTokenProofs --------------------------
(***************************************************************************)
(* FluidToken: the supply is the sum of the balances, and every token is   *)
(* backed by the pool up to what was released from quarantine, for any     *)
(* accounts, providers, amounts, fees and batches.                         *)
(***************************************************************************)
EXTENDS FluidToken, SumsProofs

\* The facts that have to be kept together: a burn stays within the supply
\* because the supply is the sum of all balances.
IInv == TypeOK /\ SupplyIsSumOfBalances /\ BackedUpToReleases

\* A fee is never more than the amount it is taken from.
LEMMA FeeBound ==
  ASSUME NEW rate \in 0..FeeDenom - 1, NEW n \in Nat
  PROVE  FeeOn(rate, n) \in 0..n
<1>1. (n * rate) \div FeeDenom \in Nat
  BY TokenAssumption
<1>2. n * rate <= n * FeeDenom
  BY TokenAssumption
<1>3. (n * rate) \div FeeDenom <= n
  BY <1>1, <1>2, TokenAssumption
<1> QED BY <1>1, <1>3 DEF FeeOn

LEMMA HolderIsFinite == IsFiniteSet(Holder)
BY TokenAssumption, FS_Union DEF Holder

LEMMA HolderSum ==
  ASSUME NEW b \in [Holder -> Nat], NEW a \in Holder, NEW v \in Nat
  PROVE  /\ Sum(b) \in Nat /\ b[a] \in Nat /\ b[a] <= Sum(b)
         /\ Sum([b EXCEPT ![a] = v]) = Sum(b) - b[a] + v
BY HolderIsFinite, SumType, SumAtLeast, SumUpdate

\* Crediting n to a holder, or nothing to nobody, adds n to the sum.
LEMMA SumOfCredit ==
  ASSUME NEW b \in [Holder -> Nat], NEW a \in Holder \cup {NoAccount}, NEW n \in Nat,
         n > 0 => a # NoAccount
  PROVE  Credit(b, a, n) \in [Holder -> Nat] /\ Sum(Credit(b, a, n)) = Sum(b) + n
<1>1. CASE a \in Holder
  <2>1. Credit(b, a, n) = [b EXCEPT ![a] = b[a] + n]
    BY <1>1 DEF Credit
  <2>2. b[a] + n \in Nat /\ b[a] \in Nat
    BY <1>1
  <2>3. Sum(Credit(b, a, n)) = Sum(b) - b[a] + (b[a] + n)
    <3> DEFINE v == b[a] + n
    <3>1. v \in Nat
      BY <2>2
    <3> HIDE DEF v
    <3>2. Sum([b EXCEPT ![a] = v]) = Sum(b) - b[a] + v
      BY <1>1, <3>1, HolderSum
    <3> QED BY <3>2, <2>1 DEF v
  <2>4. Sum(b) \in Nat
    BY HolderIsFinite, SumType
  <2>5. Sum(Credit(b, a, n)) = Sum(b) + n
    BY <2>2, <2>3, <2>4
  <2> QED BY <2>1, <2>2, <2>5
<1>2. CASE a \notin Holder
  <2>1. n = 0 /\ Credit(b, a, n) = b
    BY <1>2 DEF Credit
  <2>2. Sum(b) \in Nat
    BY HolderIsFinite, SumType
  <2> QED BY <2>1, <2>2
<1> QED BY <1>1, <1>2

\* Debiting n from a holder that has it takes n off the sum.
LEMMA SumOfDebit ==
  ASSUME NEW b \in [Holder -> Nat], NEW a \in Holder, NEW n \in Nat, n <= b[a]
  PROVE  Debit(b, a, n) \in [Holder -> Nat] /\ Sum(Debit(b, a, n)) = Sum(b) - n
<1> DEFINE v == b[a] - n
<1>1. v \in Nat /\ b[a] \in Nat
  OBVIOUS
<1>2. Debit(b, a, n) = [b EXCEPT ![a] = v]
  BY DEF Debit
<1>3. Sum([b EXCEPT ![a] = v]) = Sum(b) - b[a] + v
  <2> HIDE DEF v
  <2> QED BY <1>1, HolderSum
<1>4. Sum(b) \in Nat
  BY HolderIsFinite, SumType
<1> QED BY <1>1, <1>2, <1>3, <1>4

\* What a circular provider burns is part of the sum.
LEMMA SumOfBurn ==
  ASSUME NEW b \in [Holder -> Nat], NEW p \in Provider
  PROVE  /\ AfterBurn(b, p) \in [Holder -> Nat]
         /\ SelfBurn(b, p) \in 0..Sum(b)
         /\ Sum(AfterBurn(b, p)) = Sum(b) - SelfBurn(b, p)
<1>1. p \in Holder /\ b[p] \in Nat
  BY DEF Holder
<1>2. Sum(b) \in Nat /\ b[p] <= Sum(b)
  BY <1>1, HolderIsFinite, SumType, SumAtLeast
<1>3. CASE p \in Circular
  <2>1. AfterBurn(b, p) = [b EXCEPT ![p] = 0] /\ SelfBurn(b, p) = b[p]
    BY <1>3 DEF AfterBurn, SelfBurn
  <2>2. \A v \in Nat : Sum([b EXCEPT ![p] = v]) = Sum(b) - b[p] + v
    BY <1>1, HolderSum
  <2>3. Sum([b EXCEPT ![p] = 0]) = Sum(b) - b[p] + 0
    BY <2>2
  <2> QED BY <1>1, <1>2, <2>1, <2>3
<1>4. CASE p \notin Circular
  BY <1>2, <1>4 DEF AfterBurn, SelfBurn
<1> QED BY <1>3, <1>4

IsBatch(rewards) ==
  \E n \in Nat : rewards \in [1..n -> [winner : Account, amount : Nat]]

\* The paid part of a batch is worth no more than the batch.
LEMMA PartOfBatch ==
  ASSUME NEW rewards, IsBatch(rewards), NEW W \in SUBSET DOMAIN rewards
  PROVE  Total(rewards, W) \in Nat /\ Total(rewards, W) <= Total(rewards, DOMAIN rewards)
<1>1. PICK n \in Nat : rewards \in [1..n -> [winner : Account, amount : Nat]]
  BY DEF IsBatch
<1> DEFINE all == [i \in DOMAIN rewards |-> rewards[i].amount]
           part == [i \in W |-> rewards[i].amount]
<1>2. DOMAIN rewards = 1..n /\ IsFiniteSet(1..n)
  BY <1>1, FS_Interval
<1>3. IsFiniteSet(DOMAIN rewards) /\ IsFiniteSet(W)
  BY <1>2, FS_Subset
<1>4. all \in [DOMAIN rewards -> Nat] /\ part \in [W -> Nat] /\ \A i \in W : part[i] <= all[i]
  BY <1>1
<1> HIDE DEF all, part
<1>5. Sum(part) \in Nat /\ Sum(part) <= Sum(all)
  BY <1>3, <1>4, SumType, SumMonotone
<1> QED BY <1>5 DEF Total, all, part

\* Paying the winners of a batch one by one adds their total to the sum.
LEMMA SumOfBatch ==
  ASSUME NEW rewards, IsBatch(rewards), NEW W \in SUBSET DOMAIN rewards,
         NEW b \in [Holder -> Nat]
  PROVE  LET after == [h \in Holder |-> b[h] + Total(rewards, Of(rewards, W, h))]
         IN  after \in [Holder -> Nat] /\ Sum(after) = Sum(b) + Total(rewards, W)
<1>1. PICK n \in Nat : rewards \in [1..n -> [winner : Account, amount : Nat]]
  BY DEF IsBatch
<1> DEFINE owner == [i \in 1..n |-> rewards[i].winner]
           amount == [i \in 1..n |-> rewards[i].amount]
           after == [h \in Holder |-> b[h] + Total(rewards, Of(rewards, W, h))]
<1>2. owner \in [1..n -> Holder] /\ amount \in [1..n -> Nat] /\ W \in SUBSET (1..n)
  BY <1>1 DEF Holder
<1>3. \A h \in Holder : Total(rewards, Of(rewards, W, h))
                          = SumOver(amount, {j \in W : owner[j] = h})
  <2> TAKE h \in Holder
  <2>1. Of(rewards, W, h) = {j \in W : owner[j] = h}
    BY <1>2 DEF Of
  <2>2. \A i \in W : rewards[i].amount = amount[i]
    BY <1>2
  <2>3. [i \in Of(rewards, W, h) |-> rewards[i].amount] = [i \in {j \in W : owner[j] = h} |-> amount[i]]
    BY <2>1, <2>2
  <2> QED BY <2>3 DEF Total, SumOver
<1>4. Total(rewards, W) = SumOver(amount, W)
  <2>1. [i \in W |-> rewards[i].amount] = [i \in W |-> amount[i]]
    BY <1>2
  <2> QED BY <2>1 DEF Total, SumOver
<1>5. after = AddedTo(b, owner, amount, W)
  BY <1>3 DEF AddedTo
<1>6. Sum(after) = Sum(b) + Total(rewards, W)
  <2> HIDE DEF owner, amount, after
  <2>1. n \in Nat /\ IsFiniteSet(Holder) /\ b \in [Holder -> Nat]
    BY <1>1, HolderIsFinite
  <2>2. Sum(AddedTo(b, owner, amount, W)) = Sum(b) + SumOver(amount, W)
    BY <1>2, <2>1, SumByOwner
  <2> QED BY <2>2, <1>4, <1>5
<1>7. ASSUME NEW h \in Holder  PROVE Total(rewards, Of(rewards, W, h)) \in Nat
  <2>1. Of(rewards, W, h) \in SUBSET DOMAIN rewards
    BY DEF Of
  <2> QED BY <2>1, PartOfBatch
<1>8. after \in [Holder -> Nat]
  BY <1>7
<1> QED BY <1>6, <1>8

-----------------------------------------------------------------------------
(* One lemma for each action that touches balances, supply or pool.        *)

\* What such a step must leave true of the tokens; the rest of the type
\* invariant follows from the action's other assignments.
Books ==
  /\ balances \in [Holder -> Nat] /\ totalSupply \in Nat
  /\ underlying \in [Account -> Nat] /\ invested \in [Provider -> Nat] /\ pool \in Provider
  /\ blockedRewards \in [Account -> Nat] /\ released \in Nat
  /\ SupplyIsSumOfBalances /\ BackedUpToReleases

\* Steps that change none of this.
bookVars == <<erc20, reserve, blockedRewards, released>>

LEMMA BooksUnchanged == Books /\ UNCHANGED bookVars => Books'
BY DEF Books, bookVars, erc20, reserve, SupplyIsSumOfBalances, BackedUpToReleases

LEMMA BooksErc20In ==
  ASSUME IInv, NEW by \in Account, NEW to \in Account, NEW n \in Nat, Erc20In(by, to, n)
  PROVE  Books'
<1> DEFINE fee == FeeOn(mintFee, n)
           minted == Credit(balances, to, n - fee)
<1>1. fee \in 0..n
  BY FeeBound DEF IInv, TypeOK
<1>2. fee > 0 => feeRecipient # NoAccount
  BY DEF Erc20In, CanPay, AddToPool
<1>3. balances \in [Holder -> Nat] /\ to \in Holder /\ feeRecipient \in Holder \cup {NoAccount}
  BY DEF IInv, TypeOK, Holder
<1>4. n - fee \in Nat /\ fee \in Nat /\ to # NoAccount
  BY <1>1, TokenAssumption DEF Holder
<1> HIDE DEF fee
<1>5. minted \in [Holder -> Nat] /\ Sum(minted) = Sum(balances) + (n - fee)
  BY <1>3, <1>4, SumOfCredit
<1> HIDE DEF minted
<1>6. Credit(minted, feeRecipient, fee) \in [Holder -> Nat]
      /\ Sum(Credit(minted, feeRecipient, fee)) = Sum(minted) + fee
  BY <1>2, <1>3, <1>4, <1>5, SumOfCredit
<1>7. balances' = Credit(minted, feeRecipient, fee)
  BY DEF Erc20In, minted, fee, AddToPool
<1>8. Sum(balances) = totalSupply /\ totalSupply \in Nat /\ totalSupply <= invested[pool] + released
  BY DEF IInv, TypeOK, SupplyIsSumOfBalances, BackedUpToReleases
<1>9. totalSupply' = totalSupply + n /\ totalSupply' = Sum(balances')
  BY <1>1, <1>5, <1>6, <1>7, <1>8 DEF Erc20In, AddToPool
<1>10. /\ underlying' \in [Account -> Nat] /\ invested' \in [Provider -> Nat]
       /\ pool' \in Provider /\ released' = released /\ blockedRewards' = blockedRewards
       /\ invested'[pool'] = invested[pool] + n
  BY DEF Erc20In, IInv, TypeOK, quarantine, AddToPool
<1>11. totalSupply' <= invested'[pool'] + released'
  BY <1>8, <1>9, <1>10 DEF IInv, TypeOK
<1> QED BY <1>6, <1>7, <1>8, <1>9, <1>10, <1>11
       DEF Books, IInv, TypeOK, SupplyIsSumOfBalances, BackedUpToReleases

LEMMA BooksErc20Out ==
  ASSUME IInv, NEW by \in Account, NEW to \in Account, NEW n \in Nat, Erc20Out(by, to, n)
  PROVE  Books'
<1> DEFINE fee == FeeOn(burnFee, n)
           left == Debit(balances, by, n)
<1>1. fee \in 0..n
  BY FeeBound DEF IInv, TypeOK
<1>2. fee > 0 => feeRecipient # NoAccount
  BY DEF Erc20Out, CanPay, TakeFromPool
<1>3. balances \in [Holder -> Nat] /\ by \in Holder /\ feeRecipient \in Holder \cup {NoAccount}
  BY DEF IInv, TypeOK, Holder
<1>4. n - fee \in Nat /\ fee \in Nat
  BY <1>1
<1> HIDE DEF fee
<1>5. left \in [Holder -> Nat] /\ Sum(left) = Sum(balances) - n
  BY <1>3, SumOfDebit DEF Erc20Out, TakeFromPool
<1> HIDE DEF left
<1>6. Credit(left, feeRecipient, fee) \in [Holder -> Nat]
      /\ Sum(Credit(left, feeRecipient, fee)) = Sum(left) + fee
  BY <1>2, <1>3, <1>4, <1>5, SumOfCredit
<1>7. balances' = Credit(left, feeRecipient, fee)
  BY DEF Erc20Out, left, fee, TakeFromPool
<1>8. Sum(balances) = totalSupply /\ totalSupply \in Nat /\ totalSupply <= invested[pool] + released
  BY DEF IInv, TypeOK, SupplyIsSumOfBalances, BackedUpToReleases
<1>9. totalSupply' = totalSupply - n + fee /\ totalSupply' = Sum(balances') /\ n <= totalSupply
      /\ n - fee <= invested[pool]
  BY <1>1, <1>5, <1>6, <1>7, <1>8 DEF Erc20Out, fee, TakeFromPool
<1>10. /\ underlying' \in [Account -> Nat] /\ invested' \in [Provider -> Nat]
       /\ pool' \in Provider /\ released' = released /\ blockedRewards' = blockedRewards
       /\ invested'[pool'] = invested[pool] - (n - fee)
  BY <1>4, <1>9 DEF Erc20Out, IInv, TypeOK, quarantine, fee, TakeFromPool
<1>11. totalSupply' \in Nat /\ totalSupply' <= invested'[pool'] + released'
  BY <1>4, <1>8, <1>9, <1>10 DEF IInv, TypeOK
<1> QED BY <1>6, <1>7, <1>9, <1>10, <1>11
       DEF Books, IInv, TypeOK, SupplyIsSumOfBalances, BackedUpToReleases

LEMMA BooksBurn ==
  ASSUME IInv, NEW by \in Account, NEW n \in Nat, BurnFluidWithoutWithdrawal(by, n)
  PROVE  Books'
<1>1. balances \in [Holder -> Nat] /\ by \in Holder /\ n <= balances[by]
  BY DEF IInv, TypeOK, Holder, BurnFluidWithoutWithdrawal
<1>2. balances' \in [Holder -> Nat] /\ Sum(balances') = Sum(balances) - n
  BY <1>1, SumOfDebit DEF BurnFluidWithoutWithdrawal
<1>3. n <= totalSupply /\ totalSupply' = totalSupply - n /\ UNCHANGED <<reserve, quarantine>>
  BY DEF BurnFluidWithoutWithdrawal
<1> QED BY <1>2, <1>3
       DEF Books, IInv, TypeOK, SupplyIsSumOfBalances, BackedUpToReleases, reserve, quarantine

LEMMA BooksMove ==
  ASSUME IInv, NEW from \in Account, NEW to \in Holder, NEW n \in Nat, Move(from, to, n)
  PROVE  Books'
<1>1. balances \in [Holder -> Nat] /\ from \in Holder /\ n <= balances[from] /\ to # NoAccount
  BY TokenAssumption DEF IInv, TypeOK, Holder, Move
<1> DEFINE left == Debit(balances, from, n)
<1>2. left \in [Holder -> Nat] /\ Sum(left) = Sum(balances) - n
  BY <1>1, SumOfDebit
<1> HIDE DEF left
<1>3. Credit(left, to, n) \in [Holder -> Nat] /\ Sum(Credit(left, to, n)) = Sum(left) + n
  BY <1>1, <1>2, SumOfCredit
<1>4. balances' = Credit(left, to, n) /\ UNCHANGED <<totalSupply, reserve, quarantine>>
  BY DEF Move, left
<1>5. Sum(balances) \in Nat
  BY <1>1, HolderIsFinite, SumType
<1> QED BY <1>2, <1>3, <1>4, <1>5
       DEF Books, IInv, TypeOK, SupplyIsSumOfBalances, BackedUpToReleases, reserve, quarantine

\* The burn of a circular provider, which several actions start with.
LEMMA BooksSelfBurn ==
  ASSUME IInv
  PROVE  LET left == AfterBurn(balances, pool)
             burnt == SelfBurn(balances, pool)
         IN  /\ left \in [Holder -> Nat] /\ burnt \in 0..totalSupply
             /\ Sum(left) = totalSupply - burnt
<1>1. balances \in [Holder -> Nat] /\ pool \in Provider /\ Sum(balances) = totalSupply
  BY DEF IInv, TypeOK, SupplyIsSumOfBalances
<1> QED BY <1>1, SumOfBurn

LEMMA BooksRewardPoolAmount ==
  ASSUME IInv, RewardPoolAmount
  PROVE  Books'
<1> DEFINE left == AfterBurn(balances, pool)
           burnt == SelfBurn(balances, pool)
<1>1. left \in [Holder -> Nat] /\ burnt \in 0..totalSupply /\ Sum(left) = totalSupply - burnt
  BY BooksSelfBurn
<1>2. balances' = left /\ totalSupply' = totalSupply - burnt /\ UNCHANGED <<reserve, quarantine>>
  BY DEF RewardPoolAmount
<1> HIDE DEF left, burnt
<1> QED BY <1>1, <1>2
       DEF Books, IInv, TypeOK, SupplyIsSumOfBalances, BackedUpToReleases, reserve, quarantine

LEMMA BooksDrainRewardPool ==
  ASSUME IInv, NEW by \in Account, NEW to \in Account, NEW n \in Nat, DrainRewardPool(by, to, n)
  PROVE  Books'
<1> DEFINE left == AfterBurn(balances, pool)
           burnt == SelfBurn(balances, pool)
<1>1. left \in [Holder -> Nat] /\ burnt \in 0..totalSupply /\ Sum(left) = totalSupply - burnt
  BY BooksSelfBurn
<1>2. /\ balances' = Credit(left, to, n) /\ totalSupply' = totalSupply - burnt + n
      /\ n <= invested[pool] - (totalSupply - burnt)
      /\ UNCHANGED <<reserve, quarantine>>
  BY DEF DrainRewardPool, RewardPool
<1> HIDE DEF left, burnt
<1>3. to \in Holder /\ to # NoAccount
  BY TokenAssumption DEF Holder
<1>4. Credit(left, to, n) \in [Holder -> Nat] /\ Sum(Credit(left, to, n)) = Sum(left) + n
  BY <1>1, <1>3, SumOfCredit
<1> QED BY <1>1, <1>2, <1>4
       DEF Books, IInv, TypeOK, SupplyIsSumOfBalances, BackedUpToReleases, reserve, quarantine

LEMMA BooksUnblockReward ==
  ASSUME IInv, NEW by \in Account, NEW user \in Account, NEW n \in Nat, NEW payout \in BOOLEAN,
         UnblockReward(by, user, n, payout)
  PROVE  Books'
<1>1. user \in Holder /\ user # NoAccount /\ balances \in [Holder -> Nat]
  BY TokenAssumption DEF Holder, IInv, TypeOK
<1>2. Credit(balances, user, n) \in [Holder -> Nat]
      /\ Sum(Credit(balances, user, n)) = Sum(balances) + n
  BY <1>1, SumOfCredit
<1>3. n <= blockedRewards[user] /\ blockedRewards' = [blockedRewards EXCEPT ![user] = @ - n]
      /\ UNCHANGED reserve
  BY DEF UnblockReward, IsBlocked
<1>4. blockedRewards' \in [Account -> Nat]
  BY <1>3 DEF IInv, TypeOK
<1>5. CASE payout
  <2>1. balances' = Credit(balances, user, n) /\ totalSupply' = totalSupply + n
        /\ released' = released + n
    BY <1>5 DEF UnblockReward
  <2> QED BY <1>2, <1>3, <1>4, <2>1
         DEF Books, IInv, TypeOK, SupplyIsSumOfBalances, BackedUpToReleases, reserve
<1>6. CASE ~payout
  <2>1. UNCHANGED <<balances, totalSupply, released>>
    BY <1>6 DEF UnblockReward, erc20
  <2> QED BY <1>3, <1>4, <2>1
         DEF Books, IInv, TypeOK, SupplyIsSumOfBalances, BackedUpToReleases, reserve
<1> QED BY <1>5, <1>6

LEMMA BooksBatchReward ==
  ASSUME IInv, NEW by \in Account, NEW rewards, IsBatch(rewards), BatchReward(by, rewards)
  PROVE  Books'
<1> DEFINE left == AfterBurn(balances, pool)
           burnt == SelfBurn(balances, pool)
           paid == Paid(rewards)
           after == [h \in Holder |-> left[h] + Total(rewards, Of(rewards, paid, h))]
<1>1. left \in [Holder -> Nat] /\ burnt \in 0..totalSupply /\ Sum(left) = totalSupply - burnt
  BY BooksSelfBurn
<1>2. /\ balances' = after /\ totalSupply' = totalSupply - burnt + Total(rewards, paid)
      /\ Total(rewards, DOMAIN rewards) <= invested[pool] - (totalSupply - burnt)
      /\ UNCHANGED <<reserve, released>>
      /\ blockedRewards' = [a \in Account |-> blockedRewards[a]
                              + Total(rewards, Of(rewards, Quarantined(rewards), a))]
  BY DEF BatchReward, PoolSuffices, RewardPool
<1>3. paid \in SUBSET DOMAIN rewards /\ Quarantined(rewards) \in SUBSET DOMAIN rewards
  BY DEF Paid, Quarantined
<1> HIDE DEF left, burnt, paid
<1>4. after \in [Holder -> Nat] /\ Sum(after) = Sum(left) + Total(rewards, paid)
  BY <1>1, <1>3, SumOfBatch
<1>5. Total(rewards, paid) \in Nat /\ Total(rewards, paid) <= Total(rewards, DOMAIN rewards)
  BY <1>3, PartOfBatch
<1>6. Total(rewards, DOMAIN rewards) \in Nat
  BY PartOfBatch
<1>7. blockedRewards' \in [Account -> Nat]
  <2>1. ASSUME NEW a \in Account
        PROVE  Total(rewards, Of(rewards, Quarantined(rewards), a)) \in Nat
    <3>1. Of(rewards, Quarantined(rewards), a) \in SUBSET DOMAIN rewards
      BY <1>3 DEF Of
    <3> QED BY <3>1, PartOfBatch
  <2> QED BY <1>2, <2>1 DEF IInv, TypeOK
<1> HIDE DEF after
<1>8. totalSupply' \in Nat /\ totalSupply' = Sum(balances')
      /\ totalSupply' <= invested[pool] + released
  BY <1>1, <1>2, <1>4, <1>5, <1>6 DEF IInv, TypeOK
<1> QED BY <1>2, <1>4, <1>7, <1>8
       DEF Books, IInv, TypeOK, SupplyIsSumOfBalances, BackedUpToReleases, reserve

LEMMA BooksUpgrade ==
  ASSUME IInv, NEW by \in Account, NEW newPool \in Provider, NEW min \in Nat,
         UpgradeLiquidityProvider(by, newPool, min)
  PROVE  Books'
<1> DEFINE left == AfterBurn(balances, pool)
           burnt == SelfBurn(balances, pool)
           more == SelfBurn(left, newPool)
           after == AfterBurn(left, newPool)
<1>1. left \in [Holder -> Nat] /\ burnt \in 0..totalSupply /\ Sum(left) = totalSupply - burnt
  BY BooksSelfBurn
<1>2. /\ balances' = after /\ totalSupply' = totalSupply - burnt - more
      /\ invested' = Shifted(newPool) /\ pool' = newPool /\ UNCHANGED <<underlying, quarantine>>
  BY DEF UpgradeLiquidityProvider
<1> HIDE DEF left, burnt
<1>3. after \in [Holder -> Nat] /\ more \in 0..Sum(left) /\ Sum(after) = Sum(left) - more
  BY <1>1, SumOfBurn
<1> HIDE DEF more, after
<1>4. invested' \in [Provider -> Nat] /\ invested'[newPool] >= invested[pool]
  BY <1>2, SMTT(30) DEF Shifted, IInv, TypeOK
<1>5. totalSupply' \in Nat /\ totalSupply' = Sum(balances') /\ totalSupply' <= totalSupply
  BY <1>1, <1>2, <1>3 DEF IInv, TypeOK
<1> QED BY <1>2, <1>3, <1>4, <1>5
       DEF Books, IInv, TypeOK, SupplyIsSumOfBalances, BackedUpToReleases, quarantine

LEMMA BooksAccrueInterest ==
  ASSUME IInv, NEW p \in Provider, AccrueInterest(p)
  PROVE  Books'
BY DEF AccrueInterest, Books, IInv, TypeOK, SupplyIsSumOfBalances, BackedUpToReleases, erc20,
       quarantine

-----------------------------------------------------------------------------
(* The other variables.                                                    *)

Rules ==
  /\ allowances \in [Account -> [Account -> Nat]] /\ nonces \in [Account -> Nat]
  /\ signed \subseteq PermitMessage /\ budget \in [Account -> [Account -> Int]]
  /\ maxUncheckedReward \in Nat
  /\ mintFee \in 0..FeeDenom - 1 /\ burnFee \in 0..FeeDenom - 1
  /\ feeRecipient \in Holder \cup {NoAccount}
  /\ noEmergencyMode \in BOOLEAN /\ blacklist \subseteq Account
  /\ operator \in Account /\ {oracle, emergencyCouncil} \subseteq Account \cup {NoAccount}

ruleVars == <<approvals, maxUncheckedReward, fees, safety, roles>>

LEMMA RulesUnchanged == Rules /\ UNCHANGED ruleVars => Rules'
BY DEF Rules, ruleVars, approvals, fees, safety, roles

LEMMA IInvIsBooksAndRules == IInv <=> Books /\ Rules
BY DEF IInv, TypeOK, Books, Rules

LEMMA RewardsAreBatches ==
  ASSUME NEW rewards \in Rewards
  PROVE  IsBatch(rewards)
<1>1. PICK n \in 0..MaxBatch : rewards \in [1..n -> [winner : Account, amount : Amount]]
  BY DEF Rewards
<1>2. n \in Nat /\ Amount \subseteq Nat
  BY TokenAssumption
<1>3. ASSUME NEW i \in 1..n  PROVE rewards[i] \in [winner : Account, amount : Nat]
  <2>1. rewards[i] \in [winner : Account, amount : Amount]
    BY <1>1
  <2> QED BY <1>2, <2>1
<1>4. rewards \in [1..n -> [winner : Account, amount : Nat]]
  BY <1>1, <1>3
<1> QED BY <1>2, <1>4 DEF IsBatch

LEMMA InvSettings ==
  ASSUME IInv, NEW by \in Account, Settings(by)
  PROVE  IInv'
<1>1. Books /\ Rules
  BY IInvIsBooksAndRules
<1>2. ASSUME NEW n \in Threshold, UpdateRewardQuarantineThreshold(by, n)  PROVE Books' /\ Rules'
  BY <1>1, <1>2, BooksUnchanged, TokenAssumption
     DEF UpdateRewardQuarantineThreshold, bookVars, Rules, approvals, fees, safety, roles
<1>3. ASSUME NEW m \in Fee, NEW b \in Fee, NEW r \in Recipient, SetFeeDetails(by, m, b, r)
      PROVE  Books' /\ Rules'
  BY <1>1, <1>3, BooksUnchanged, TokenAssumption
     DEF SetFeeDetails, bookVars, Rules, approvals, quarantine, safety, roles
<1>4. ASSUME NEW a \in Suspect, NEW status \in BOOLEAN, BlacklistAddress(by, a, status)
      PROVE  Books' /\ Rules'
  BY <1>1, <1>4, BooksUnchanged, TokenAssumption
     DEF BlacklistAddress, bookVars, Rules, approvals, quarantine, fees, roles
<1>5. ASSUME EnableEmergencyMode(by) \/ DisableEmergencyMode(by)  PROVE Books' /\ Rules'
  BY <1>1, <1>5, BooksUnchanged
     DEF EnableEmergencyMode, DisableEmergencyMode, bookVars, Rules, approvals, quarantine, fees, roles
<1>6. ASSUME NEW a \in Appointee, UpdateRoles(by, a)  PROVE Books' /\ Rules'
  BY <1>1, <1>6, BooksUnchanged, TokenAssumption
     DEF UpdateRoles, bookVars, Rules, approvals, quarantine, fees, safety
<1>7. Books' /\ Rules'
  BY <1>2, <1>3, <1>4, <1>5, <1>6 DEF Settings
<1> QED BY <1>7 DEF IInv, TypeOK, Books, Rules

LEMMA InvTransfers ==
  ASSUME IInv, NEW by \in Account, Transfers(by)
  PROVE  IInv'
<1>1. Books /\ Rules
  BY IInvIsBooksAndRules
<1>2. ASSUME NEW to \in Holder, NEW n \in Amount, Transfer(by, to, n)  PROVE Books' /\ Rules'
  BY <1>1, <1>2, BooksMove, RulesUnchanged, TokenAssumption
     DEF Transfer, Move, ruleVars, quarantine
<1>3. ASSUME NEW to \in Holder, NEW from \in Account, NEW n \in Amount, TransferFrom(by, from, to, n)
      PROVE  Books' /\ Rules'
  <2>1. n \in Nat
    BY TokenAssumption
  <2>2. Books'
    BY <1>3, <2>1, BooksMove DEF TransferFrom
  <2>3. allowances' \in [Account -> [Account -> Nat]] /\ budget' \in [Account -> [Account -> Int]]
    <3>1. CASE allowances[from][by] = Unlimited
      BY <1>1, <1>3, <3>1 DEF TransferFrom, SpendAllowance, Rules
    <3>2. CASE allowances[from][by] # Unlimited
      <4>1. allowances[from][by] \in Nat /\ n <= allowances[from][by] /\ budget[from][by] \in Int
        BY <1>1, <1>3, <3>2 DEF TransferFrom, SpendAllowance, Rules
      <4>2. allowances[from][by] - n \in Nat /\ budget[from][by] - n \in Int
        BY <4>1, <2>1
      <4>3. /\ allowances' = [allowances EXCEPT ![from][by] = @ - n]
            /\ budget' = [budget EXCEPT ![from][by] = @ - n]
        BY <1>3, <3>2 DEF TransferFrom, SpendAllowance
      <4>4. allowances \in [Account -> [Account -> Nat]] /\ budget \in [Account -> [Account -> Int]]
        BY <1>1 DEF Rules
      <4>5. allowances' \in [Account -> [Account -> Nat]]
        BY <4>2, <4>3, <4>4
      <4>6. budget' \in [Account -> [Account -> Int]]
        BY <4>2, <4>3, <4>4
      <4> QED BY <4>5, <4>6
    <3> QED BY <3>1, <3>2
  <2> QED BY <1>1, <1>3, <2>2, <2>3
          DEF TransferFrom, Move, Rules, quarantine, fees, safety, roles
<1>4. ASSUME NEW a \in Grantee, NEW n \in Grant,
             Approve(by, a, n) \/ IncreaseAllowance(by, a, n)
      PROVE  Books' /\ Rules'
  <2>1. a \in Account /\ n \in Nat
    BY TokenAssumption
  <2>2. Books'
    BY <1>1, <1>4, BooksUnchanged DEF Approve, IncreaseAllowance, bookVars, quarantine
  <2>3. allowances \in [Account -> [Account -> Nat]] /\ budget \in [Account -> [Account -> Int]]
    BY <1>1 DEF Rules
  <2>4. budget[by][a] + n \in Int /\ budget' = [budget EXCEPT ![by][a] = @ + n]
    BY <1>4, <2>1, <2>3 DEF Approve, IncreaseAllowance, Grants
  <2>5. budget' \in [Account -> [Account -> Int]]
    BY <2>1, <2>3, <2>4
  <2>6. allowances' \in [Account -> [Account -> Nat]]
    <3>1. CASE Approve(by, a, n)
      BY <2>1, <2>3, <3>1 DEF Approve
    <3>2. CASE IncreaseAllowance(by, a, n)
      BY <2>1, <2>3, <3>2 DEF IncreaseAllowance
    <3> QED BY <1>4, <3>1, <3>2
  <2> QED BY <1>1, <1>4, <2>2, <2>5, <2>6
          DEF Approve, IncreaseAllowance, Rules, quarantine, fees, safety, roles
<1>5. ASSUME NEW a \in Grantee, NEW n \in Grant, DecreaseAllowance(by, a, n)
      PROVE  Books' /\ Rules'
  BY <1>1, <1>5, BooksUnchanged, TokenAssumption
     DEF DecreaseAllowance, bookVars, Rules, quarantine, fees, safety, roles
<1>6. ASSUME NEW a \in Grantee, NEW n \in Grant, Sign(by, a, n)
      PROVE  Books' /\ Rules'
  BY <1>1, <1>6, BooksUnchanged, TokenAssumption
     DEF Sign, Grants, PermitMessage, bookVars, Rules, quarantine, fees, safety, roles
<1>7. Books' /\ Rules'
  BY <1>2, <1>3, <1>4, <1>5, <1>6 DEF Transfers
<1> QED BY <1>7 DEF IInv, TypeOK, Books, Rules

LEMMA Inductive == IInv /\ [Next]_vars => IInv'
<1> SUFFICES ASSUME IInv, [Next]_vars  PROVE IInv'
  OBVIOUS
<1>1. Books /\ Rules /\ Amount \subseteq Nat
  BY IInvIsBooksAndRules, TokenAssumption
<1>2. ASSUME NEW by \in Account, Exchange(by)  PROVE IInv'
  <2>1. Books'
    BY <1>1, <1>2, BooksErc20In, BooksErc20Out, BooksBurn DEF Exchange
  <2>2. UNCHANGED ruleVars
    BY <1>2 DEF Exchange, Erc20In, Erc20Out, BurnFluidWithoutWithdrawal, ruleVars, quarantine
  <2> QED BY <1>1, <2>1, <2>2, RulesUnchanged DEF IInv, TypeOK, Books, Rules
<1>3. ASSUME NEW by \in Account, RewardSteps(by)  PROVE IInv'
  <2>1. Books'
    BY <1>1, <1>3, RewardsAreBatches, BooksBatchReward, BooksDrainRewardPool, BooksUnblockReward,
       BooksUpgrade DEF RewardSteps
  <2>2. UNCHANGED ruleVars
    BY <1>3 DEF RewardSteps, BatchReward, DrainRewardPool, UnblockReward,
                UpgradeLiquidityProvider, ruleVars, quarantine
  <2> QED BY <1>1, <2>1, <2>2, RulesUnchanged DEF IInv, TypeOK, Books, Rules
<1>4. ASSUME NEW by \in Account, Settings(by)  PROVE IInv'
  BY <1>4, InvSettings
<1>5. ASSUME NEW by \in Account, Transfers(by)  PROVE IInv'
  BY <1>5, InvTransfers
<1>6. ASSUME NEW p \in signed, Permit(p)  PROVE IInv'
  <2>1. p \in PermitMessage
    BY <1>1 DEF Rules
  <2>2. Books'
    BY <1>1, <1>6, BooksUnchanged DEF Permit, bookVars, quarantine
  <2>3. Rules'
    BY <1>1, <1>6, <2>1 DEF Permit, Rules, PermitMessage, quarantine, fees, safety, roles
  <2> QED BY <2>2, <2>3 DEF IInv, TypeOK, Books, Rules
<1>7. ASSUME NEW p \in Provider, AccrueInterest(p)  PROVE IInv'
  <2>1. Books'
    BY <1>7, BooksAccrueInterest
  <2>2. UNCHANGED ruleVars
    BY <1>7 DEF AccrueInterest, ruleVars, quarantine
  <2> QED BY <1>1, <2>1, <2>2, RulesUnchanged DEF IInv, TypeOK, Books, Rules
<1>8. ASSUME RewardPoolAmount  PROVE IInv'
  <2>1. Books'
    BY <1>8, BooksRewardPoolAmount
  <2>2. UNCHANGED ruleVars
    BY <1>8 DEF RewardPoolAmount, ruleVars, quarantine
  <2> QED BY <1>1, <2>1, <2>2, RulesUnchanged DEF IInv, TypeOK, Books, Rules
<1>9. ASSUME UNCHANGED vars  PROVE IInv'
  <2>1. UNCHANGED bookVars /\ UNCHANGED ruleVars
    BY <1>9 DEF vars, bookVars, ruleVars, erc20, reserve, quarantine, approvals
  <2> QED BY <1>1, <2>1, BooksUnchanged, RulesUnchanged DEF IInv, TypeOK, Books, Rules
<1> QED BY <1>2, <1>3, <1>4, <1>5, <1>6, <1>7, <1>8, <1>9 DEF Next

LEMMA Initially == Init => IInv
<1> SUFFICES ASSUME Init  PROVE IInv
  OBVIOUS
<1>1. Sum(balances) = 0
  BY SumOfZeros DEF Init
<1>2. TypeOK
  BY TokenAssumption DEF Init, TypeOK, PermitMessage
<1> QED BY <1>1, <1>2 DEF Init, IInv, TypeOK, SupplyIsSumOfBalances, BackedUpToReleases

LEMMA Invariance == Spec => []IInv
BY Initially, Inductive, PTL DEF Spec

\* Every variable of the token keeps its type; in particular no balance, no
\* supply, no pool and no quarantined amount ever goes below zero.
THEOREM TypeCorrect == Spec => []TypeOK
BY Invariance, PTL DEF IInv

\* Token.sol: totalSupply_ is the sum of balances_ after any calls, through
\* fees, batches with repeated winners and burns of a circular provider.
THEOREM SupplyAddsUp == Spec => []SupplyIsSumOfBalances
BY Invariance, PTL DEF IInv

\* Token.sol: the pool backs every token but those unblockReward has paid
\* out, whatever wraps, fees, batches, drains and upgrades came before.
THEOREM Backed == Spec => []BackedUpToReleases
BY Invariance, PTL DEF IInv

-----------------------------------------------------------------------------
(* What each step does to the supply, the pool, the wallets and the        *)
(* balances of frozen accounts.                                            *)

NothingIssued ==
  ~noEmergencyMode => /\ totalSupply' <= totalSupply
                      /\ \A a \in Account : underlying'[a] >= underlying[a]

FrozenStays ==
  \A a \in blacklist : balances'[a] < balances[a] =>
    /\ totalSupply - totalSupply' = balances[a] - balances'[a]
    /\ UNCHANGED reserve

NoWiderGap ==
  released' = released /\ totalSupply' > invested'[pool'] =>
    totalSupply' - invested'[pool'] <= totalSupply - invested[pool]

Controls == NothingIssued /\ FrozenStays /\ NoWiderGap

LEMMA TokenTypes ==
  ASSUME IInv
  PROVE  /\ totalSupply \in Nat /\ invested \in [Provider -> Nat] /\ pool \in Provider
         /\ released \in Nat /\ underlying \in [Account -> Nat] /\ balances \in [Holder -> Nat]
         /\ blacklist \subseteq Account /\ Account \subseteq Holder
BY DEF IInv, TypeOK, Holder

\* A step that moves no tokens and no reserves.
LEMMA ControlsIdle ==
  ASSUME IInv, UNCHANGED <<erc20, underlying, invested, pool>>
  PROVE  Controls
<1>1. \A a \in Account : underlying'[a] >= underlying[a]
  BY TokenTypes
<1>2. \A a \in Account : balances'[a] = balances[a] /\ balances[a] \in Nat
  BY TokenTypes DEF erc20
<1>3. totalSupply' = totalSupply /\ totalSupply \in Nat
  BY TokenTypes DEF erc20
<1>4. NothingIssued
  BY <1>1, <1>3 DEF NothingIssued
<1>5. FrozenStays
  BY <1>2, TokenTypes DEF FrozenStays
<1>6. NoWiderGap
  BY <1>3, TokenTypes DEF NoWiderGap
<1> QED BY <1>4, <1>5, <1>6 DEF Controls

\* Credits take nothing from anybody.
LEMMA CreditKeeps ==
  ASSUME NEW b \in [Holder -> Nat], NEW a, NEW n \in Nat, NEW h \in Holder
  PROVE  Credit(b, a, n)[h] \in Nat /\ Credit(b, a, n)[h] >= b[h]
BY DEF Credit

\* The accounts that hold tokens are no liquidity providers.
LEMMA BurnKeeps ==
  ASSUME NEW b \in [Holder -> Nat], NEW p \in Provider, NEW a \in Account
  PROVE  AfterBurn(b, p)[a] = b[a] /\ b[a] \in Nat
<1>1. a # p /\ a \in Holder
  BY TokenAssumption DEF Holder
<1> QED BY <1>1 DEF AfterBurn

LEMMA ControlsErc20In ==
  ASSUME IInv, NEW by \in Account, NEW to \in Account, NEW n \in Nat, Erc20In(by, to, n)
  PROVE  Controls
<1> DEFINE fee == FeeOn(mintFee, n)
           minted == Credit(balances, to, n - fee)
<1>1. fee \in 0..n
  BY FeeBound DEF IInv, TypeOK
<1>2. /\ noEmergencyMode /\ totalSupply' = totalSupply + n /\ pool' = pool
      /\ invested' = [invested EXCEPT ![pool] = @ + n]
      /\ balances' = Credit(minted, feeRecipient, fee)
  BY DEF Erc20In, MayWrap, AddToPool
<1> HIDE DEF fee
<1>3. minted \in [Holder -> Nat] /\ \A h \in Holder : minted[h] >= balances[h]
  BY <1>1, TokenTypes DEF Credit
<1> HIDE DEF minted
<1>4. \A a \in Account : balances'[a] \in Nat /\ balances'[a] >= balances[a] /\ balances[a] \in Nat
  BY <1>1, <1>2, <1>3, TokenTypes DEF Credit
<1>5. FrozenStays
  BY <1>4, TokenTypes DEF FrozenStays
<1>6. NoWiderGap
  BY <1>2, TokenTypes DEF NoWiderGap
<1> QED BY <1>2, <1>5, <1>6 DEF Controls, NothingIssued

LEMMA ControlsErc20Out ==
  ASSUME IInv, NEW by \in Account, NEW to \in Account, NEW n \in Nat, Erc20Out(by, to, n)
  PROVE  Controls
<1> DEFINE fee == FeeOn(burnFee, n)
           left == Debit(balances, by, n)
<1>1. fee \in 0..n
  BY FeeBound DEF IInv, TypeOK
<1>2. /\ by \notin blacklist /\ totalSupply' = totalSupply - n + fee /\ pool' = pool
      /\ invested' = [invested EXCEPT ![pool] = @ - (n - fee)]
      /\ underlying' = [underlying EXCEPT ![to] = @ + (n - fee)]
      /\ balances' = Credit(left, feeRecipient, fee) /\ n <= balances[by]
  BY DEF Erc20Out, MayUnwrap, TakeFromPool
<1> HIDE DEF fee
<1>3. left \in [Holder -> Nat] /\ \A h \in Holder : h # by => left[h] = balances[h]
  BY <1>2, TokenTypes DEF Debit
<1> HIDE DEF left
<1>4. \A a \in Account : a # by => balances'[a] \in Nat /\ balances'[a] >= balances[a] /\ balances[a] \in Nat
  BY <1>1, <1>2, <1>3, TokenTypes DEF Credit
<1>5. FrozenStays
  BY <1>2, <1>4, TokenTypes DEF FrozenStays
<1>6. NoWiderGap
  BY <1>1, <1>2, TokenTypes DEF NoWiderGap
<1>7. NothingIssued
  BY <1>1, <1>2, TokenTypes DEF NothingIssued
<1> QED BY <1>5, <1>6, <1>7 DEF Controls

LEMMA ControlsBurn ==
  ASSUME IInv, NEW by \in Account, NEW n \in Nat, BurnFluidWithoutWithdrawal(by, n)
  PROVE  Controls
<1>1. /\ n <= balances[by] /\ n <= totalSupply /\ totalSupply' = totalSupply - n
      /\ balances' = [balances EXCEPT ![by] = @ - n]
      /\ UNCHANGED reserve
  BY DEF BurnFluidWithoutWithdrawal, Debit
<1>2. FrozenStays
  BY <1>1, TokenTypes DEF FrozenStays
<1>3. NoWiderGap
  BY <1>1, TokenTypes DEF NoWiderGap, reserve
<1>4. NothingIssued
  BY <1>1, TokenTypes DEF NothingIssued, reserve
<1> QED BY <1>2, <1>3, <1>4 DEF Controls

LEMMA ControlsRewardPoolAmount ==
  ASSUME IInv, RewardPoolAmount
  PROVE  Controls
<1> DEFINE burnt == SelfBurn(balances, pool)
<1>1. burnt \in 0..totalSupply
  BY BooksSelfBurn
<1>2. /\ totalSupply' = totalSupply - burnt /\ balances' = AfterBurn(balances, pool)
      /\ UNCHANGED reserve
  BY DEF RewardPoolAmount
<1> HIDE DEF burnt
<1>3. \A a \in Account : balances'[a] = balances[a] /\ balances[a] \in Nat
  BY <1>2, BurnKeeps, TokenTypes
<1>4. FrozenStays
  BY <1>3, TokenTypes DEF FrozenStays
<1>5. NoWiderGap
  BY <1>1, <1>2, TokenTypes DEF NoWiderGap, reserve
<1>6. NothingIssued
  BY <1>1, <1>2, TokenTypes DEF NothingIssued, reserve
<1> QED BY <1>4, <1>5, <1>6 DEF Controls

LEMMA ControlsDrain ==
  ASSUME IInv, NEW by \in Account, NEW to \in Account, NEW n \in Nat, DrainRewardPool(by, to, n)
  PROVE  Controls
<1> DEFINE burnt == SelfBurn(balances, pool)
           left == AfterBurn(balances, pool)
<1>1. burnt \in 0..totalSupply /\ left \in [Holder -> Nat]
  BY BooksSelfBurn
<1>2. /\ noEmergencyMode /\ totalSupply' = totalSupply - burnt + n
      /\ n <= invested[pool] - (totalSupply - burnt)
      /\ balances' = Credit(left, to, n) /\ UNCHANGED reserve
  BY DEF DrainRewardPool, RewardPool
<1>3. \A a \in Account : left[a] = balances[a] /\ balances[a] \in Nat
  BY BurnKeeps, TokenTypes
<1> HIDE DEF burnt, left
<1>4. \A a \in Account : balances'[a] \in Nat /\ balances'[a] >= balances[a]
  BY <1>1, <1>2, <1>3, TokenTypes DEF Credit
<1>5. FrozenStays
  BY <1>3, <1>4, TokenTypes DEF FrozenStays
<1>6. totalSupply' <= invested'[pool']
  BY <1>1, <1>2, TokenTypes DEF reserve
<1>7. NoWiderGap
  BY <1>1, <1>2, <1>6, TokenTypes DEF NoWiderGap, reserve
<1> QED BY <1>2, <1>5, <1>7 DEF Controls, NothingIssued

LEMMA ControlsUnblock ==
  ASSUME IInv, NEW by \in Account, NEW user \in Account, NEW n \in Nat, NEW payout \in BOOLEAN,
         UnblockReward(by, user, n, payout)
  PROVE  Controls
<1>1. CASE payout
  <2>1. /\ noEmergencyMode /\ totalSupply' = totalSupply + n /\ released' = released + n
        /\ balances' = Credit(balances, user, n) /\ UNCHANGED reserve
    BY <1>1 DEF UnblockReward
  <2>2. \A a \in Account : balances'[a] \in Nat /\ balances'[a] >= balances[a] /\ balances[a] \in Nat
    BY <2>1, TokenTypes DEF Credit
  <2>3. FrozenStays
    BY <2>2, TokenTypes DEF FrozenStays
  <2>4. NoWiderGap
    BY <2>1, TokenTypes DEF NoWiderGap, reserve
  <2> QED BY <2>1, <2>3, <2>4 DEF Controls, NothingIssued
<1>2. CASE ~payout
  BY <1>2, ControlsIdle DEF UnblockReward, reserve
<1> QED BY <1>1, <1>2

LEMMA ControlsBatchReward ==
  ASSUME IInv, NEW by \in Account, NEW rewards, IsBatch(rewards), BatchReward(by, rewards)
  PROVE  Controls
<1> DEFINE burnt == SelfBurn(balances, pool)
           left == AfterBurn(balances, pool)
           paid == Paid(rewards)
           all == Total(rewards, DOMAIN rewards)
           given(h) == Total(rewards, Of(rewards, paid, h))
<1>1. burnt \in 0..totalSupply /\ left \in [Holder -> Nat]
  BY BooksSelfBurn
<1>2. paid \in SUBSET DOMAIN rewards
  BY DEF Paid, Quarantined
<1>3. /\ noEmergencyMode /\ totalSupply' = totalSupply - burnt + Total(rewards, paid)
      /\ all <= invested[pool] - (totalSupply - burnt)
      /\ balances' = [h \in Holder |-> left[h] + given(h)] /\ UNCHANGED reserve
  BY DEF BatchReward, PoolSuffices, RewardPool
<1>4. Total(rewards, paid) \in Nat /\ Total(rewards, paid) <= all /\ all \in Nat
  BY <1>2, PartOfBatch
<1>5. \A h \in Holder : given(h) \in Nat
  <2> TAKE h \in Holder
  <2>1. Of(rewards, paid, h) \in SUBSET DOMAIN rewards
    BY <1>2 DEF Of
  <2> QED BY <2>1, PartOfBatch
<1>6. \A a \in Account : left[a] = balances[a] /\ balances[a] \in Nat
  BY BurnKeeps, TokenTypes
<1> HIDE DEF burnt, left, paid, all, given
<1>7. \A a \in Account : balances'[a] \in Nat /\ balances'[a] >= balances[a]
  BY <1>1, <1>3, <1>5, <1>6, TokenTypes
<1>8. FrozenStays
  BY <1>6, <1>7, TokenTypes DEF FrozenStays
<1>9. totalSupply' <= invested'[pool'] /\ totalSupply' \in Int
  BY <1>1, <1>3, <1>4, TokenTypes DEF reserve
<1>10. NoWiderGap
  BY <1>3, <1>9, TokenTypes DEF NoWiderGap, reserve
<1> QED BY <1>3, <1>8, <1>10 DEF Controls, NothingIssued

LEMMA ControlsUpgrade ==
  ASSUME IInv, NEW by \in Account, NEW newPool \in Provider, NEW min \in Nat,
         UpgradeLiquidityProvider(by, newPool, min)
  PROVE  Controls
<1> DEFINE left == AfterBurn(balances, pool)
           burnt == SelfBurn(balances, pool)
           more == SelfBurn(left, newPool)
           after == AfterBurn(left, newPool)
<1>1. left \in [Holder -> Nat] /\ burnt \in 0..totalSupply /\ Sum(left) = totalSupply - burnt
  BY BooksSelfBurn
<1>2. /\ noEmergencyMode /\ balances' = after /\ totalSupply' = totalSupply - burnt - more
      /\ invested' = Shifted(newPool) /\ pool' = newPool
  BY DEF UpgradeLiquidityProvider
<1>3. \A a \in Account : left[a] = balances[a] /\ balances[a] \in Nat
  BY BurnKeeps, TokenTypes
<1>4. \A a \in Account : after[a] = left[a]
  <2> HIDE DEF left
  <2> QED BY <1>1, BurnKeeps
<1> HIDE DEF left, burnt
<1>5. more \in 0..Sum(left)
  BY <1>1, SumOfBurn
<1> HIDE DEF more, after
<1>6. FrozenStays
  BY <1>2, <1>3, <1>4, TokenTypes DEF FrozenStays
<1>7. invested'[newPool] >= invested[pool] /\ invested'[newPool] \in Nat
  BY <1>2, TokenTypes DEF Shifted
<1>8. NoWiderGap
  BY <1>1, <1>2, <1>5, <1>7, TokenTypes DEF NoWiderGap
<1> QED BY <1>2, <1>6, <1>8 DEF Controls, NothingIssued

LEMMA ControlsAccrueInterest ==
  ASSUME IInv, NEW p \in Provider, AccrueInterest(p)
  PROVE  Controls
<1>1. invested' = [invested EXCEPT ![p] = @ + 1] /\ UNCHANGED <<erc20, underlying, pool>>
  BY DEF AccrueInterest
<1>2. \A a \in Account : balances'[a] = balances[a] /\ balances[a] \in Nat
  BY <1>1, TokenTypes DEF erc20
<1>3. FrozenStays
  BY <1>2, TokenTypes DEF FrozenStays
<1>4. NoWiderGap
  BY <1>1, TokenTypes DEF NoWiderGap, erc20
<1>5. NothingIssued
  BY <1>1, TokenTypes DEF NothingIssued, erc20
<1> QED BY <1>3, <1>4, <1>5 DEF Controls

LEMMA ControlsMove ==
  ASSUME IInv, NEW from \in Account, NEW to \in Holder, NEW n \in Nat, Move(from, to, n)
  PROVE  Controls
<1> DEFINE left == Debit(balances, from, n)
<1>1. /\ from \notin blacklist /\ n <= balances[from] /\ balances' = Credit(left, to, n)
      /\ UNCHANGED <<totalSupply, reserve>>
  BY DEF Move
<1>2. left \in [Holder -> Nat] /\ \A h \in Holder : h # from => left[h] = balances[h]
  BY <1>1, TokenTypes DEF Debit
<1> HIDE DEF left
<1>3. \A a \in Account : a # from =>
        balances'[a] \in Nat /\ balances'[a] >= balances[a] /\ balances[a] \in Nat
  BY <1>1, <1>2, TokenTypes DEF Credit
<1>4. FrozenStays
  BY <1>1, <1>3, TokenTypes DEF FrozenStays
<1>5. NoWiderGap
  BY <1>1, TokenTypes DEF NoWiderGap, reserve
<1>6. NothingIssued
  BY <1>1, TokenTypes DEF NothingIssued, reserve
<1> QED BY <1>4, <1>5, <1>6 DEF Controls

LEMMA ControlsStep == IInv /\ [Next]_vars => Controls
<1> SUFFICES ASSUME IInv, [Next]_vars  PROVE Controls
  OBVIOUS
<1>1. Amount \subseteq Nat /\ Grant \subseteq Nat
  BY TokenAssumption
<1>2. ASSUME NEW by \in Account, Exchange(by)  PROVE Controls
  BY <1>1, <1>2, ControlsErc20In, ControlsErc20Out, ControlsBurn DEF Exchange
<1>3. ASSUME NEW by \in Account, RewardSteps(by)  PROVE Controls
  BY <1>1, <1>3, RewardsAreBatches, ControlsBatchReward, ControlsDrain, ControlsUnblock,
     ControlsUpgrade DEF RewardSteps
<1>4. ASSUME NEW by \in Account, Settings(by)  PROVE Controls
  <2>1. UNCHANGED <<erc20, reserve>>
    BY <1>4 DEF Settings, UpdateRewardQuarantineThreshold, SetFeeDetails, BlacklistAddress,
                EnableEmergencyMode, DisableEmergencyMode, UpdateRoles
  <2> QED BY <2>1, ControlsIdle DEF reserve
<1>5. ASSUME NEW by \in Account, Transfers(by)  PROVE Controls
  <2>1. CASE \E to \in Holder, n \in Amount : \/ Transfer(by, to, n)
                                              \/ \E from \in Account : TransferFrom(by, from, to, n)
    BY <1>1, <2>1, ControlsMove DEF Transfer, TransferFrom
  <2>2. CASE \E a \in Grantee, n \in Grant : \/ Approve(by, a, n) \/ IncreaseAllowance(by, a, n)
                                             \/ DecreaseAllowance(by, a, n) \/ Sign(by, a, n)
    <3>1. UNCHANGED <<erc20, reserve>>
      BY <2>2 DEF Approve, IncreaseAllowance, DecreaseAllowance, Sign
    <3> QED BY <3>1, ControlsIdle DEF reserve
  <2> QED BY <1>5, <2>1, <2>2 DEF Transfers
<1>6. ASSUME NEW p \in signed, Permit(p)  PROVE Controls
  <2>1. UNCHANGED <<erc20, reserve>>
    BY <1>6 DEF Permit
  <2> QED BY <2>1, ControlsIdle DEF reserve
<1>7. ASSUME UNCHANGED vars  PROVE Controls
  BY <1>7, ControlsIdle DEF vars, reserve
<1> QED BY <1>2, <1>3, <1>4, <1>5, <1>6, <1>7, ControlsAccrueInterest, ControlsRewardPoolAmount
       DEF Next

\* In an emergency no token is issued and no underlying taken; what a
\* blacklisted account holds leaves it only into the reward pool; and no step
\* but the release of a quarantined reward widens a gap behind the tokens.
THEOREM ControlsAlwaysHold == Spec => ControlsHold
<1>1. IInv /\ [Next]_vars =>
        [~noEmergencyMode => /\ totalSupply' <= totalSupply
                             /\ \A a \in Account : underlying'[a] >= underlying[a]]_vars
  BY ControlsStep DEF Controls, NothingIssued
<1>2. IInv /\ [Next]_vars =>
        [\A a \in blacklist : balances'[a] < balances[a] =>
           /\ totalSupply - totalSupply' = balances[a] - balances'[a]
           /\ UNCHANGED reserve]_vars
  BY ControlsStep DEF Controls, FrozenStays
<1>3. IInv /\ [Next]_vars =>
        [released' = released /\ totalSupply' > invested'[pool'] =>
           totalSupply' - invested'[pool'] <= totalSupply - invested[pool]]_vars
  BY ControlsStep DEF Controls, NoWiderGap
<1> QED BY <1>1, <1>2, <1>3, Invariance, PTL
       DEF Spec, ControlsHold, EmergencyStopsIssue, FrozenFundsStay, GapWidensOnlyByRelease

-----------------------------------------------------------------------------
(* Allowances.  WithinGrants is not inductive: a signed permit is worth its *)
(* value as long as its nonce is not used up, so what was granted has to    *)
(* cover the allowance and the permits still out.                           *)

Outstanding(o, s) == {p \in signed : p.owner = o /\ p.spender = s /\ p.nonce >= nonces[o]}

Promised(o, s) == Sum([p \in Outstanding(o, s) |-> p.value])

Granted ==
  /\ IsFiniteSet(signed)
  /\ \A o, s \in Account : allowances[o][s] + Promised(o, s) <= budget[o][s]

ValuesOf(P) == [p \in P |-> p.value]

LEMMA SumOfValues ==
  ASSUME NEW P \in SUBSET PermitMessage, IsFiniteSet(P)
  PROVE  /\ Sum(ValuesOf(P)) \in Nat
         /\ \A Q \in SUBSET P : Sum(ValuesOf(Q)) \in Nat /\ Sum(ValuesOf(Q)) <= Sum(ValuesOf(P))
         /\ \A p \in PermitMessage \ P : Sum(ValuesOf(P \cup {p})) = Sum(ValuesOf(P)) + p.value
<1>1. ASSUME NEW Q \in SUBSET PermitMessage  PROVE ValuesOf(Q) \in [Q -> Nat]
  BY DEF ValuesOf, PermitMessage
<1>2. Sum(ValuesOf(P)) \in Nat
  BY <1>1, SumType
<1>3. ASSUME NEW Q \in SUBSET P
      PROVE  Sum(ValuesOf(Q)) \in Nat /\ Sum(ValuesOf(Q)) <= Sum(ValuesOf(P))
  <2>1. IsFiniteSet(Q) /\ ValuesOf(Q) \in [Q -> Nat] /\ ValuesOf(P) \in [P -> Nat]
    BY <1>1, FS_Subset
  <2>2. \A p \in Q : ValuesOf(Q)[p] <= ValuesOf(P)[p]
    BY <2>1 DEF ValuesOf
  <2> QED BY <2>1, <2>2, SumType, SumMonotone
<1>4. ASSUME NEW p \in PermitMessage \ P
      PROVE  Sum(ValuesOf(P \cup {p})) = Sum(ValuesOf(P)) + p.value
  <2> DEFINE f == ValuesOf(P \cup {p})
  <2>1. f \in [P \cup {p} -> Nat]
    BY <1>1
  <2>2. f[p] = p.value /\ [q \in P |-> f[q]] = ValuesOf(P)
    BY DEF ValuesOf
  <2> HIDE DEF f
  <2>3. Sum(f) = Sum([q \in P |-> f[q]]) + f[p]
    BY <2>1, SumAdd
  <2> QED BY <2>2, <2>3 DEF f
<1> QED BY <1>2, <1>3, <1>4

LEMMA PromisedType ==
  ASSUME Rules, IsFiniteSet(signed), NEW o \in Account, NEW s \in Account
  PROVE  /\ Outstanding(o, s) \in SUBSET PermitMessage /\ IsFiniteSet(Outstanding(o, s))
         /\ Promised(o, s) \in Nat /\ Promised(o, s) = Sum(ValuesOf(Outstanding(o, s)))
<1>1. Outstanding(o, s) \in SUBSET signed /\ signed \in SUBSET PermitMessage
  BY DEF Outstanding, Rules
<1>2. IsFiniteSet(Outstanding(o, s))
  BY <1>1, FS_Subset
<1>3. Promised(o, s) = Sum(ValuesOf(Outstanding(o, s)))
  BY DEF Promised, ValuesOf
<1> QED BY <1>1, <1>2, <1>3, SumOfValues

\* The permits still out only become fewer.
LEMMA PromisedShrinks ==
  ASSUME Rules, IsFiniteSet(signed), NEW o \in Account, NEW s \in Account,
         NEW P \in SUBSET Outstanding(o, s)
  PROVE  Sum(ValuesOf(P)) \in Nat /\ Sum(ValuesOf(P)) <= Promised(o, s)
BY PromisedType, SumOfValues

\* A step with the same permits and nonces that grants as much as it adds to
\* an allowance.
LEMMA GrantedKeep ==
  ASSUME Rules, Rules', Granted, UNCHANGED <<signed, nonces>>,
         \A o, s \in Account :
           allowances'[o][s] - allowances[o][s] <= budget'[o][s] - budget[o][s]
  PROVE  Granted'
<1>1. IsFiniteSet(signed)'
  BY DEF Granted
<1>2. ASSUME NEW o \in Account, NEW s \in Account
      PROVE  allowances'[o][s] + Promised(o, s)' <= budget'[o][s]
  <2>1. Promised(o, s)' = Promised(o, s)
    BY DEF Promised, Outstanding
  <2>2. Promised(o, s) \in Nat
    BY PromisedType DEF Granted
  <2>3. /\ allowances[o][s] \in Nat /\ allowances'[o][s] \in Nat
        /\ budget[o][s] \in Int /\ budget'[o][s] \in Int
    BY DEF Rules
  <2>4. allowances[o][s] + Promised(o, s) <= budget[o][s]
    BY DEF Granted
  <2>5. allowances'[o][s] - allowances[o][s] <= budget'[o][s] - budget[o][s]
    OBVIOUS
  <2> QED BY <2>1, <2>2, <2>3, <2>4, <2>5
<1> QED BY <1>1, <1>2 DEF Granted

LEMMA GrantedTransfers ==
  ASSUME Rules, Rules', Granted, NEW by \in Account, Transfers(by)
  PROVE  Granted'
<1>0. Amount \subseteq Nat /\ Grant \subseteq Nat /\ Grantee \subseteq Account
  BY TokenAssumption
<1>1. /\ allowances \in [Account -> [Account -> Nat]]
      /\ budget \in [Account -> [Account -> Int]]
  BY DEF Rules
<1>2. ASSUME NEW to \in Holder, NEW n \in Amount, Transfer(by, to, n)  PROVE Granted'
  BY <1>1, <1>2, GrantedKeep DEF Transfer, approvals
<1>3. ASSUME NEW from \in Account, NEW to \in Holder, NEW n \in Amount, TransferFrom(by, from, to, n)
      PROVE  Granted'
  <2>1. UNCHANGED <<nonces, signed>> /\ SpendAllowance(from, by, n) /\ n \in Nat
    BY <1>0, <1>3 DEF TransferFrom
  <2>2. CASE UNCHANGED <<allowances, budget>>
    BY <1>1, <2>1, <2>2, GrantedKeep
  <2>3. CASE /\ allowances' = [allowances EXCEPT ![from][by] = @ - n]
             /\ budget' = [budget EXCEPT ![from][by] = @ - n]
    BY <1>1, <2>1, <2>3, GrantedKeep
  <2> QED BY <2>1, <2>2, <2>3 DEF SpendAllowance
<1>4. ASSUME NEW a \in Grantee, NEW n \in Grant, Approve(by, a, n) \/ IncreaseAllowance(by, a, n)
      PROVE  Granted'
  <2>1. /\ UNCHANGED <<nonces, signed>> /\ n \in Nat /\ a \in Account
        /\ budget' = [budget EXCEPT ![by][a] = @ + n]
        /\ \/ allowances' = [allowances EXCEPT ![by][a] = n]
           \/ allowances' = [allowances EXCEPT ![by][a] = @ + n]
    BY <1>0, <1>4 DEF Approve, IncreaseAllowance, Grants
  <2> QED BY <1>1, <2>1, GrantedKeep
<1>5. ASSUME NEW a \in Grantee, NEW n \in Grant, DecreaseAllowance(by, a, n)  PROVE Granted'
  <2>1. /\ UNCHANGED <<nonces, signed, budget>> /\ n \in Nat /\ a \in Account
        /\ allowances' = [allowances EXCEPT ![by][a] = @ - n]
    BY <1>0, <1>5 DEF DecreaseAllowance
  <2> QED BY <1>1, <2>1, GrantedKeep
<1>6. ASSUME NEW a \in Grantee, NEW n \in Grant, Sign(by, a, n)  PROVE Granted'
  <2> DEFINE p == [owner |-> by, spender |-> a, value |-> n, nonce |-> nonces[by]]
  <2>1. /\ p \notin signed /\ signed' = signed \cup {p} /\ UNCHANGED <<allowances, nonces>>
        /\ budget' = [budget EXCEPT ![by][a] = @ + n]
    BY <1>6 DEF Sign, Grants
  <2>2. a \in Account /\ n \in Nat /\ nonces[by] \in Nat
    BY <1>0 DEF Rules
  <2>3. p \in PermitMessage /\ p.owner = by /\ p.spender = a /\ p.value = n /\ p.nonce = nonces[by]
    BY <2>2 DEF PermitMessage
  <2> HIDE DEF p
  <2>4. IsFiniteSet(signed) /\ IsFiniteSet(signed')
    BY <2>1, FS_AddElement DEF Granted
  <2>5. ASSUME NEW o \in Account, NEW s \in Account
        PROVE  allowances'[o][s] + Promised(o, s)' <= budget'[o][s]
    <3>1. /\ allowances[o][s] \in Nat /\ budget[o][s] \in Int /\ Promised(o, s) \in Nat
          /\ allowances[o][s] + Promised(o, s) <= budget[o][s]
      BY <1>1, <2>4, PromisedType DEF Granted
    <3>2. Promised(o, s)' = Sum(ValuesOf(Outstanding(o, s)'))
      BY DEF Promised, ValuesOf
    <3>3. CASE o = by /\ s = a
      <4>1. Outstanding(o, s)' = Outstanding(o, s) \cup {p} /\ p \notin Outstanding(o, s)
        BY <2>1, <2>2, <2>3, <3>3 DEF Outstanding
      <4>2. Promised(o, s)' = Promised(o, s) + n
        BY <2>3, <2>4, <3>2, <4>1, PromisedType, SumOfValues
      <4>3. budget'[o][s] = budget[o][s] + n /\ allowances'[o][s] = allowances[o][s]
        BY <1>1, <2>1, <3>3
      <4> QED BY <2>2, <3>1, <4>2, <4>3
    <3>4. CASE ~(o = by /\ s = a)
      <4>1. Outstanding(o, s)' = Outstanding(o, s)
        BY <2>1, <2>3, <3>4 DEF Outstanding
      <4>2. Promised(o, s)' = Promised(o, s)
        BY <2>4, <3>2, <4>1, PromisedType
      <4>3. budget'[o][s] = budget[o][s] /\ allowances'[o][s] = allowances[o][s]
        BY <1>1, <2>1, <2>2, <3>4
      <4> QED BY <3>1, <4>2, <4>3
    <3> QED BY <3>3, <3>4
  <2> QED BY <2>4, <2>5 DEF Granted
<1> QED BY <1>2, <1>3, <1>4, <1>5, <1>6 DEF Transfers

\* A permit that is handed in turns a promise into an allowance and uses up
\* the nonce of its owner.
LEMMA GrantedPermit ==
  ASSUME Rules, Rules', Granted, NEW p \in signed, Permit(p)
  PROVE  Granted'
<1>1. p \in PermitMessage /\ p.owner \in Account /\ p.spender \in Account /\ p.value \in Nat
  BY DEF Rules, PermitMessage
<1>2. /\ p.nonce = nonces[p.owner] /\ UNCHANGED <<signed, budget>>
      /\ nonces' = [nonces EXCEPT ![p.owner] = @ + 1]
      /\ allowances' = [allowances EXCEPT ![p.owner][p.spender] = p.value]
  BY DEF Permit, ValidNonce
<1>3. /\ allowances \in [Account -> [Account -> Nat]] /\ nonces \in [Account -> Nat]
      /\ budget \in [Account -> [Account -> Int]] /\ IsFiniteSet(signed)
  BY DEF Rules, Granted
<1>4. ASSUME NEW o \in Account, NEW s \in Account
      PROVE  allowances'[o][s] + Promised(o, s)' <= budget'[o][s]
  <2>1. /\ allowances[o][s] \in Nat /\ budget[o][s] \in Int /\ Promised(o, s) \in Nat
        /\ allowances[o][s] + Promised(o, s) <= budget[o][s]
    BY <1>3, PromisedType DEF Granted
  <2>2. Promised(o, s)' = Sum(ValuesOf(Outstanding(o, s)'))
    BY DEF Promised, ValuesOf
  <2>3. Outstanding(o, s)' \subseteq Outstanding(o, s)
    <3>1. \A q \in signed : q.nonce \in Nat
      BY DEF Rules, PermitMessage
    <3> QED BY <1>1, <1>2, <1>3, <3>1 DEF Outstanding
  <2>4. CASE o = p.owner /\ s = p.spender
    <3>1. p \in Outstanding(o, s) /\ p \notin Outstanding(o, s)'
      BY <1>1, <1>2, <1>3, <2>4 DEF Outstanding
    <3> DEFINE rest == Outstanding(o, s) \ {p}
    <3>2. rest \in SUBSET PermitMessage /\ IsFiniteSet(rest) /\ Outstanding(o, s) = rest \cup {p}
      BY <1>3, <3>1, PromisedType, FS_RemoveElement
    <3>3. Promised(o, s) = Sum(ValuesOf(rest)) + p.value
      <4>1. p \in PermitMessage \ rest
        BY <1>1
      <4> HIDE DEF rest
      <4>2. Sum(ValuesOf(rest \cup {p})) = Sum(ValuesOf(rest)) + p.value
        BY <3>2, <4>1, SumOfValues
      <4> QED BY <1>3, <3>2, <4>2, PromisedType
    <3>4. Outstanding(o, s)' \in SUBSET rest
      BY <2>3, <3>1
    <3> HIDE DEF rest
    <3>5. /\ Sum(ValuesOf(Outstanding(o, s)')) \in Nat /\ Sum(ValuesOf(rest)) \in Nat
          /\ Sum(ValuesOf(Outstanding(o, s)')) <= Sum(ValuesOf(rest))
      BY <3>2, <3>4, SumOfValues
    <3>6. allowances'[o][s] = p.value /\ budget'[o][s] = budget[o][s]
      BY <1>1, <1>2, <1>3, <2>4
    <3> QED BY <1>1, <2>1, <2>2, <3>3, <3>5, <3>6
  <2>5. CASE ~(o = p.owner /\ s = p.spender)
    <3>1. Sum(ValuesOf(Outstanding(o, s)')) \in Nat
          /\ Sum(ValuesOf(Outstanding(o, s)')) <= Promised(o, s)
      BY <1>3, <2>3, PromisedShrinks
    <3>2. allowances'[o][s] = allowances[o][s] /\ budget'[o][s] = budget[o][s]
      BY <1>1, <1>2, <1>3, <2>5
    <3> QED BY <2>1, <2>2, <3>1, <3>2
  <2> QED BY <2>4, <2>5
<1> QED BY <1>2, <1>3, <1>4 DEF Granted

LEMMA GrantedStep == IInv /\ IInv' /\ Granted /\ [Next]_vars => Granted'
<1> SUFFICES ASSUME IInv, IInv', Granted, [Next]_vars  PROVE Granted'
  OBVIOUS
<1>1. Rules /\ Rules'
  BY DEF IInv, TypeOK, Rules
<1>2. ASSUME UNCHANGED approvals  PROVE Granted'
  <2>1. \A o, s \in Account : allowances[o][s] \in Nat /\ budget[o][s] \in Int
    BY <1>1 DEF Rules
  <2> QED BY <1>1, <1>2, <2>1, GrantedKeep DEF approvals
<1>3. ASSUME NEW by \in Account, Exchange(by) \/ RewardSteps(by) \/ Settings(by)
      PROVE  UNCHANGED approvals
  BY <1>3 DEF Exchange, Erc20In, Erc20Out, BurnFluidWithoutWithdrawal, RewardSteps, BatchReward,
              DrainRewardPool, UnblockReward, UpgradeLiquidityProvider, Settings,
              UpdateRewardQuarantineThreshold, SetFeeDetails, BlacklistAddress,
              EnableEmergencyMode, DisableEmergencyMode, UpdateRoles
<1>4. ASSUME (\E p \in Provider : AccrueInterest(p)) \/ RewardPoolAmount \/ UNCHANGED vars
      PROVE  UNCHANGED approvals
  BY <1>4 DEF AccrueInterest, RewardPoolAmount, vars
<1> QED BY <1>1, <1>2, <1>3, <1>4, GrantedTransfers, GrantedPermit DEF Next

\* Token.sol: through any approvals, permits, increases and transfers, in any
\* order and with permits held back, what a spender may still take of an
\* owner's tokens is never more than what the owner granted and was not spent.
THEOREM NeverBeyondGrants == Spec => []WithinGrants
<1>1. Init => Granted
  <2> SUFFICES ASSUME Init  PROVE Granted
    OBVIOUS
  <2>1. \A o, s \in Account : Promised(o, s) = 0 /\ allowances[o][s] = 0 /\ budget[o][s] = 0
    <3>1. \A o, s \in Account : Outstanding(o, s) = {}
      BY DEF Init, Outstanding
    <3>2. [p \in {} |-> p.value] = [p \in {} |-> 0]
      OBVIOUS
    <3>3. Sum([p \in {} |-> 0]) = 0
      BY SumOfZeros
    <3> QED BY <3>1, <3>2, <3>3 DEF Promised, Init
  <2> QED BY <2>1, FS_EmptySet DEF Granted, Init
<1>2. IInv /\ Granted => WithinGrants
  <2> SUFFICES ASSUME IInv, Granted, NEW o \in Account, NEW s \in Account
               PROVE  allowances[o][s] <= budget[o][s]
    BY DEF WithinGrants
  <2>1. Rules /\ IsFiniteSet(signed)
    BY DEF IInv, TypeOK, Rules, Granted
  <2>2. Promised(o, s) \in Nat /\ allowances[o][s] \in Nat /\ budget[o][s] \in Int
    BY <2>1, PromisedType DEF Rules
  <2> QED BY <2>2 DEF Granted
<1> QED BY <1>1, <1>2, GrantedStep, Invariance, PTL DEF Spec

-----------------------------------------------------------------------------
\* What erc20Out requires of an account that unwraps all it has: nothing but
\* the blacklist, a release from quarantine or a fee without a recipient can
\* keep it from its underlying, in emergency mode or out of it.
ExitAffordable ==
  \A a \in Account \ blacklist :
    LET fee == FeeOn(burnFee, balances[a]) IN
    released = 0 /\ CanPay(burnFee) =>
      /\ MayUnwrap(a)
      /\ balances[a] <= totalSupply
      /\ CanPay(fee)
      /\ balances[a] - fee <= invested[pool]

\* Token.sol, _erc20Out: every guard holds for all that an account owns.
THEOREM ExitIsAffordable == Spec => []ExitAffordable
<1>1. ASSUME IInv, NEW a \in Account \ blacklist, released = 0, CanPay(burnFee)
      PROVE  LET fee == FeeOn(burnFee, balances[a]) IN
             /\ MayUnwrap(a)
             /\ balances[a] <= totalSupply
             /\ CanPay(fee)
             /\ balances[a] - fee <= invested[pool]
  <2> DEFINE fee == FeeOn(burnFee, balances[a])
  <2>1. balances \in [Holder -> Nat] /\ a \in Holder /\ balances[a] \in Nat
    BY <1>1, TokenTypes
  <2>2. balances[a] <= totalSupply
    BY <1>1, <2>1, HolderSum DEF IInv, SupplyIsSumOfBalances
  <2>3. totalSupply <= invested[pool] /\ totalSupply \in Nat /\ invested[pool] \in Nat
    BY <1>1, TokenTypes DEF IInv, BackedUpToReleases
  <2>4. fee \in 0..balances[a]
    BY <1>1, <2>1, FeeBound DEF IInv, TypeOK
  <2>5. fee > 0 => burnFee > 0
    <3>1. burnFee \in Nat
      BY <1>1 DEF IInv, TypeOK
    <3> QED BY <3>1, <2>1 DEF FeeOn
  <2>6. CanPay(fee)
    BY <1>1, <2>5 DEF CanPay
  <2> HIDE DEF fee
  <2>7. balances[a] - fee <= invested[pool]
    BY <2>1, <2>2, <2>3, <2>4
  <2> QED BY <1>1, <2>2, <2>6, <2>7 DEF MayUnwrap, fee
<1>2. IInv => ExitAffordable
  BY <1>1 DEF ExitAffordable
<1> QED BY <1>2, Invariance, PTL
=============================================================================
