--------------------------- MODULE StakingProofs ---------------------------
(***************************************************************************)
(* StakingV1 stays solvent and fair for any accounts, wallets, amounts,    *)
(* number of positions and periods: it holds the sum of everyone's lists,  *)
(* pays what has waited and nothing else, and makes no points of moving    *)
(* positions about.                                                        *)
(*                                                                         *)
(* What a list is worth is the sum of a weight of its positions: the FLY,  *)
(* the FLY that has matured, the points.  The two loops are followed turn  *)
(* by turn: before a turn at index i nothing before i was touched, and     *)
(* what the list has lost is what the call has so far.                     *)
(*                                                                         *)
(* After the contract come the two dialogs of the web app that act on it.  *)
(* The invariant of the staking modal counts the interactions that it      *)
(* began against its renders since a press; that of the claim says that    *)
(* what is beyond the signature has one, that what is called complete was  *)
(* done, and whose the answer is that was the last to be asked for.        *)
(***************************************************************************)
EXTENDS MCFly, SumsProofs, SequenceTheorems, FiniteSetTheorems, TLAPS

-----------------------------------------------------------------------------
(* What a list is worth.                                                   *)

\* The sum of the weights of what is listed.
Weight(s, w) == Sum([i \in DOMAIN s |-> w[s[i]]])

LEMMA Listed ==
  ASSUME NEW S, NEW s \in Seq(S)
  PROVE  /\ Len(s) \in Nat /\ DOMAIN s = 1..Len(s) /\ IsFiniteSet(DOMAIN s)
         /\ \A i \in DOMAIN s : s[i] \in S
BY LenProperties, ElementOfSeq, FS_Interval

LEMMA WeightType ==
  ASSUME NEW S, NEW s \in Seq(S), NEW w \in [S -> Nat]
  PROVE  Weight(s, w) \in Nat
<1> DEFINE f == [i \in DOMAIN s |-> w[s[i]]]
<1>1. f \in [DOMAIN s -> Nat] /\ IsFiniteSet(DOMAIN s)
  BY Listed
<1> HIDE DEF f
<1>2. Sum(f) \in Nat
  BY <1>1, SumType
<1> QED BY <1>2 DEF Weight, f

LEMMA WeightEach ==
  ASSUME NEW S, NEW s \in Seq(S), NEW w \in [S -> Nat], NEW i \in DOMAIN s
  PROVE  w[s[i]] <= Weight(s, w)
<1> DEFINE f == [j \in DOMAIN s |-> w[s[j]]]
<1>1. f \in [DOMAIN s -> Nat] /\ IsFiniteSet(DOMAIN s) /\ f[i] = w[s[i]]
  BY Listed
<1> HIDE DEF f
<1>2. f[i] <= Sum(f)
  BY <1>1, SumAtLeast
<1> QED BY <1>1, <1>2 DEF Weight, f

LEMMA WeightOfNothing ==
  ASSUME NEW s, NEW w, \A i \in DOMAIN s : w[s[i]] = 0
  PROVE  Weight(s, w) = 0
<1>1. [i \in DOMAIN s |-> w[s[i]]] = [i \in DOMAIN s |-> 0]
  OBVIOUS
<1> QED BY <1>1, SumOfZeros DEF Weight

LEMMA WeightMonotone ==
  ASSUME NEW S, NEW s \in Seq(S), NEW w \in [S -> Nat],
         NEW T, NEW t \in Seq(T), NEW v \in [T -> Nat],
         DOMAIN s = DOMAIN t, \A i \in DOMAIN s : w[s[i]] <= v[t[i]]
  PROVE  Weight(s, w) <= Weight(t, v)
<1> DEFINE f == [i \in DOMAIN s |-> w[s[i]]]
           g == [i \in DOMAIN s |-> v[t[i]]]
<1>1. /\ f \in [DOMAIN s -> Nat] /\ g \in [DOMAIN s -> Nat] /\ IsFiniteSet(DOMAIN s)
      /\ \A i \in DOMAIN s : f[i] <= g[i]
  BY Listed
<1> HIDE DEF f, g
<1>2. Sum(f) <= Sum(g)
  BY <1>1, SumMonotone
<1> QED BY <1>2 DEF Weight, f, g

LEMMA WeightAppended ==
  ASSUME NEW S, NEW s \in Seq(S), NEW w \in [S -> Nat], NEW e \in S
  PROVE  Weight(Append(s, e), w) = Weight(s, w) + w[e]
<1> DEFINE n == Len(s) + 1
           t == Append(s, e)
           f == [i \in DOMAIN t |-> w[t[i]]]
<1>1. /\ DOMAIN s = 1..Len(s) /\ Len(s) \in Nat /\ IsFiniteSet(DOMAIN s)
      /\ t \in Seq(S) /\ DOMAIN t = 1..n /\ t[n] = e /\ \A i \in DOMAIN s : t[i] = s[i]
  BY Listed, AppendProperties, LenProperties
<1>2. n \notin DOMAIN s /\ DOMAIN t = DOMAIN s \cup {n}
  BY <1>1
<1>3. f \in [DOMAIN s \cup {n} -> Nat]
  BY <1>1, <1>2, Listed
<1>4. [i \in DOMAIN s |-> f[i]] = [i \in DOMAIN s |-> w[s[i]]] /\ f[n] = w[e]
  BY <1>1, <1>2
<1>5. Sum(f) = Sum([i \in DOMAIN s |-> f[i]]) + f[n]
  <2> HIDE DEF f, n, t
  <2> QED BY <1>1, <1>2, <1>3, SumAdd
<1> QED BY <1>4, <1>5 DEF Weight

LEMMA WeightReplaced ==
  ASSUME NEW S, NEW s \in Seq(S), NEW w \in [S -> Nat], NEW i \in DOMAIN s, NEW e \in S
  PROVE  /\ [s EXCEPT ![i] = e] \in Seq(S)
         /\ Len([s EXCEPT ![i] = e]) = Len(s)
         /\ Weight([s EXCEPT ![i] = e], w) = Weight(s, w) - w[s[i]] + w[e]
<1> DEFINE t == [s EXCEPT ![i] = e]
           f == [j \in DOMAIN s |-> w[s[j]]]
<1>1. t \in Seq(S) /\ Len(t) = Len(s) /\ DOMAIN t = DOMAIN s
  BY ExceptSeq, LenProperties
<1>2. [j \in DOMAIN t |-> w[t[j]]] = [f EXCEPT ![i] = w[e]]
  BY <1>1
<1>3. f \in [DOMAIN s -> Nat] /\ IsFiniteSet(DOMAIN s) /\ w[e] \in Nat /\ f[i] = w[s[i]]
  BY Listed
<1>4. Sum([f EXCEPT ![i] = w[e]]) = Sum(f) - f[i] + w[e]
  <2> HIDE DEF f
  <2> QED BY <1>3, SumUpdate
<1> QED BY <1>1, <1>2, <1>3, <1>4 DEF Weight

LEMMA Replacing ==
  ASSUME NEW S, NEW s \in Seq(S), NEW i \in DOMAIN s, NEW e \in S
  PROVE  /\ [s EXCEPT ![i] = e] \in Seq(S) /\ Len([s EXCEPT ![i] = e]) = Len(s)
         /\ \A w \in [S -> Nat] : Weight([s EXCEPT ![i] = e], w) = Weight(s, w) - w[s[i]] + w[e]
<1>1. [s EXCEPT ![i] = e] \in Seq(S) /\ Len([s EXCEPT ![i] = e]) = Len(s)
  BY ExceptSeq, LenProperties
<1>2. ASSUME NEW w \in [S -> Nat]
      PROVE  Weight([s EXCEPT ![i] = e], w) = Weight(s, w) - w[s[i]] + w[e]
  BY WeightReplaced
<1> QED BY <1>1, <1>2

LEMMA WeightFront ==
  ASSUME NEW S, NEW s \in Seq(S), NEW w \in [S -> Nat], Len(s) > 0
  PROVE  LET t == SubSeq(s, 1, Len(s) - 1) IN
         /\ t \in Seq(S) /\ Len(t) = Len(s) - 1
         /\ \A j \in DOMAIN t : j \in DOMAIN s /\ t[j] = s[j]
         /\ Weight(t, w) = Weight(s, w) - w[s[Len(s)]]
<1> DEFINE n == Len(s)
           t == SubSeq(s, 1, n - 1)
           f == [i \in DOMAIN s |-> w[s[i]]]
<1>1. n \in Nat /\ n > 0 /\ DOMAIN s = 1..n /\ \A i \in 1..n : s[i] \in S
  BY Listed
<1>2. /\ t \in Seq(S) /\ Len(t) = n - 1 /\ \A j \in 1..(n - 1) : t[j] = s[j]
  <2>1. /\ t \in Seq(S)
        /\ Len(t) = IF 1 <= n - 1 THEN (n - 1) - 1 + 1 ELSE 0
        /\ \A j \in 1 .. (n - 1) - 1 + 1 : t[j] = s[1 + j - 1]
    <3> HIDE DEF n
    <3>1. 1 \in Int /\ n - 1 \in Int /\ \A i \in 1..(n - 1) : s[i] \in S
      BY <1>1
    <3> QED BY <3>1, SubSeqProperties
  <2> HIDE DEF n, t
  <2>2. Len(t) = n - 1
    BY <1>1, <2>1
  <2>3. (n - 1) - 1 + 1 = n - 1 /\ \A j \in 1..(n - 1) : 1 + j - 1 = j
    BY <1>1
  <2> QED BY <2>1, <2>2, <2>3
<1>3. DOMAIN t = 1..(n - 1)
  BY <1>2, LenProperties
<1>4. DOMAIN s = DOMAIN t \cup {n} /\ n \notin DOMAIN t /\ IsFiniteSet(DOMAIN t)
  <2> HIDE DEF t
  <2>1. IsFiniteSet(DOMAIN t)
    BY <1>2, Listed
  <2>2. DOMAIN s = DOMAIN t \cup {n} /\ n \notin DOMAIN t
    BY <1>1, <1>3
  <2> QED BY <2>1, <2>2
<1>5. f \in [DOMAIN t \cup {n} -> Nat]
  BY <1>1, <1>4
<1>6. [i \in DOMAIN t |-> f[i]] = [i \in DOMAIN t |-> w[t[i]]] /\ f[n] = w[s[n]]
  BY <1>1, <1>2, <1>3, <1>4
<1>7. Sum(f) = Sum([i \in DOMAIN t |-> f[i]]) + f[n]
  <2> HIDE DEF f, n, t
  <2> QED BY <1>4, <1>5, SumAdd
<1>8. Weight(s, w) = Weight(t, w) + w[s[n]]
  BY <1>6, <1>7 DEF Weight
<1>9. Weight(t, w) \in Nat /\ w[s[n]] \in Nat
  <2> HIDE DEF t
  <2>1. Weight(t, w) \in Nat
    BY <1>2, WeightType
  <2> QED BY <1>1, <2>1
<1>10. Weight(t, w) = Weight(s, w) - w[s[n]]
  <2> HIDE DEF n, t
  <2> QED BY <1>8, <1>9
<1>11. \A j \in DOMAIN t : j \in DOMAIN s /\ t[j] = s[j]
  BY <1>2, <1>3, <1>4
<1> QED BY <1>2, <1>10, <1>11

\* The i-th position leaves a list, the last one takes its place.
LEMMA Popping ==
  ASSUME NEW S, NEW s \in Seq(S), NEW i \in DOMAIN s
  PROVE  /\ Pop(s, i) \in Seq(S) /\ Len(Pop(s, i)) = Len(s) - 1
         /\ \A j \in DOMAIN Pop(s, i) :
              j \in DOMAIN s /\ Pop(s, i)[j] = IF j = i THEN s[Len(s)] ELSE s[j]
         /\ \A w \in [S -> Nat] : Weight(Pop(s, i), w) = Weight(s, w) - w[s[i]]
<1> DEFINE n == Len(s)
           t == [s EXCEPT ![i] = s[n]]
<1>1. n \in Nat /\ DOMAIN s = 1..n /\ n \in DOMAIN s /\ n > 0 /\ s[n] \in S /\ s[i] \in S
  BY Listed
<1>2. t \in Seq(S) /\ Len(t) = n /\ DOMAIN t = DOMAIN s
  BY <1>1, ExceptSeq, LenProperties
<1>3. t[n] = s[n]
  BY <1>1
<1>4. Pop(s, i) = SubSeq(t, 1, Len(t) - 1)
  BY <1>2 DEF Pop
<1>5. \A j \in DOMAIN s : t[j] = IF j = i THEN s[n] ELSE s[j]
  OBVIOUS
<1> HIDE DEF n
<1>6. ASSUME NEW w \in [S -> Nat]
      PROVE  Weight(t, w) = Weight(s, w) - w[s[i]] + w[s[n]]
  <2>1. \A e \in S : Weight([s EXCEPT ![i] = e], w) = Weight(s, w) - w[s[i]] + w[e]
    BY WeightReplaced
  <2> QED BY <1>1, <2>1
<1> HIDE DEF t
<1>7. [x \in S |-> 0] \in [S -> Nat]
  OBVIOUS
<1>8. /\ Pop(s, i) \in Seq(S) /\ Len(Pop(s, i)) = n - 1
      /\ \A j \in DOMAIN Pop(s, i) : j \in DOMAIN t /\ Pop(s, i)[j] = t[j]
  BY <1>1, <1>2, <1>4, <1>7, WeightFront
<1>9. ASSUME NEW w \in [S -> Nat]
      PROVE  Weight(Pop(s, i), w) = Weight(s, w) - w[s[i]]
  <2>1. Weight(Pop(s, i), w) = Weight(t, w) - w[t[n]]
    <3>1. Len(t) > 0 /\ t[Len(t)] = t[n]
      BY <1>1, <1>2
    <3>2. Weight(SubSeq(t, 1, Len(t) - 1), w) = Weight(t, w) - w[t[Len(t)]]
      BY <1>2, <3>1, WeightFront, SMTT(30)
    <3> QED BY <1>4, <3>1, <3>2
  <2>2. Weight(s, w) \in Nat /\ w[s[i]] \in Nat /\ w[s[n]] \in Nat
    BY <1>1, WeightType
  <2> QED BY <1>3, <1>6, <2>1, <2>2
<1> QED BY <1>2, <1>5, <1>8, <1>9 DEF n

-----------------------------------------------------------------------------
(* The loops.                                                              *)

\* What holds of 0 and goes on to the next holds of all up to n.
LEMMA UpTo ==
  ASSUME NEW n \in Nat, NEW T \in SUBSET (0..n), 0 \in T,
         \A k \in 1..n : k - 1 \in T => k \in T
  PROVE  T = 0..n
<1> SUFFICES ASSUME (0..n) \ T # {}  PROVE FALSE
  OBVIOUS
<1>1. PICK k \in (0..n) \ T : \A l \in (0..n) \ T : k <= l
  <2>1. (0..n) \ T \in SUBSET Nat
    OBVIOUS
  <2> QED BY <2>1, LeastElement
<1>2. k \in 1..n /\ k - 1 \in 0..n
  BY <1>1
<1>3. k - 1 \in T
  BY <1>1, <1>2
<1> QED BY <1>1, <1>2, <1>3

\* A loop of n turns, each of which goes from what holds before it to what
\* holds after it: after[k] is what the variables may be after k turns.
LoopOf(g, b, step, n) ==
  /\ DOMAIN g = 0..n /\ g[0] = b
  /\ \A k \in 1..n : g[k] = step[<<g[k - 1], k>>]

Carries(step, S, after, n) ==
  /\ after \in [0..n -> SUBSET S]
  /\ \A k \in 1..n : \A r \in after[k - 1] : step[<<r, k>>] \in after[k]

LEMMA LoopExists ==
  ASSUME NEW n \in Nat, NEW S, NEW after, NEW step, Carries(step, S, after, n), NEW b \in after[0]
  PROVE  \E g \in [0..n -> S] : LoopOf(g, b, step, n) /\ \A k \in 0..n : g[k] \in after[k]
<1> DEFINE Done(m) == \E g \in [0..m -> S] : LoopOf(g, b, step, m) /\ \A k \in 0..m : g[k] \in after[k]
           T == {m \in 0..n : Done(m)}
<1>0. after \in [0..n -> SUBSET S] /\ \A k \in 1..n : \A r \in after[k - 1] : step[<<r, k>>] \in after[k]
  BY DEF Carries
<1>1. 0 \in T
  <2>1. b \in S
    BY <1>0
  <2>2. [k \in 0..0 |-> b] \in [0..0 -> S]
    BY <2>1
  <2>3. LoopOf([k \in 0..0 |-> b], b, step, 0)
    BY DEF LoopOf
  <2>4. \A k \in 0..0 : [j \in 0..0 |-> b][k] \in after[k]
    OBVIOUS
  <2> QED BY <2>2, <2>3, <2>4
<1>2. ASSUME NEW m \in 1..n, m - 1 \in T  PROVE m \in T
  <2>1. PICK g \in [0..(m - 1) -> S] :
          LoopOf(g, b, step, m - 1) /\ \A k \in 0..(m - 1) : g[k] \in after[k]
    BY <1>2
  <2> DEFINE e == step[<<g[m - 1], m>>]
             h == [k \in 0..m |-> IF k = m THEN e ELSE g[k]]
  <2>2. m - 1 \in 0..(m - 1) /\ m \in Nat /\ m # 0
    OBVIOUS
  <2>3. e \in after[m] /\ e \in S
    <3>1. g[m - 1] \in after[m - 1]
      BY <2>1, <2>2
    <3>2. e \in after[m]
      BY <1>0, <3>1
    <3> QED BY <1>0, <3>2
  <2> HIDE DEF e
  <2>4. \A k \in 0..m : k # m => k \in 0..(m - 1)
    OBVIOUS
  <2>5. h \in [0..m -> S]
    BY <2>1, <2>3, <2>4
  <2>6. \A k \in 0..m : h[k] \in after[k]
    BY <2>1, <2>3, <2>4
  <2>7. \A k \in 1..m : h[k] = step[<<h[k - 1], k>>]
    <3> SUFFICES ASSUME NEW k \in 1..m  PROVE h[k] = step[<<h[k - 1], k>>]
      OBVIOUS
    <3>1. h[k - 1] = g[k - 1]
      OBVIOUS
    <3>2. CASE k = m
      <4>1. h[m] = e
        BY <2>2
      <4>2. e = step[<<g[m - 1], m>>]
        BY DEF e
      <4> HIDE DEF h, e
      <4> QED BY <3>1, <3>2, <4>1, <4>2
    <3>3. CASE k # m
      <4>1. k \in 1..(m - 1)
        BY <3>3
      <4> QED BY <2>1, <3>1, <3>3, <4>1 DEF LoopOf
    <3> QED BY <3>2, <3>3
  <2>8. h[0] = b /\ DOMAIN h = 0..m
    BY <2>1, <2>2 DEF LoopOf
  <2>9. Done(m)
    <3> HIDE DEF h
    <3> QED BY <2>5, <2>6, <2>7, <2>8 DEF LoopOf
  <2> QED BY <2>9
<1>3. T = 0..n
  <2> HIDE DEF Done
  <2>1. T \in SUBSET (0..n)
    OBVIOUS
  <2> HIDE DEF T
  <2> QED BY <1>1, <1>2, <2>1, UpTo
<1>4. n \in 0..n
  OBVIOUS
<1> QED BY <1>3, <1>4

LEMMA LoopKeeps ==
  ASSUME NEW n \in Nat, NEW S, NEW after, NEW step, Carries(step, S, after, n), NEW b \in after[0],
         NEW g, g[0] = b, \A k \in 1..n : g[k - 1] \in S => g[k] = step[<<g[k - 1], k>>]
  PROVE  g[n] \in after[n]
<1> DEFINE T == {m \in 0..n : g[m] \in after[m]}
<1>0. after \in [0..n -> SUBSET S] /\ \A k \in 1..n : \A r \in after[k - 1] : step[<<r, k>>] \in after[k]
  BY DEF Carries
<1>1. 0 \in T
  OBVIOUS
<1>2. ASSUME NEW m \in 1..n, m - 1 \in T  PROVE m \in T
  <2>1. m - 1 \in 0..n /\ g[m - 1] \in after[m - 1]
    BY <1>2
  <2>2. g[m - 1] \in S
    BY <1>0, <2>1
  <2>3. g[m] \in after[m]
    BY <1>0, <2>1, <2>2
  <2> QED BY <2>3
<1>3. T = 0..n
  <2>1. T \in SUBSET (0..n)
    OBVIOUS
  <2> HIDE DEF T
  <2> QED BY <1>1, <1>2, <2>1, UpTo
<1>4. n \in 0..n
  OBVIOUS
<1> QED BY <1>3, <1>4

-----------------------------------------------------------------------------
(* Arithmetic of the points.                                               *)

LEMMA TimesMonotone ==
  ASSUME NEW x \in Nat, NEW y \in Nat, x <= y, NEW z \in Nat
  PROVE  x * z \in Nat /\ x * z <= y * z
<1>1. PICK d \in Nat : y = x + d
  <2>1. y - x \in Nat /\ y = x + (y - x)
    OBVIOUS
  <2> QED BY <2>1
<1>2. (x + d) * z = x * z + d * z
  OBVIOUS
<1>3. x * z \in Nat /\ d * z \in Nat
  OBVIOUS
<1> QED BY <1>1, <1>2, <1>3

LEMMA Div ==
  ASSUME NEW x \in Nat, NEW u \in Nat \ {0}
  PROVE  x \div u \in Nat /\ \E r \in 0..(u - 1) : x = u * (x \div u) + r
<1>1. x \div u \in Nat
  OBVIOUS
<1>2. x % u \in 0..(u-1) /\ x = u * (x \div u) + (x % u)
  OBVIOUS
<1> QED BY <1>1, <1>2

LEMMA DivMonotone ==
  ASSUME NEW x \in Nat, NEW y \in Nat, x <= y, NEW u \in Nat \ {0}
  PROVE  x \div u <= y \div u
<1>1. PICK p \in Nat, r \in 0..(u-1) : p = x \div u /\ x = u * p + r
  BY Div
<1>2. PICK q \in Nat, s \in 0..(u-1) : q = y \div u /\ y = u * q + s
  BY Div
<1>3. SUFFICES ASSUME q + 1 <= p PROVE FALSE
  BY <1>1, <1>2
<1>4. (q + 1) * u <= p * u
  BY <1>3, TimesMonotone
<1>5. (q + 1) * u = u * q + u /\ p * u = u * p
  OBVIOUS
<1>6. u * q \in Nat /\ u * p \in Nat
  OBVIOUS
<1> QED BY <1>1, <1>2, <1>4, <1>5, <1>6

LEMMA DivZero == ASSUME NEW u \in Nat \ {0} PROVE 0 \div u = 0
OBVIOUS

-----------------------------------------------------------------------------
(* The lists of the contract and their weights.                            *)

PositionBy(t) == [bonus : BOOLEAN, fly : Nat, at : 0..t]
Released == [fly : Nat, by : 0..MaxTime + Unbonding]

StakedFly(t) == [p \in PositionBy(t) |-> p.fly]
BonusFor(t) == [p \in PositionBy(t) |-> IF p.bonus THEN p.fly ELSE 0]
PointsFor(t) ==
  [p \in PositionBy(t) |-> (p.fly * (t - p.at)) \div PointUnit
                             + (IF p.bonus THEN (p.fly * BonusTime) \div PointUnit ELSE 0)]

LeavingFly == [p \in Released |-> p.fly]
RipeFly(t) == [p \in Released |-> IF p.by <= t THEN p.fly ELSE 0]
LeavingSince(t) == [p \in Released |-> IF p.by = t + Unbonding THEN p.fly ELSE 0]

LEMMA PointsType ==
  ASSUME NEW t \in Nat, NEW p \in PositionBy(t)
  PROVE  /\ p.fly * (t - p.at) \in Nat /\ (p.fly * (t - p.at)) \div PointUnit \in Nat
         /\ p.fly * BonusTime \in Nat /\ (p.fly * BonusTime) \div PointUnit \in Nat
         /\ PointsFor(t)[p] \in Nat
         /\ p.fly = 0 => PointsFor(t)[p] = 0
<1>1. p.fly \in Nat /\ t - p.at \in Nat /\ BonusTime \in Nat /\ PointUnit \in Nat \ {0}
  BY StakingAssumption DEF PositionBy
<1> DEFINE x == p.fly * (t - p.at)
           y == p.fly * BonusTime
<1>2. x \in Nat /\ y \in Nat /\ (p.fly = 0 => x = 0 /\ y = 0)
  BY <1>1, TimesMonotone
<1> HIDE DEF x, y
<1>3. x \div PointUnit \in Nat /\ y \div PointUnit \in Nat /\ 0 \div PointUnit = 0
  BY <1>1, <1>2, Div, DivZero
<1>4. PointsFor(t)[p] = x \div PointUnit + (IF p.bonus THEN y \div PointUnit ELSE 0)
  BY DEF PointsFor, x, y
<1> QED BY <1>2, <1>3, <1>4 DEF x, y

LEMMA Weights ==
  ASSUME NEW t \in Nat
  PROVE  /\ StakedFly(t) \in [PositionBy(t) -> Nat]
         /\ BonusFor(t) \in [PositionBy(t) -> Nat]
         /\ PointsFor(t) \in [PositionBy(t) -> Nat]
         /\ LeavingFly \in [Released -> Nat]
         /\ RipeFly(t) \in [Released -> Nat]
         /\ LeavingSince(t) \in [Released -> Nat]
<1>1. PointsFor(t) \in [PositionBy(t) -> Nat]
  <2>1. \A p \in PositionBy(t) : PointsFor(t)[p] \in Nat
    BY PointsType
  <2>2. DOMAIN PointsFor(t) = PositionBy(t) /\ PointsFor(t) = [p \in PositionBy(t) |-> PointsFor(t)[p]]
    BY DEF PointsFor
  <2> QED BY <2>1, <2>2
<1>2. StakedFly(t) \in [PositionBy(t) -> Nat] /\ BonusFor(t) \in [PositionBy(t) -> Nat]
  BY DEF StakedFly, BonusFor, PositionBy
<1>3. /\ LeavingFly \in [Released -> Nat] /\ RipeFly(t) \in [Released -> Nat]
      /\ LeavingSince(t) \in [Released -> Nat]
  BY DEF LeavingFly, RipeFly, LeavingSince, Released
<1> QED BY <1>1, <1>2, <1>3

\* The points of less FLY of the same position are not more, nor are those of
\* the same FLY earlier or without the bonus.
LEMMA PointsMonotone ==
  ASSUME NEW t \in Nat, NEW p \in PositionBy(t), NEW u \in Nat, NEW q \in PositionBy(u),
         p.fly <= q.fly, t - p.at <= u - q.at, p.bonus => q.bonus
  PROVE  PointsFor(t)[p] <= PointsFor(u)[q]
<1>1. /\ p.fly \in Nat /\ q.fly \in Nat /\ BonusTime \in Nat /\ PointUnit \in Nat \ {0}
      /\ t - p.at \in Nat /\ u - q.at \in Nat
  BY StakingAssumption DEF PositionBy
<1> DEFINE dt == t - p.at
           du == u - q.at
<1>2. dt \in Nat /\ du \in Nat /\ dt <= du
  BY <1>1
<1> HIDE DEF dt, du
<1>3. p.fly * dt <= q.fly * dt /\ p.fly * dt \in Nat /\ q.fly * dt \in Nat
  BY <1>1, <1>2, TimesMonotone
<1>4. dt * q.fly <= du * q.fly /\ dt * q.fly = q.fly * dt /\ du * q.fly = q.fly * du
  BY <1>1, <1>2, TimesMonotone
<1>5. p.fly * dt <= q.fly * du /\ q.fly * du \in Nat
  BY <1>1, <1>2, <1>3, <1>4, TimesMonotone
<1>6. p.fly * BonusTime <= q.fly * BonusTime /\ p.fly * BonusTime \in Nat /\ q.fly * BonusTime \in Nat
  BY <1>1, TimesMonotone
<1> DEFINE v == p.fly * dt
           w == q.fly * du
           x == p.fly * BonusTime
           y == q.fly * BonusTime
<1>7. v \in Nat /\ w \in Nat /\ x \in Nat /\ y \in Nat /\ v <= w /\ x <= y
  BY <1>3, <1>5, <1>6
<1>8. /\ PointsFor(t)[p] = v \div PointUnit + (IF p.bonus THEN x \div PointUnit ELSE 0)
      /\ PointsFor(u)[q] = w \div PointUnit + (IF q.bonus THEN y \div PointUnit ELSE 0)
  BY DEF PointsFor, dt, du
<1> HIDE DEF v, w, x, y
<1>9. v \div PointUnit <= w \div PointUnit /\ x \div PointUnit <= y \div PointUnit
  BY <1>1, <1>7, DivMonotone
<1>10. /\ v \div PointUnit \in Nat /\ w \div PointUnit \in Nat
       /\ x \div PointUnit \in Nat /\ y \div PointUnit \in Nat
  BY <1>1, <1>7, Div
<1> QED BY <1>8, <1>9, <1>10

\* The sums that the properties speak of are weights.
LEMMA TotalIsWeight ==
  ASSUME NEW S, NEW s \in Seq(S), NEW w \in [S -> Nat], \A p \in S : w[p] = p.fly
  PROVE  Total(s) = Weight(s, w) /\ Total(s) \in Nat
<1>1. [i \in DOMAIN s |-> s[i].fly] = [i \in DOMAIN s |-> w[s[i]]]
  BY Listed
<1>2. Total(s) = Weight(s, w)
  BY <1>1 DEF Total, Weight
<1> QED BY <1>2, WeightType

LEMMA StakedTotal ==
  ASSUME NEW t \in Nat, NEW s \in Seq(PositionBy(t))
  PROVE  Total(s) = Weight(s, StakedFly(t)) /\ Total(s) \in Nat
BY TotalIsWeight, Weights, ZenonT(40) DEF StakedFly

LEMMA UnstakingTotal ==
  ASSUME NEW u \in Seq(Released)
  PROVE  Total(u) = Weight(u, LeavingFly) /\ Total(u) \in Nat
<1>1. LeavingFly \in [Released -> Nat]
  BY Weights, 0 \in Nat
<1> QED BY <1>1, TotalIsWeight DEF LeavingFly

LEMMA SumsAre ==
  ASSUME NEW a, NEW t \in Nat, NEW s \in Seq(PositionBy(t)), NEW u \in Seq(Released),
         now = t, staked[a] = s, unstaking[a] = u
  PROVE  /\ Points(a) = Weight(s, PointsFor(t))
         /\ BonusFly(a) = Weight(s, BonusFor(t))
         /\ MaturedFly(a) = Weight(u, RipeFly(t))
         /\ OwedTo(a) = Weight(s, StakedFly(t)) + Weight(u, LeavingFly)
<1>1. \A i \in DOMAIN s : s[i] \in PositionBy(t)
  BY Listed
<1>2. \A i \in DOMAIN u : u[i] \in Released
  BY Listed
<1>3. [i \in DOMAIN s |-> PointsOf(s[i])] = [i \in DOMAIN s |-> PointsFor(t)[s[i]]]
  BY <1>1 DEF PointsOf, PointsFor
<1>4. [i \in DOMAIN s |-> IF s[i].bonus THEN s[i].fly ELSE 0]
        = [i \in DOMAIN s |-> BonusFor(t)[s[i]]]
  BY <1>1 DEF BonusFor
<1>5. [i \in DOMAIN u |-> IF Matured(u[i]) THEN u[i].fly ELSE 0]
        = [i \in DOMAIN u |-> RipeFly(t)[u[i]]]
  BY <1>2 DEF RipeFly, Matured
<1>6. OwedTo(a) = Weight(s, StakedFly(t)) + Weight(u, LeavingFly)
  BY StakedTotal, UnstakingTotal DEF OwedTo
<1> QED BY <1>3, <1>4, <1>5, <1>6 DEF Points, BonusFly, MaturedFly, Weight

LEMMA SumsBecome ==
  ASSUME NEW a, NEW t \in Nat, NEW s \in Seq(PositionBy(t)), NEW u \in Seq(Released),
         now' = t, staked'[a] = s, unstaking'[a] = u
  PROVE  /\ Points(a)' = Weight(s, PointsFor(t))
         /\ BonusFly(a)' = Weight(s, BonusFor(t))
         /\ OwedTo(a)' = Weight(s, StakedFly(t)) + Weight(u, LeavingFly)
<1>1. \A i \in DOMAIN s : s[i] \in PositionBy(t)
  BY Listed
<1>2. Points(a)' = Sum([i \in DOMAIN s |-> PointsFor(t)[s[i]]])
  <2>1. \A i \in DOMAIN s : PointsOf(staked[a][i])' = PointsFor(t)[s[i]]
    BY <1>1 DEF PointsOf, PointsFor
  <2>2. [i \in DOMAIN staked[a] |-> PointsOf(staked[a][i])]'
          = [i \in DOMAIN s |-> PointsFor(t)[s[i]]]
    BY <2>1
  <2> QED BY <2>2 DEF Points
<1>3. [i \in DOMAIN staked'[a] |-> IF staked'[a][i].bonus THEN staked'[a][i].fly ELSE 0]
        = [i \in DOMAIN s |-> BonusFor(t)[s[i]]]
  BY <1>1 DEF BonusFor
<1>4. OwedTo(a)' = Weight(s, StakedFly(t)) + Weight(u, LeavingFly)
  BY StakedTotal, UnstakingTotal DEF OwedTo
<1> QED BY <1>2, <1>3, <1>4 DEF BonusFly, Weight

LEMMA BeganIsWeight ==
  ASSUME NEW t \in Nat, NEW u \in Seq(Released), now = t
  PROVE  BeganNow(u) = Weight(u, LeavingSince(t))
<1>1. \A i \in DOMAIN u : u[i] \in Released
  BY Listed
<1>2. [i \in DOMAIN u |-> IF u[i].by = now + Unbonding THEN u[i].fly ELSE 0]
        = [i \in DOMAIN u |-> LeavingSince(t)[u[i]]]
  BY <1>1 DEF LeavingSince
<1> QED BY <1>2 DEF BeganNow, Weight

-----------------------------------------------------------------------------
(* One turn of beginUnstake.                                               *)

Turns(t) == [remaining : Nat, staked : Seq(PositionBy(t)), unstaking : Seq(Released)]

\* A position from which FLY is taken.
LEMMA Lessened ==
  ASSUME NEW t \in Nat, NEW s \in Seq(PositionBy(t)), NEW i \in DOMAIN s,
         NEW m \in Nat, m < s[i].fly
  PROVE  LET x == [s EXCEPT ![i] = [s[i] EXCEPT !.fly = s[i].fly - m]] IN
         /\ x \in Seq(PositionBy(t)) /\ Len(x) = Len(s)
         /\ Weight(x, StakedFly(t)) = Weight(s, StakedFly(t)) - m
         /\ Weight(x, PointsFor(t)) <= Weight(s, PointsFor(t))
<1> DEFINE p == s[i]
           e == [p EXCEPT !.fly = p.fly - m]
<1>1. p \in PositionBy(t) /\ p.fly \in Nat /\ p.at \in 0..t
  <2>1. p \in PositionBy(t)
    BY Listed
  <2> HIDE DEF p
  <2> QED BY <2>1 DEF PositionBy
<1>2. m <= p.fly
  BY <1>1
<1> HIDE DEF p
<1>3. /\ e \in PositionBy(t) /\ e.fly = p.fly - m /\ e.fly <= p.fly
      /\ e.at = p.at /\ e.bonus = p.bonus
  <2>1. p.fly - m \in Nat /\ p.fly - m <= p.fly
    BY <1>1, <1>2
  <2>2. p \in [bonus : BOOLEAN, fly : Nat, at : 0..t]
    BY <1>1 DEF PositionBy
  <2> QED BY <2>1, <2>2 DEF PositionBy
<1>4. [s EXCEPT ![i] = [s[i] EXCEPT !.fly = s[i].fly - m]] = [s EXCEPT ![i] = e] /\ s[i] = p
  BY DEF p
<1> HIDE DEF e
<1>5. StakedFly(t)[e] = p.fly - m /\ StakedFly(t)[p] = p.fly
  BY <1>1, <1>3 DEF StakedFly
<1>6. PointsFor(t)[e] <= PointsFor(t)[p] /\ PointsFor(t)[e] \in Nat /\ PointsFor(t)[p] \in Nat
  <2>1. t - e.at <= t - p.at
    BY <1>1, <1>3
  <2> QED BY <1>1, <1>3, <2>1, PointsMonotone, PointsType
<1>7. StakedFly(t) \in [PositionBy(t) -> Nat] /\ PointsFor(t) \in [PositionBy(t) -> Nat]
  BY Weights
<1> DEFINE x == [s EXCEPT ![i] = e]
<1>8. /\ x \in Seq(PositionBy(t)) /\ Len(x) = Len(s)
      /\ \A w \in [PositionBy(t) -> Nat] : Weight(x, w) = Weight(s, w) - w[s[i]] + w[e]
  BY <1>3, Replacing
<1>9. Weight(s, StakedFly(t)) \in Nat /\ Weight(s, PointsFor(t)) \in Nat
  BY <1>7, WeightType
<1> HIDE DEF x
<1>10. /\ Weight(x, StakedFly(t)) = Weight(s, StakedFly(t)) - p.fly + (p.fly - m)
       /\ Weight(x, PointsFor(t)) = Weight(s, PointsFor(t)) - PointsFor(t)[p] + PointsFor(t)[e]
  BY <1>4, <1>5, <1>7, <1>8
<1>11. Weight(x, StakedFly(t)) = Weight(s, StakedFly(t)) - m
  BY <1>1, <1>9, <1>10
<1>12. Weight(x, PointsFor(t)) <= Weight(s, PointsFor(t))
  BY <1>6, <1>9, <1>10
<1> QED BY <1>4, <1>8, <1>11, <1>12 DEF x

\* What a turn takes from the one list it appends to the other, and it takes
\* nothing but what remains to be taken, or a whole position.
LEMMA TakeEffect ==
  ASSUME NEW t \in 0..MaxTime, now = t, NEW r \in Turns(t), NEW i \in DOMAIN r.staked
  PROVE  LET q == Take(r, i) IN
         /\ q \in Turns(t) /\ q.remaining <= r.remaining
         /\ Weight(q.staked, StakedFly(t)) + r.remaining = Weight(r.staked, StakedFly(t)) + q.remaining
         /\ Weight(q.unstaking, LeavingFly) + q.remaining = Weight(r.unstaking, LeavingFly) + r.remaining
         /\ Weight(q.unstaking, LeavingSince(t)) + q.remaining
              = Weight(r.unstaking, LeavingSince(t)) + r.remaining
         /\ Weight(q.staked, PointsFor(t)) <= Weight(r.staked, PointsFor(t))
         /\ Len(q.staked) \in {Len(r.staked), Len(r.staked) - 1}
         /\ q.remaining > 0 => Len(q.staked) = Len(r.staked) - 1
<1> DEFINE s == r.staked
           u == r.unstaking
           m == r.remaining
           p == r.staked[i]
<1>1. /\ t \in Nat /\ MaxTime \in Nat /\ Unbonding \in Nat
  BY StakingAssumption
<1>2. s \in Seq(PositionBy(t)) /\ u \in Seq(Released) /\ m \in Nat
  BY DEF Turns
<1>3. p \in PositionBy(t) /\ p.fly \in Nat /\ Len(s) \in Nat
  <2>1. i \in DOMAIN s
    OBVIOUS
  <2>2. p = s[i]
    OBVIOUS
  <2> HIDE DEF s, p
  <2>3. p \in PositionBy(t) /\ Len(s) \in Nat
    BY <1>2, <2>1, <2>2, Listed
  <2> QED BY <2>3 DEF PositionBy
<1>4. /\ StakedFly(t) \in [PositionBy(t) -> Nat] /\ PointsFor(t) \in [PositionBy(t) -> Nat]
      /\ LeavingFly \in [Released -> Nat] /\ LeavingSince(t) \in [Released -> Nat]
  BY <1>1, Weights
<1>5. /\ Weight(s, StakedFly(t)) \in Nat /\ Weight(s, PointsFor(t)) \in Nat
      /\ Weight(u, LeavingFly) \in Nat /\ Weight(u, LeavingSince(t)) \in Nat
  <2> HIDE DEF s, u
  <2> QED BY <1>2, <1>4, WeightType
<1>6. ASSUME NEW some \in Nat
      PROVE  LET v == Append(u, [fly |-> some, by |-> t + Unbonding]) IN
             /\ v \in Seq(Released)
             /\ Weight(v, LeavingFly) = Weight(u, LeavingFly) + some
             /\ Weight(v, LeavingSince(t)) = Weight(u, LeavingSince(t)) + some
  <2> DEFINE e == [fly |-> some, by |-> t + Unbonding]
  <2>1. e \in Released /\ LeavingFly[e] = some /\ LeavingSince(t)[e] = some
    <3>1. t + Unbonding \in 0..MaxTime + Unbonding
      BY <1>1
    <3>2. e \in Released
      BY <3>1 DEF Released
    <3> QED BY <3>2 DEF LeavingFly, LeavingSince
  <2> HIDE DEF e, u
  <2>2. Append(u, e) \in Seq(Released)
    BY <1>2, <2>1, AppendProperties
  <2>3. /\ Weight(Append(u, e), LeavingFly) = Weight(u, LeavingFly) + LeavingFly[e]
        /\ Weight(Append(u, e), LeavingSince(t)) = Weight(u, LeavingSince(t)) + LeavingSince(t)[e]
    BY <1>2, <1>4, <2>1, WeightAppended
  <2> QED BY <2>1, <2>2, <2>3 DEF e
<1>7. CASE m = 0
  BY <1>2, <1>5, <1>7 DEF Take
<1>8. CASE m # 0 /\ m >= p.fly
  <2> DEFINE v == Append(u, [fly |-> p.fly, by |-> t + Unbonding])
             q == [remaining |-> m - p.fly, staked |-> Pop(s, i), unstaking |-> v]
  <2>1. Take(r, i) = q
    BY <1>8 DEF Take
  <2>2. /\ v \in Seq(Released)
        /\ Weight(v, LeavingFly) = Weight(u, LeavingFly) + p.fly
        /\ Weight(v, LeavingSince(t)) = Weight(u, LeavingSince(t)) + p.fly
    BY <1>3, <1>6
  <2>3. /\ Pop(s, i) \in Seq(PositionBy(t)) /\ Len(Pop(s, i)) = Len(s) - 1
        /\ Weight(Pop(s, i), StakedFly(t)) = Weight(s, StakedFly(t)) - StakedFly(t)[p]
        /\ Weight(Pop(s, i), PointsFor(t)) = Weight(s, PointsFor(t)) - PointsFor(t)[p]
    <3>1. i \in DOMAIN s /\ p = s[i]
      OBVIOUS
    <3> HIDE DEF s, p
    <3> QED BY <1>2, <1>4, <3>1, Popping, SMTT(30)
  <2>4. StakedFly(t)[p] = p.fly /\ PointsFor(t)[p] \in Nat
    BY <1>3, <1>4 DEF StakedFly
  <2>5. m - p.fly \in Nat /\ m - p.fly <= m
    BY <1>2, <1>3, <1>8
  <2>6. q \in Turns(t)
    <3> HIDE DEF v, s, u, m, p
    <3> QED BY <2>2, <2>3, <2>5 DEF Turns
  <2>7. q.remaining = m - p.fly /\ q.staked = Pop(s, i) /\ q.unstaking = v
    OBVIOUS
  <2> HIDE DEF q, v
  <2>8. /\ q.remaining <= m
        /\ Weight(q.staked, StakedFly(t)) + m = Weight(s, StakedFly(t)) + q.remaining
        /\ Weight(q.unstaking, LeavingFly) + q.remaining = Weight(u, LeavingFly) + m
        /\ Weight(q.unstaking, LeavingSince(t)) + q.remaining = Weight(u, LeavingSince(t)) + m
        /\ Weight(q.staked, PointsFor(t)) <= Weight(s, PointsFor(t))
        /\ Len(q.staked) = Len(s) - 1
    <3> HIDE DEF s, u, m, p
    <3>1. q.remaining <= m /\ Len(q.staked) = Len(s) - 1
      BY <2>3, <2>5, <2>7
    <3>2. Weight(q.staked, StakedFly(t)) + m = Weight(s, StakedFly(t)) + q.remaining
      BY <1>2, <1>3, <1>5, <2>3, <2>4, <2>7
    <3>3. Weight(q.unstaking, LeavingFly) + q.remaining = Weight(u, LeavingFly) + m
      BY <1>2, <1>3, <1>5, <2>2, <2>7
    <3>4. Weight(q.unstaking, LeavingSince(t)) + q.remaining = Weight(u, LeavingSince(t)) + m
      BY <1>2, <1>3, <1>5, <2>2, <2>7
    <3>5. Weight(q.staked, PointsFor(t)) <= Weight(s, PointsFor(t))
      BY <1>5, <2>3, <2>4, <2>7
    <3> QED BY <3>1, <3>2, <3>3, <3>4, <3>5
  <2> QED BY <2>1, <2>6, <2>8
<1>9. CASE m # 0 /\ ~(m >= p.fly)
  <2> DEFINE v == Append(u, [fly |-> m, by |-> t + Unbonding])
             e == [p EXCEPT !.fly = p.fly - m]
             q == [remaining |-> 0, staked |-> [s EXCEPT ![i] = e], unstaking |-> v]
  <2>1. Take(r, i) = q
    <3>1. [r.staked EXCEPT ![i].fly = @ - m] = [s EXCEPT ![i] = e]
      OBVIOUS
    <3>2. m - m = 0
      BY <1>2
    <3> QED BY <1>9, <3>1, <3>2 DEF Take
  <2>2. /\ v \in Seq(Released)
        /\ Weight(v, LeavingFly) = Weight(u, LeavingFly) + m
        /\ Weight(v, LeavingSince(t)) = Weight(u, LeavingSince(t)) + m
    BY <1>2, <1>6
  <2>3. m < s[i].fly /\ i \in DOMAIN s /\ e = [s[i] EXCEPT !.fly = s[i].fly - m] /\ p = s[i]
    BY <1>2, <1>3, <1>9
  <2>6. /\ [s EXCEPT ![i] = e] \in Seq(PositionBy(t)) /\ Len([s EXCEPT ![i] = e]) = Len(s)
        /\ Weight([s EXCEPT ![i] = e], StakedFly(t)) = Weight(s, StakedFly(t)) - m
        /\ Weight([s EXCEPT ![i] = e], PointsFor(t)) <= Weight(s, PointsFor(t))
    <3> HIDE DEF e, s, p, m
    <3> QED BY <1>1, <1>2, <2>3, Lessened
  <2>7. q \in Turns(t)
    <3> HIDE DEF v, e, s, u
    <3> QED BY <2>2, <2>6 DEF Turns
  <2>8. q.remaining = 0 /\ q.staked = [s EXCEPT ![i] = e] /\ q.unstaking = v
    OBVIOUS
  <2> HIDE DEF q, v, e
  <2>9. /\ q.remaining <= m /\ q.remaining = 0
        /\ Weight(q.staked, StakedFly(t)) + m = Weight(s, StakedFly(t)) + q.remaining
        /\ Weight(q.unstaking, LeavingFly) + q.remaining = Weight(u, LeavingFly) + m
        /\ Weight(q.unstaking, LeavingSince(t)) + q.remaining = Weight(u, LeavingSince(t)) + m
        /\ Weight(q.staked, PointsFor(t)) <= Weight(s, PointsFor(t))
        /\ Len(q.staked) = Len(s)
    <3> HIDE DEF s, u, m, p
    <3>1. q.remaining <= m /\ q.remaining = 0 /\ Len(q.staked) = Len(s)
      BY <1>2, <2>6, <2>8
    <3>2. Weight(q.staked, StakedFly(t)) + m = Weight(s, StakedFly(t)) + q.remaining
      BY <1>2, <1>5, <2>6, <2>8
    <3>3. Weight(q.unstaking, LeavingFly) + q.remaining = Weight(u, LeavingFly) + m
      BY <1>2, <1>5, <2>2, <2>8
    <3>4. Weight(q.unstaking, LeavingSince(t)) + q.remaining = Weight(u, LeavingSince(t)) + m
      BY <1>2, <1>5, <2>2, <2>8
    <3>5. Weight(q.staked, PointsFor(t)) <= Weight(s, PointsFor(t))
      BY <1>5, <2>6, <2>8
    <3> QED BY <3>1, <3>2, <3>3, <3>4, <3>5
  <2> QED BY <2>1, <2>7, <2>9
<1> QED BY <1>7, <1>8, <1>9

LEMMA Balance ==
  ASSUME NEW w, NEW s, NEW q, NEW r, NEW n \in Nat, q.remaining \in Nat, r.remaining \in Nat,
         Weight(s, w) \in Nat, Weight(q.staked, w) \in Nat, Weight(r.staked, w) \in Nat,
         Weight(r.staked, w) + n = Weight(s, w) + r.remaining,
         Weight(q.staked, w) + r.remaining = Weight(r.staked, w) + q.remaining
  PROVE  Weight(q.staked, w) + n = Weight(s, w) + q.remaining
OBVIOUS

LEMMA Solved ==
  ASSUME NEW w, NEW s, NEW x, NEW m \in Nat, NEW n \in Nat,
         Weight(x, w) \in Nat, Weight(s, w) \in Nat, Weight(x, w) + n = Weight(s, w) + m
  PROVE  Weight(x, w) = Weight(s, w) + m - n
<1>1. \A k, l \in Nat : k + n = l + m => k = l + m - n
  OBVIOUS
<1> QED BY <1>1, Zenon

\* The loop of beginUnstake: all that is taken is in the other list, and if
\* there was less than was asked for, the list is empty.
LEMMA UnstakedEffect ==
  ASSUME NEW t \in 0..MaxTime, now = t, NEW a, NEW s \in Seq(PositionBy(t)), staked[a] = s,
         NEW u \in Seq(Released), unstaking[a] = u, NEW n \in Nat
  PROVE  \E r \in Turns(t) :
           /\ r = Unstaked(a, n) /\ r.remaining <= n
           /\ Weight(r.staked, StakedFly(t)) + n = Weight(s, StakedFly(t)) + r.remaining
           /\ Weight(r.unstaking, LeavingFly) + r.remaining = Weight(u, LeavingFly) + n
           /\ Weight(r.unstaking, LeavingSince(t)) + r.remaining = Weight(u, LeavingSince(t)) + n
           /\ Weight(r.staked, PointsFor(t)) <= Weight(s, PointsFor(t))
           /\ Len(r.staked) <= Len(s)
           /\ r.remaining > 0 => Len(r.staked) = 0
<1> DEFINE c == Len(s)
           b == [remaining |-> n, staked |-> s, unstaking |-> u]
           Holds(r) ==
             /\ r.remaining <= n
             /\ Weight(r.staked, StakedFly(t)) + n = Weight(s, StakedFly(t)) + r.remaining
             /\ Weight(r.unstaking, LeavingFly) + r.remaining = Weight(u, LeavingFly) + n
             /\ Weight(r.unstaking, LeavingSince(t)) + r.remaining = Weight(u, LeavingSince(t)) + n
             /\ Weight(r.staked, PointsFor(t)) <= Weight(s, PointsFor(t))
           Reached(r, k) ==
             /\ Len(r.staked) <= c /\ Len(r.staked) >= c - k
             /\ r.remaining > 0 => Len(r.staked) = c - k
           after == [k \in 0..c |-> {r \in Turns(t) : Holds(r) /\ Reached(r, k)}]
           step == [x \in Turns(t) \X (1..c) |-> Take(x[1], c + 1 - x[2])]
<1>1. t \in Nat /\ MaxTime \in Nat /\ c \in Nat
  BY StakingAssumption, Listed
<1>2. /\ StakedFly(t) \in [PositionBy(t) -> Nat] /\ PointsFor(t) \in [PositionBy(t) -> Nat]
      /\ LeavingFly \in [Released -> Nat] /\ LeavingSince(t) \in [Released -> Nat]
  BY <1>1, Weights
<1>3. /\ Weight(s, StakedFly(t)) \in Nat /\ Weight(s, PointsFor(t)) \in Nat
      /\ Weight(u, LeavingFly) \in Nat /\ Weight(u, LeavingSince(t)) \in Nat
  BY <1>2, WeightType
<1>4. b \in after[0]
  <2>1. b \in Turns(t)
    BY DEF Turns
  <2>2. Holds(b) /\ Reached(b, 0)
    <3> HIDE DEF c
    <3> QED BY <1>1, <1>3 DEF c
  <2> HIDE DEF b, Holds, Reached, c
  <2> QED BY <1>1, <2>1, <2>2
<1>5. ASSUME NEW k \in 1..c, NEW r \in after[k - 1]  PROVE step[<<r, k>>] \in after[k]
  <2> DEFINE i == c + 1 - k
             q == Take(r, i)
  <2>1. r \in Turns(t) /\ Holds(r) /\ Reached(r, k - 1)
    <3> HIDE DEF Holds, Reached, c
    <3>1. k - 1 \in 0..c
      BY <1>1
    <3>2. after[k - 1] = {x \in Turns(t) : Holds(x) /\ Reached(x, k - 1)}
      BY <3>1
    <3> HIDE DEF after
    <3> QED BY <1>5, <3>2
  <2>2. r.staked \in Seq(PositionBy(t)) /\ r.unstaking \in Seq(Released) /\ r.remaining \in Nat
    BY <2>1 DEF Turns
  <2>3. DOMAIN r.staked = 1..Len(r.staked) /\ Len(r.staked) \in Nat
    BY <2>2, Listed
  <2>4. i \in DOMAIN r.staked
    <3> HIDE DEF c
    <3> QED BY <1>1, <2>1, <2>3
  <2> HIDE DEF i
  <2>5. /\ q \in Turns(t) /\ q.remaining <= r.remaining
        /\ Weight(q.staked, StakedFly(t)) + r.remaining = Weight(r.staked, StakedFly(t)) + q.remaining
        /\ Weight(q.unstaking, LeavingFly) + q.remaining = Weight(r.unstaking, LeavingFly) + r.remaining
        /\ Weight(q.unstaking, LeavingSince(t)) + q.remaining
             = Weight(r.unstaking, LeavingSince(t)) + r.remaining
        /\ Weight(q.staked, PointsFor(t)) <= Weight(r.staked, PointsFor(t))
        /\ Len(q.staked) \in {Len(r.staked), Len(r.staked) - 1}
        /\ q.remaining > 0 => Len(q.staked) = Len(r.staked) - 1
    BY <2>1, <2>4, TakeEffect
  <2>6. step[<<r, k>>] = q
    BY <2>1 DEF i
  <2> HIDE DEF q, step
  <2>7. q.staked \in Seq(PositionBy(t)) /\ q.unstaking \in Seq(Released) /\ q.remaining \in Nat
    BY <2>5 DEF Turns
  <2>8. /\ Weight(q.staked, StakedFly(t)) \in Nat /\ Weight(q.staked, PointsFor(t)) \in Nat
        /\ Weight(q.unstaking, LeavingFly) \in Nat /\ Weight(q.unstaking, LeavingSince(t)) \in Nat
    BY <1>2, <2>7, WeightType
  <2>9. /\ Weight(r.staked, StakedFly(t)) \in Nat /\ Weight(r.staked, PointsFor(t)) \in Nat
        /\ Weight(r.unstaking, LeavingFly) \in Nat /\ Weight(r.unstaking, LeavingSince(t)) \in Nat
    BY <1>2, <2>2, WeightType
  <2>10. Holds(q)
    <3>1. q.remaining <= n
      BY <2>1, <2>2, <2>5, <2>7, SMTT(30)
    <3>2. Weight(q.staked, StakedFly(t)) + n = Weight(s, StakedFly(t)) + q.remaining
      <4>1. Weight(r.staked, StakedFly(t)) + n = Weight(s, StakedFly(t)) + r.remaining
        BY <2>1
      <4>2. Weight(q.staked, StakedFly(t)) + r.remaining = Weight(r.staked, StakedFly(t)) + q.remaining
        BY <2>5
      <4> HIDE DEF c, Holds, Reached, after
      <4>3. Weight(q.staked, StakedFly(t)) \in Nat
        BY <2>8
      <4>4. Weight(r.staked, StakedFly(t)) \in Nat
        BY <2>9
      <4>5. Weight(s, StakedFly(t)) \in Nat
        BY <1>3
      <4>6. q.remaining \in Nat /\ r.remaining \in Nat /\ n \in Nat
        BY <2>2, <2>7
      <4> QED BY <4>1, <4>2, <4>3, <4>4, <4>5, <4>6, Balance, ZenonT(40)
    <3>3. Weight(q.unstaking, LeavingFly) + q.remaining = Weight(u, LeavingFly) + n
      BY <1>3, <2>1, <2>2, <2>5, <2>7, <2>8, <2>9
    <3>4. Weight(q.unstaking, LeavingSince(t)) + q.remaining = Weight(u, LeavingSince(t)) + n
      BY <1>3, <2>1, <2>2, <2>5, <2>7, <2>8, <2>9
    <3>5. Weight(q.staked, PointsFor(t)) <= Weight(s, PointsFor(t))
      BY <1>3, <2>1, <2>5, <2>8, <2>9, SMTT(30)
    <3> QED BY <3>1, <3>2, <3>3, <3>4, <3>5
  <2>11. Reached(q, k)
    <3>1. Len(q.staked) \in Nat
      BY <2>7, Listed
    <3>2. /\ Len(r.staked) <= c /\ Len(r.staked) >= c - (k - 1)
          /\ r.remaining > 0 => Len(r.staked) = c - (k - 1)
      BY <2>1
    <3> HIDE DEF c, Holds
    <3>3. Len(q.staked) <= c /\ Len(q.staked) >= c - k
      BY <1>1, <2>3, <2>5, <3>1, <3>2, SMTT(30)
    <3>4. ASSUME q.remaining > 0 PROVE Len(q.staked) = c - k
      <4>1. r.remaining > 0
        BY <2>2, <2>5, <2>7, <3>4
      <4>2. Len(r.staked) = c - (k - 1) /\ Len(q.staked) = Len(r.staked) - 1
        BY <2>5, <3>2, <3>4, <4>1
      <4> QED BY <1>1, <2>3, <3>1, <4>2
    <3> QED BY <3>3, <3>4
  <2> HIDE DEF Holds, Reached
  <2>12. k \in 0..c
    BY <1>1
  <2> QED BY <2>5, <2>6, <2>10, <2>11, <2>12
<1>6. Carries(step, Turns(t), after, c)
  <2>1. after \in [0..c -> SUBSET Turns(t)]
    OBVIOUS
  <2> HIDE DEF after, step, c
  <2> QED BY <1>5, <2>1 DEF Carries
<1>7. \A k \in 1..c : \A x \in Turns(t) : step[<<x, k>>] = Take(x, c + 1 - k)
  <2> HIDE DEF c
  <2> QED OBVIOUS
<1> DEFINE Turn(h) == [k \in 0..c |-> IF k = 0 THEN b ELSE Take(h[k - 1], c + 1 - k)]
           turn == CHOOSE h : h = Turn(h)
<1>8. Unstaked(a, n) = turn[c]
  BY Zenon DEF Unstaked
<1> HIDE DEF step, after, b
<1>9. turn = Turn(turn)
  <2>1. PICK g \in [0..c -> Turns(t)] : LoopOf(g, b, step, c)
    <3> HIDE DEF c
    <3> QED BY <1>1, <1>4, <1>6, LoopExists
  <2>2. /\ DOMAIN g = 0..c /\ g[0] = b
        /\ \A k \in 1..c : g[k] = step[<<g[k - 1], k>>]
    BY <2>1 DEF LoopOf
  <2>3. \A k \in 1..c : g[k] = Take(g[k - 1], c + 1 - k)
    <3> SUFFICES ASSUME NEW k \in 1..c  PROVE g[k] = Take(g[k - 1], c + 1 - k)
      OBVIOUS
    <3>1. g[k - 1] \in Turns(t)
      <4> HIDE DEF c
      <4>1. k - 1 \in 0..c
        BY <1>1
      <4> QED BY <2>1, <4>1
    <3> HIDE DEF c
    <3> QED BY <1>7, <2>2, <3>1
  <2>4. g = Turn(g)
    <3> HIDE DEF c
    <3>1. \A k \in 0..c : k = 0 \/ k \in 1..c
      BY <1>1
    <3>2. \A k \in 0..c : g[k] = IF k = 0 THEN b ELSE Take(g[k - 1], c + 1 - k)
      BY <2>2, <2>3, <3>1
    <3>3. g = [k \in 0..c |-> g[k]]
      BY <2>1
    <3> QED BY <3>2, <3>3
  <2> HIDE DEF Turn
  <2> QED BY <2>4
<1>10. turn[0] = b /\ \A k \in 1..c : turn[k] = Take(turn[k - 1], c + 1 - k)
  <2> HIDE DEF c, turn
  <2>1. 0 \in 0..c /\ \A k \in 1..c : k \in 0..c /\ k # 0
    BY <1>1
  <2>2. \A k \in 0..c : Turn(turn)[k] = IF k = 0 THEN b ELSE Take(turn[k - 1], c + 1 - k)
    OBVIOUS
  <2> HIDE DEF Turn
  <2> QED BY <1>9, <2>1, <2>2
<1> HIDE DEF turn
<1>11. turn[c] \in after[c]
  <2>1. \A k \in 1..c : turn[k - 1] \in Turns(t) => turn[k] = step[<<turn[k - 1], k>>]
    BY <1>7, <1>10
  <2> HIDE DEF c
  <2> QED BY <1>1, <1>4, <1>6, <1>10, <2>1, LoopKeeps
<1>12. turn[c] \in Turns(t) /\ Holds(turn[c]) /\ Reached(turn[c], c)
  <2> HIDE DEF Holds, Reached, c
  <2> QED BY <1>1, <1>11 DEF after
<1>13. turn[c].remaining > 0 => Len(turn[c].staked) = 0
  <2>1. c - c = 0
    BY <1>1
  <2> QED BY <1>12, <2>1
<1> QED BY <1>8, <1>12, <1>13

-----------------------------------------------------------------------------
(* One turn of finaliseUnstake.                                            *)

Collections == [returned : Nat, unstaking : Seq(Released)]

LEMMA CollectEffect ==
  ASSUME NEW t \in Nat, now = t, NEW r \in Collections, NEW i \in DOMAIN r.unstaking
  PROVE  LET q == Collect(r, i) IN
         /\ q \in Collections
         /\ q.returned + Weight(q.unstaking, RipeFly(t)) = r.returned + Weight(r.unstaking, RipeFly(t))
         /\ q.returned + Weight(q.unstaking, LeavingFly) = r.returned + Weight(r.unstaking, LeavingFly)
         /\ Len(q.unstaking) <= Len(r.unstaking) /\ Len(q.unstaking) >= Len(r.unstaking) - 1
         /\ (\A j \in DOMAIN r.unstaking : j > i => r.unstaking[j].by > t)
              => \A j \in DOMAIN q.unstaking : j >= i => q.unstaking[j].by > t
<1> DEFINE u == r.unstaking
           p == r.unstaking[i]
<1>1. r.returned \in Nat /\ u \in Seq(Released) /\ i \in DOMAIN u /\ p = u[i]
  BY DEF Collections
<1> HIDE DEF u, p
<1>2. /\ p \in Released /\ p.fly \in Nat /\ p.by \in Int /\ Len(u) \in Nat /\ DOMAIN u = 1..Len(u)
      /\ \A j \in DOMAIN u : u[j] \in Released /\ u[j].by \in Int
  <2>1. /\ p \in Released /\ Len(u) \in Nat /\ DOMAIN u = 1..Len(u)
        /\ \A j \in DOMAIN u : u[j] \in Released
    BY <1>1, Listed
  <2> QED BY <2>1 DEF Released
<1>3. LeavingFly \in [Released -> Nat] /\ RipeFly(t) \in [Released -> Nat]
  BY Weights
<1>4. CASE ~(p.by <= t)
  <2>1. Collect(r, i) = r
    BY <1>4 DEF Collect, Matured, p
  <2>2. \A j \in DOMAIN u : j >= i => j > i \/ j = i
    BY <1>1, <1>2
  <2>3. (\A j \in DOMAIN u : j > i => u[j].by > t) => \A j \in DOMAIN u : j >= i => u[j].by > t
    BY <1>1, <1>2, <1>4, <2>2
  <2>4. Len(u) <= Len(u) /\ Len(u) >= Len(u) - 1
    BY <1>2
  <2> QED BY <2>1, <2>3, <2>4 DEF u
<1>5. CASE p.by <= t
  <2> DEFINE v == Pop(u, i)
             q == [returned |-> r.returned + p.fly, unstaking |-> v]
  <2>1. Collect(r, i) = q
    BY <1>5 DEF Collect, Matured, p, u
  <2>2. /\ v \in Seq(Released) /\ Len(v) = Len(u) - 1
        /\ \A j \in DOMAIN v : j \in DOMAIN u /\ v[j] = IF j = i THEN u[Len(u)] ELSE u[j]
        /\ \A w \in [Released -> Nat] : Weight(v, w) = Weight(u, w) - w[u[i]]
    BY <1>1, Popping
  <2>3. DOMAIN v = 1..Len(v)
    BY <2>2, Listed
  <2>4. q \in Collections
    <3> HIDE DEF v
    <3> QED BY <1>1, <1>2, <2>2 DEF Collections
  <2>5. q.returned = r.returned + p.fly /\ q.unstaking = v
    OBVIOUS
  <2> HIDE DEF q, v
  <2>6. RipeFly(t)[p] = p.fly /\ LeavingFly[p] = p.fly
    BY <1>2, <1>5 DEF RipeFly, LeavingFly
  <2>7. Weight(u, RipeFly(t)) \in Nat /\ Weight(u, LeavingFly) \in Nat
    BY <1>1, <1>3, WeightType
  <2>8. q.returned + Weight(v, RipeFly(t)) = r.returned + Weight(u, RipeFly(t))
    <3>1. Weight(v, RipeFly(t)) = Weight(u, RipeFly(t)) - p.fly
      BY <1>1, <1>3, <2>2, <2>6
    <3> QED BY <1>1, <1>2, <2>5, <2>7, <3>1
  <2>9. q.returned + Weight(v, LeavingFly) = r.returned + Weight(u, LeavingFly)
    <3>1. Weight(v, LeavingFly) = Weight(u, LeavingFly) - p.fly
      BY <1>1, <1>3, <2>2, <2>6
    <3> QED BY <1>1, <1>2, <2>5, <2>7, <3>1
  <2>10. Len(v) <= Len(u) /\ Len(v) >= Len(u) - 1
    BY <1>2, <2>2
  <2>11. ASSUME \A j \in DOMAIN u : j > i => u[j].by > t, NEW j \in DOMAIN v, j >= i
         PROVE  v[j].by > t
    <3>1. Len(u) > i /\ Len(u) \in DOMAIN u
      BY <1>1, <1>2, <2>2, <2>3, <2>11
    <3>2. CASE j = i
      BY <2>2, <2>11, <3>1, <3>2
    <3>3. CASE j # i
      <4>1. j > i /\ j \in DOMAIN u /\ v[j] = u[j]
        BY <1>1, <1>2, <2>2, <2>3, <2>11, <3>3
      <4> QED BY <2>11, <4>1
    <3> QED BY <3>2, <3>3
  <2> QED BY <2>1, <2>4, <2>5, <2>8, <2>9, <2>10, <2>11 DEF u
<1> QED BY <1>4, <1>5

\* The loop of finaliseUnstake: all that has matured is returned and no more,
\* and nothing that has matured is left.
LEMMA CollectedEffect ==
  ASSUME NEW t \in Nat, now = t, NEW a, NEW u \in Seq(Released), unstaking[a] = u
  PROVE  \E r \in Collections :
           /\ r = Collected(a)
           /\ r.returned = Weight(u, RipeFly(t))
           /\ r.returned + Weight(r.unstaking, LeavingFly) = Weight(u, LeavingFly)
           /\ \A j \in DOMAIN r.unstaking : r.unstaking[j].by > t
<1> DEFINE c == Len(u)
           b == [returned |-> 0, unstaking |-> u]
           Holds(r) ==
             /\ r.returned + Weight(r.unstaking, RipeFly(t)) = Weight(u, RipeFly(t))
             /\ r.returned + Weight(r.unstaking, LeavingFly) = Weight(u, LeavingFly)
           Reached(r, k) ==
             /\ Len(r.unstaking) <= c /\ Len(r.unstaking) >= c - k
             /\ \A j \in DOMAIN r.unstaking : j > c - k => r.unstaking[j].by > t
           after == [k \in 0..c |-> {r \in Collections : Holds(r) /\ Reached(r, k)}]
           step == [x \in Collections \X (1..c) |-> Collect(x[1], c + 1 - x[2])]
<1>1. c \in Nat /\ DOMAIN u = 1..c
  BY Listed
<1>2. LeavingFly \in [Released -> Nat] /\ RipeFly(t) \in [Released -> Nat]
  BY Weights
<1>3. Weight(u, LeavingFly) \in Nat /\ Weight(u, RipeFly(t)) \in Nat
  BY <1>2, WeightType
<1>4. b \in after[0]
  <2>1. b \in Collections
    BY DEF Collections
  <2>2. Holds(b) /\ Reached(b, 0)
    <3>1. b.unstaking = u /\ b.returned = 0
      OBVIOUS
    <3> HIDE DEF b, c
    <3>2. Holds(b)
      BY <1>3, <3>1
    <3>3. Len(u) = c
      BY DEF c
    <3>4. Reached(b, 0)
      BY <1>1, <3>1, <3>3
    <3> HIDE DEF Holds, Reached
    <3> QED BY <3>2, <3>4
  <2> HIDE DEF b, Holds, Reached, c
  <2> QED BY <1>1, <2>1, <2>2
<1>5. ASSUME NEW k \in 1..c, NEW r \in after[k - 1]  PROVE step[<<r, k>>] \in after[k]
  <2> DEFINE i == c + 1 - k
             q == Collect(r, i)
  <2>1. r \in Collections /\ Holds(r) /\ Reached(r, k - 1)
    <3> HIDE DEF Holds, Reached, c
    <3>1. k - 1 \in 0..c
      BY <1>1
    <3>2. after[k - 1] = {x \in Collections : Holds(x) /\ Reached(x, k - 1)}
      BY <3>1
    <3> HIDE DEF after
    <3> QED BY <1>5, <3>2
  <2>2. r.unstaking \in Seq(Released) /\ r.returned \in Nat
    BY <2>1 DEF Collections
  <2>3. DOMAIN r.unstaking = 1..Len(r.unstaking) /\ Len(r.unstaking) \in Nat
    BY <2>2, Listed
  <2>4. i \in DOMAIN r.unstaking /\ i = c - (k - 1) /\ i > c - k /\ i \in Int
    <3>1. Len(r.unstaking) >= c - (k - 1)
      BY <2>1
    <3> HIDE DEF c, Holds, Reached, after
    <3> QED BY <1>1, <2>3, <3>1
  <2> HIDE DEF i
  <2>5. /\ q \in Collections
        /\ q.returned + Weight(q.unstaking, RipeFly(t)) = r.returned + Weight(r.unstaking, RipeFly(t))
        /\ q.returned + Weight(q.unstaking, LeavingFly) = r.returned + Weight(r.unstaking, LeavingFly)
        /\ Len(q.unstaking) <= Len(r.unstaking) /\ Len(q.unstaking) >= Len(r.unstaking) - 1
        /\ (\A j \in DOMAIN r.unstaking : j > i => r.unstaking[j].by > t)
              => \A j \in DOMAIN q.unstaking : j >= i => q.unstaking[j].by > t
    BY <2>1, <2>4, CollectEffect
  <2>6. step[<<r, k>>] = q
    BY <2>1 DEF i
  <2> HIDE DEF q, step
  <2>7. q.unstaking \in Seq(Released) /\ q.returned \in Nat
    BY <2>5 DEF Collections
  <2>8. Holds(q)
    BY <2>1, <2>5
  <2>9. Reached(q, k)
    <3>1. Len(q.unstaking) \in Nat /\ DOMAIN q.unstaking = 1..Len(q.unstaking)
      BY <2>7, Listed
    <3>2. /\ Len(r.unstaking) <= c /\ Len(r.unstaking) >= c - (k - 1)
          /\ \A j \in DOMAIN r.unstaking : j > c - (k - 1) => r.unstaking[j].by > t
      BY <2>1
    <3> HIDE DEF c, Holds
    <3>3. Len(q.unstaking) <= c /\ Len(q.unstaking) >= c - k
      BY <1>1, <2>3, <2>5, <3>1, <3>2
    <3>4. \A j \in DOMAIN r.unstaking : j > i => r.unstaking[j].by > t
      BY <2>4, <3>2
    <3>5. \A j \in DOMAIN q.unstaking : j > c - k => j >= i
      BY <1>1, <2>4, <3>1
    <3>6. \A j \in DOMAIN q.unstaking : j > c - k => q.unstaking[j].by > t
      BY <2>5, <3>4, <3>5
    <3> QED BY <3>3, <3>6
  <2> HIDE DEF Holds, Reached
  <2>10. k \in 0..c
    BY <1>1
  <2> QED BY <2>5, <2>6, <2>8, <2>9, <2>10
<1>6. Carries(step, Collections, after, c)
  <2>1. after \in [0..c -> SUBSET Collections]
    OBVIOUS
  <2> HIDE DEF after, step, c
  <2> QED BY <1>5, <2>1 DEF Carries
<1>7. \A k \in 1..c : \A x \in Collections : step[<<x, k>>] = Collect(x, c + 1 - k)
  <2> HIDE DEF c
  <2> QED OBVIOUS
<1> DEFINE Turn(h) == [k \in 0..c |-> IF k = 0 THEN b ELSE Collect(h[k - 1], c + 1 - k)]
           turn == CHOOSE h : h = Turn(h)
<1>8. Collected(a) = turn[c]
  BY Zenon DEF Collected
<1> HIDE DEF step, after, b
<1>9. turn = Turn(turn)
  <2>1. PICK g \in [0..c -> Collections] : LoopOf(g, b, step, c)
    <3> HIDE DEF c
    <3> QED BY <1>1, <1>4, <1>6, LoopExists
  <2>2. /\ DOMAIN g = 0..c /\ g[0] = b
        /\ \A k \in 1..c : g[k] = step[<<g[k - 1], k>>]
    BY <2>1 DEF LoopOf
  <2>3. \A k \in 1..c : g[k] = Collect(g[k - 1], c + 1 - k)
    <3> SUFFICES ASSUME NEW k \in 1..c  PROVE g[k] = Collect(g[k - 1], c + 1 - k)
      OBVIOUS
    <3>1. g[k - 1] \in Collections
      <4> HIDE DEF c
      <4>1. k - 1 \in 0..c
        BY <1>1
      <4> QED BY <2>1, <4>1
    <3> HIDE DEF c
    <3> QED BY <1>7, <2>2, <3>1
  <2>4. g = Turn(g)
    <3> HIDE DEF c
    <3>1. \A k \in 0..c : k = 0 \/ k \in 1..c
      BY <1>1
    <3>2. \A k \in 0..c : g[k] = IF k = 0 THEN b ELSE Collect(g[k - 1], c + 1 - k)
      BY <2>2, <2>3, <3>1
    <3>3. g = [k \in 0..c |-> g[k]]
      BY <2>1
    <3> QED BY <3>2, <3>3
  <2> HIDE DEF Turn
  <2> QED BY <2>4
<1>10. turn[0] = b /\ \A k \in 1..c : turn[k] = Collect(turn[k - 1], c + 1 - k)
  <2> HIDE DEF c, turn
  <2>1. 0 \in 0..c /\ \A k \in 1..c : k \in 0..c /\ k # 0
    BY <1>1
  <2>2. \A k \in 0..c : Turn(turn)[k] = IF k = 0 THEN b ELSE Collect(turn[k - 1], c + 1 - k)
    OBVIOUS
  <2> HIDE DEF Turn
  <2> QED BY <1>9, <2>1, <2>2
<1> HIDE DEF turn
<1>11. turn[c] \in after[c]
  <2>1. \A k \in 1..c : turn[k - 1] \in Collections => turn[k] = step[<<turn[k - 1], k>>]
    BY <1>7, <1>10
  <2> HIDE DEF c
  <2> QED BY <1>1, <1>4, <1>6, <1>10, <2>1, LoopKeeps
<1>12. turn[c] \in Collections /\ Holds(turn[c]) /\ Reached(turn[c], c)
  <2> HIDE DEF Holds, Reached, c
  <2> QED BY <1>1, <1>11 DEF after
<1> DEFINE r == turn[c]
<1>13. /\ r \in Collections
       /\ r.returned + Weight(r.unstaking, RipeFly(t)) = Weight(u, RipeFly(t))
       /\ r.returned + Weight(r.unstaking, LeavingFly) = Weight(u, LeavingFly)
       /\ \A j \in DOMAIN r.unstaking : j > c - c => r.unstaking[j].by > t
  BY <1>12
<1> HIDE DEF r, c, Holds, Reached
<1>14. r.unstaking \in Seq(Released) /\ r.returned \in Nat
  BY <1>13 DEF Collections
<1>15. /\ \A j \in DOMAIN r.unstaking : j > c - c
       /\ \A j \in DOMAIN r.unstaking : r.unstaking[j] \in Released /\ r.unstaking[j].by \in Int
  <2>1. /\ DOMAIN r.unstaking = 1..Len(r.unstaking) /\ Len(r.unstaking) \in Nat
        /\ \A j \in DOMAIN r.unstaking : r.unstaking[j] \in Released
    BY <1>14, Listed
  <2> QED BY <1>1, <2>1 DEF Released
<1>16. \A j \in DOMAIN r.unstaking : r.unstaking[j].by > t
  BY <1>13, <1>15
<1>17. Weight(r.unstaking, RipeFly(t)) = 0
  <2>1. \A j \in DOMAIN r.unstaking : RipeFly(t)[r.unstaking[j]] = 0
    BY <1>15, <1>16 DEF RipeFly
  <2> QED BY <2>1, WeightOfNothing
<1>18. r.returned = Weight(u, RipeFly(t))
  BY <1>13, <1>14, <1>17
<1> QED BY <1>8, <1>13, <1>16, <1>18 DEF r

-----------------------------------------------------------------------------
(* The invariant.  No position is younger than now: the age of a position   *)
(* would be negative otherwise, and the points of a list not a sum.        *)

IInv ==
  /\ staked \in [Account -> Seq(PositionBy(now))]
  /\ \A a \in Account : Len(staked[a]) <= MaxPositions
  /\ unstaking \in [Account -> Seq(Released)]
  /\ wallet \in [Account -> Nat] /\ held \in Nat
  /\ noEmergencyMode \in BOOLEAN /\ emergencies \in 0..MaxEmergencies
  /\ distributor \in Account /\ now \in 0..MaxTime
  /\ HeldIsOwed

\* The lists of an account, as they are before a step.
LEMMA ListsOf ==
  ASSUME IInv, NEW t, t = now, NEW a \in Account
  PROVE  \E s \in Seq(PositionBy(t)), u \in Seq(Released) :
           /\ staked[a] = s /\ unstaking[a] = u /\ t \in 0..MaxTime /\ t \in Nat
           /\ Total(s) \in Nat /\ Total(u) \in Nat /\ OwedTo(a) = Total(s) + Total(u)
           /\ Len(s) <= MaxPositions /\ Len(s) \in Nat
<1>1. t \in 0..MaxTime /\ t \in Nat
  BY StakingAssumption DEF IInv
<1>2. PICK s \in Seq(PositionBy(t)) : s = staked[a]
  BY DEF IInv
<1>3. PICK u \in Seq(Released) : u = unstaking[a]
  BY DEF IInv
<1>4. Total(s) \in Nat /\ Total(u) \in Nat
  BY <1>1, StakedTotal, UnstakingTotal
<1>5. OwedTo(a) = Total(s) + Total(u)
  BY <1>2, <1>3 DEF OwedTo
<1>6. Len(s) <= MaxPositions /\ Len(s) \in Nat
  BY <1>2, Listed DEF IInv
<1> QED BY <1>1, <1>2, <1>3, <1>4, <1>5, <1>6

LEMMA OwnIsNat ==
  ASSUME IInv, NEW a \in Account
  PROVE  wallet[a] \in Nat /\ OwedTo(a) \in Nat /\ Points(a) \in Nat /\ BonusFly(a) \in Nat
<1>1. PICK t : t = now
  OBVIOUS
<1>2. PICK s \in Seq(PositionBy(t)), u \in Seq(Released) :
        /\ staked[a] = s /\ unstaking[a] = u /\ t \in 0..MaxTime /\ t \in Nat
        /\ Total(s) \in Nat /\ Total(u) \in Nat /\ OwedTo(a) = Total(s) + Total(u)
        /\ Len(s) <= MaxPositions /\ Len(s) \in Nat
  BY <1>1, ListsOf
<1>3. Points(a) = Weight(s, PointsFor(t)) /\ BonusFly(a) = Weight(s, BonusFor(t))
  BY <1>1, <1>2, SumsAre
<1>4. PointsFor(t) \in [PositionBy(t) -> Nat] /\ BonusFor(t) \in [PositionBy(t) -> Nat]
  BY <1>2, Weights
<1>5. Points(a) \in Nat /\ BonusFly(a) \in Nat
  BY <1>3, <1>4, WeightType
<1> QED BY <1>2, <1>5 DEF IInv

LEMMA IInvGivesSolvent ==
  ASSUME IInv
  PROVE  Solvent
<1>1. ASSUME NEW a \in Account
      PROVE  staked[a] \in Seq([bonus : BOOLEAN, fly : Nat, at : 0..MaxTime])
  <2>1. PositionBy(now) \subseteq [bonus : BOOLEAN, fly : Nat, at : 0..MaxTime]
    <3>1. 0..now \subseteq 0..MaxTime
      BY StakingAssumption DEF IInv
    <3> QED BY <3>1 DEF PositionBy
  <2>2. staked[a] \in Seq(PositionBy(now))
    BY DEF IInv
  <2> QED BY <2>1, <2>2, SeqMonotonic
<1>2. staked \in [Account -> Seq([bonus : BOOLEAN, fly : Nat, at : 0..MaxTime])]
  BY <1>1 DEF IInv
<1> QED BY <1>2 DEF Solvent, TypeOK, IInv, Released

LEMMA InitIInv ==
  ASSUME Init
  PROVE  IInv
<1>1. <<>> \in Seq(PositionBy(now)) /\ <<>> \in Seq(Released) /\ Len(<<>>) = 0
  BY EmptySeq
<1>2. HeldIsOwed
  <2>1. DOMAIN <<>> = {}
    OBVIOUS
  <2>2. Total(<<>>) = 0
    <3>1. [i \in DOMAIN <<>> |-> <<>>[i].fly] = [i \in {} |-> 0]
      BY <2>1
    <3>2. Sum([i \in {} |-> 0]) = 0
      BY SumOfZeros
    <3> QED BY <3>1, <3>2 DEF Total
  <2>3. \A a \in Account : OwedTo(a) = 0
    BY <2>2 DEF OwedTo, Init
  <2>4. [a \in Account |-> OwedTo(a)] = [a \in Account |-> 0]
    BY <2>3
  <2>5. Sum([a \in Account |-> 0]) = 0
    BY SumOfZeros
  <2> QED BY <2>4, <2>5 DEF HeldIsOwed, Init
<1>3. 0 <= MaxPositions /\ 0 \in 0..MaxTime /\ 0 \in 0..MaxEmergencies
  BY StakingAssumption
<1> QED BY <1>1, <1>2, <1>3, StakingAssumption DEF IInv, Init

\* A step that changes the lists of one account only, and what the contract
\* holds by as much.
LEMMA Settled ==
  ASSUME IInv, NEW t \in 0..MaxTime, now = t, NEW a \in Account,
         NEW s \in Seq(PositionBy(t)), NEW u \in Seq(Released), Len(s) <= MaxPositions,
         staked' = [staked EXCEPT ![a] = s], unstaking' = [unstaking EXCEPT ![a] = u],
         UNCHANGED <<roles, now>>, wallet' \in [Account -> Nat], held' \in Nat,
         held' + OwedTo(a) = held + Total(s) + Total(u)
  PROVE  /\ IInv'
         /\ staked'[a] = s /\ unstaking'[a] = u
         /\ Points(a)' = Weight(s, PointsFor(t)) /\ BonusFly(a)' = Weight(s, BonusFor(t))
         /\ OwedTo(a)' = Total(s) + Total(u)
         /\ \A b \in Account \ {a} :
              /\ Points(b)' = Points(b) /\ OwedTo(b)' = OwedTo(b)
<1>1. t \in Nat /\ now' = t /\ staked'[a] = s /\ unstaking'[a] = u
  BY StakingAssumption DEF IInv
<1>2. Total(s) = Weight(s, StakedFly(t)) /\ Total(u) = Weight(u, LeavingFly)
      /\ Total(s) \in Nat /\ Total(u) \in Nat
  BY <1>1, StakedTotal, UnstakingTotal
<1>3. /\ Points(a)' = Weight(s, PointsFor(t)) /\ BonusFly(a)' = Weight(s, BonusFor(t))
      /\ OwedTo(a)' = Total(s) + Total(u)
  BY <1>1, <1>2, SumsBecome
<1>4. ASSUME NEW b \in Account \ {a}
      PROVE  Points(b)' = Points(b) /\ OwedTo(b)' = OwedTo(b)
  <2>1. PICK y \in Seq(PositionBy(t)) : y = staked[b]
    BY DEF IInv
  <2>2. PICK z \in Seq(Released) : z = unstaking[b]
    BY DEF IInv
  <2>3. staked'[b] = y /\ unstaking'[b] = z
    BY <2>1, <2>2 DEF IInv
  <2>4. /\ Points(b) = Weight(y, PointsFor(t))
        /\ OwedTo(b) = Weight(y, StakedFly(t)) + Weight(z, LeavingFly)
    BY <1>1, <2>1, <2>2, SumsAre
  <2>5. /\ Points(b)' = Weight(y, PointsFor(t))
        /\ OwedTo(b)' = Weight(y, StakedFly(t)) + Weight(z, LeavingFly)
    BY <1>1, <2>3, SumsBecome, ZenonT(40)
  <2> QED BY <2>4, <2>5
<1>5. HeldIsOwed'
  <2>1. \A b \in Account : OwedTo(b) \in Nat
    BY OwnIsNat
  <2>2. PICK f \in [Account -> Nat] : f = [b \in Account |-> OwedTo(b)]
    BY <2>1
  <2> DEFINE v == Total(s) + Total(u)
             g == [f EXCEPT ![a] = v]
  <2>3. \A b \in Account : OwedTo(b)' = g[b]
    BY <1>3, <1>4, <2>2
  <2>4. v \in Nat
    BY <1>2
  <2>5. [b \in Account |-> OwedTo(b)]' = g
    <3>1. g = [b \in Account |-> g[b]]
      OBVIOUS
    <3> HIDE DEF g
    <3> QED BY <2>3, <3>1
  <2>6. held = Sum(f)
    BY <2>2 DEF IInv, HeldIsOwed
  <2>7. f[a] = OwedTo(a)
    BY <2>2
  <2>8. held' + OwedTo(a) = held + v
    BY <1>2, SMTT(30) DEF IInv
  <2> HIDE DEF v
  <2>9. Sum(g) = Sum(f) - f[a] + v
    BY <2>4, StakingAssumption, SumUpdate, ZenonT(40)
  <2> HIDE DEF g
  <2>10. held' = Sum(g)
    <3>1. f[a] \in Nat /\ held \in Nat
      BY DEF IInv
    <3> QED BY <2>4, <2>6, <2>7, <2>8, <2>9, <3>1, SMTT(30)
  <2>11. Sum([b \in Account |-> OwedTo(b)])' = Sum(g)
    BY <2>5
  <2> QED BY <2>10, <2>11 DEF HeldIsOwed
<1>6. /\ staked' \in [Account -> Seq(PositionBy(now'))]
      /\ \A b \in Account : Len(staked'[b]) <= MaxPositions
      /\ unstaking' \in [Account -> Seq(Released)]
  <2>1. staked' \in [Account -> Seq(PositionBy(t))]
    BY DEF IInv
  <2>2. \A b \in Account : Len(staked'[b]) <= MaxPositions
    BY <1>1 DEF IInv
  <2> QED BY <1>1, <2>1, <2>2 DEF IInv
<1>7. IInv'
  BY <1>5, <1>6 DEF IInv, roles, PositionBy
<1> QED BY <1>1, <1>3, <1>4, <1>7

-----------------------------------------------------------------------------
(* The steps.                                                              *)

\* What StepsFair says of one account.
FairTo(a) ==
  /\ wallet[a] + OwedTo(a) > wallet'[a] + OwedTo(a)' => a \in {Operator, distributor}
  /\ noEmergencyMode /\ wallet'[a] > wallet[a] =>
       /\ wallet'[a] - wallet[a] = MaturedFly(a)
       /\ \A i \in DOMAIN unstaking'[a] : unstaking'[a][i].by > now
  /\ Points(a)' > Points(a) => now' > now \/ BonusFly(a)' > BonusFly(a)
  /\ Points(a)' < Points(a) => Total(staked'[a]) < Total(staked[a])

LEMMA Untouched ==
  ASSUME IInv, NEW a \in Account, Points(a)' = Points(a), OwedTo(a)' = OwedTo(a),
         wallet'[a] = wallet[a]
  PROVE  FairTo(a)
<1>1. wallet[a] \in Nat /\ OwedTo(a) \in Nat
  BY OwnIsNat
<1>2. Points(a) \in Nat
  BY OwnIsNat
<1>3. ~(wallet[a] + OwedTo(a) > wallet'[a] + OwedTo(a)') /\ ~(wallet'[a] > wallet[a])
  BY <1>1
<1>4. ~(Points(a)' > Points(a)) /\ ~(Points(a)' < Points(a))
  BY <1>2
<1> QED BY <1>3, <1>4 DEF FairTo

LEMMA DepositStep ==
  ASSUME IInv, NEW a \in Account, NEW c \in Account, NEW n \in Nat, NEW bonus \in BOOLEAN,
         a = c \/ a \in {Operator, distributor}, Deposit(a, c, n, bonus)
  PROVE  IInv' /\ \A b \in Account : FairTo(b)
<1>1. PICK t : t = now
  OBVIOUS
<1>2. PICK s \in Seq(PositionBy(t)), u \in Seq(Released) :
        /\ staked[c] = s /\ unstaking[c] = u /\ t \in 0..MaxTime /\ t \in Nat
        /\ Total(s) \in Nat /\ Total(u) \in Nat /\ OwedTo(c) = Total(s) + Total(u)
        /\ Len(s) <= MaxPositions /\ Len(s) \in Nat
  BY <1>1, ListsOf
<1> DEFINE e == [bonus |-> bonus, fly |-> n, at |-> t]
           x == Append(s, e)
<1>3. /\ n > 0 /\ Len(s) < MaxPositions /\ wallet[a] >= n /\ e = NewPosition(n, bonus)
      /\ staked' = [staked EXCEPT ![c] = x]
      /\ wallet' = [wallet EXCEPT ![a] = @ - n] /\ held' = held + n
      /\ UNCHANGED <<unstaking, roles, now>>
  BY <1>1, <1>2 DEF Deposit, RoomFor, NewPosition
<1>4. e \in PositionBy(t) /\ e.fly = n /\ e.bonus = bonus /\ e.at = t
  BY <1>2 DEF PositionBy
<1> HIDE DEF e
<1>5. /\ StakedFly(t) \in [PositionBy(t) -> Nat] /\ BonusFor(t) \in [PositionBy(t) -> Nat]
      /\ PointsFor(t) \in [PositionBy(t) -> Nat]
  BY <1>2, Weights
<1>6. /\ x \in Seq(PositionBy(t)) /\ Len(x) = Len(s) + 1
      /\ Weight(x, StakedFly(t)) = Weight(s, StakedFly(t)) + StakedFly(t)[e]
      /\ Weight(x, BonusFor(t)) = Weight(s, BonusFor(t)) + BonusFor(t)[e]
      /\ Weight(x, PointsFor(t)) = Weight(s, PointsFor(t)) + PointsFor(t)[e]
  <2>1. x \in Seq(PositionBy(t)) /\ Len(x) = Len(s) + 1
    BY <1>4, AppendProperties
  <2>2. Weight(x, StakedFly(t)) = Weight(s, StakedFly(t)) + StakedFly(t)[e]
    BY <1>4, <1>5, WeightAppended, ZenonT(40)
  <2>3. Weight(x, BonusFor(t)) = Weight(s, BonusFor(t)) + BonusFor(t)[e]
    BY <1>4, <1>5, WeightAppended, ZenonT(40)
  <2>4. Weight(x, PointsFor(t)) = Weight(s, PointsFor(t)) + PointsFor(t)[e]
    BY <1>4, <1>5, WeightAppended
  <2> QED BY <2>1, <2>2, <2>3, <2>4
<1>7. StakedFly(t)[e] = n /\ BonusFor(t)[e] = (IF bonus THEN n ELSE 0)
  BY <1>4 DEF StakedFly, BonusFor
<1>8. bonus \/ PointsFor(t)[e] = 0
  <2>1. t - t = 0 /\ n * 0 = 0
    BY <1>2
  <2>2. e.fly * (t - e.at) = 0
    BY <1>4, <2>1
  <2>3. 0 \div PointUnit = 0
    BY DivZero, StakingAssumption
  <2>4. PointsFor(t)[e] = (e.fly * (t - e.at)) \div PointUnit
                            + (IF bonus THEN (e.fly * BonusTime) \div PointUnit ELSE 0)
    BY <1>4 DEF PointsFor
  <2>5. PointsFor(t)[e] = 0 + (IF bonus THEN (e.fly * BonusTime) \div PointUnit ELSE 0)
    BY <2>2, <2>3, <2>4
  <2> QED BY <2>5
<1> HIDE DEF x
<1>9. Total(x) = Total(s) + n /\ Total(x) \in Nat
  <2>1. Total(x) = Weight(x, StakedFly(t)) /\ Total(s) = Weight(s, StakedFly(t))
    BY <1>2, <1>6, StakedTotal
  <2> QED BY <1>2, <1>6, <1>7, <2>1
<1>10. wallet' \in [Account -> Nat] /\ held' \in Nat /\ held' + OwedTo(c) = held + Total(x) + Total(u)
  <2>1. wallet[a] \in Nat /\ held \in Nat /\ wallet \in [Account -> Nat]
    BY DEF IInv
  <2>2. wallet[a] - n \in Nat
    BY <1>3, <2>1
  <2>3. wallet' \in [Account -> Nat]
    BY <1>3, <2>1, <2>2
  <2>4. held' \in Nat /\ held' + OwedTo(c) = held + Total(x) + Total(u)
    BY <1>2, <1>3, <1>9, <2>1
  <2> QED BY <2>3, <2>4
<1>11. /\ IInv'
       /\ staked'[c] = x /\ unstaking'[c] = u
       /\ Points(c)' = Weight(x, PointsFor(t)) /\ BonusFly(c)' = Weight(x, BonusFor(t))
       /\ OwedTo(c)' = Total(x) + Total(u)
       /\ \A b \in Account \ {c} :
            /\ Points(b)' = Points(b) /\ OwedTo(b)' = OwedTo(b)
  <2>1. Len(x) <= MaxPositions
    BY <1>2, <1>3, <1>6, StakingAssumption
  <2>2. unstaking' = [unstaking EXCEPT ![c] = u]
    BY <1>2, <1>3 DEF IInv
  <2>3. UNCHANGED <<roles, now>> /\ now = t /\ t \in 0..MaxTime /\ staked' = [staked EXCEPT ![c] = x]
    BY <1>1, <1>2, <1>3
  <2>4. x \in Seq(PositionBy(t))
    BY <1>6
  <2> QED BY <1>10, <2>1, <2>2, <2>3, <2>4, Settled
<1>12. Points(c) = Weight(s, PointsFor(t)) /\ BonusFly(c) = Weight(s, BonusFor(t))
  BY <1>1, <1>2, SumsAre
<1>13. ASSUME NEW b \in Account  PROVE FairTo(b)
  <2>1. wallet[b] \in Nat /\ OwedTo(b) \in Nat /\ wallet \in [Account -> Nat]
    BY OwnIsNat DEF IInv
  <2>2. wallet'[b] = (IF b = a THEN wallet[b] - n ELSE wallet[b])
    BY <1>3, <2>1
  <2>3. CASE b # c /\ b # a
    BY <1>11, <2>2, <2>3, Untouched
  <2>4. CASE b # c /\ b = a
    <3>1. ~(wallet'[b] > wallet[b])
      BY <2>1, <2>2
    <3>2. Points(b)' = Points(b)
      BY <1>11, <2>4
    <3>3. Points(b) \in Nat
      BY OwnIsNat
    <3>4. ~(Points(b)' > Points(b)) /\ ~(Points(b)' < Points(b))
      BY <3>2, <3>3
    <3> QED BY <1>3, <2>4, <3>1, <3>4 DEF FairTo
  <2>5. CASE b = c
    <3>1. ~(wallet'[b] > wallet[b])
      BY <2>1, <2>2
    <3>2. ~(wallet[b] + OwedTo(b) > wallet'[b] + OwedTo(b)')
      <4>1. OwedTo(b)' = OwedTo(b) + n
        BY <1>2, <1>9, <1>11, <2>5
      <4> QED BY <2>1, <2>2, <4>1
    <3>3. /\ Weight(s, PointsFor(t)) \in Nat /\ PointsFor(t)[e] \in Nat
          /\ Weight(s, BonusFor(t)) \in Nat
      BY <1>4, <1>5, WeightType
    <3>4. Points(b)' = Points(b) + PointsFor(t)[e] /\ Points(b) \in Nat
      BY <1>6, <1>11, <1>12, <2>5, <3>3
    <3>5. ~(Points(b)' < Points(b))
      BY <3>3, <3>4
    <3>6. ASSUME Points(b)' > Points(b)  PROVE BonusFly(b)' > BonusFly(b)
      <4>1. PointsFor(t)[e] # 0
        BY <3>3, <3>4, <3>6
      <4>2. BonusFly(b)' = BonusFly(b) + n
        BY <1>6, <1>7, <1>8, <1>11, <1>12, <2>5, <4>1
      <4> QED BY <1>3, <1>12, <2>5, <3>3, <4>2
    <3> QED BY <3>1, <3>2, <3>5, <3>6 DEF FairTo
  <2> QED BY <2>3, <2>4, <2>5
<1> QED BY <1>11, <1>13

\* What UnstakesWhatWasAsked says of one call.
AsAsked(a, n) ==
  LET moved == IF n < Total(staked[a]) THEN n ELSE Total(staked[a]) IN
  /\ Total(staked[a]) = Total(staked'[a]) + moved
  /\ BeganNow(unstaking'[a]) = BeganNow(unstaking[a]) + moved

LEMMA BeginUnstakeStep ==
  ASSUME IInv, NEW a \in Account, NEW n \in Nat, BeginUnstake(a, n)
  PROVE  IInv' /\ (\A b \in Account : FairTo(b)) /\ AsAsked(a, n)
<1>1. PICK t : t = now
  OBVIOUS
<1>2. PICK s \in Seq(PositionBy(t)), u \in Seq(Released) :
        /\ staked[a] = s /\ unstaking[a] = u /\ t \in 0..MaxTime /\ t \in Nat
        /\ Total(s) \in Nat /\ Total(u) \in Nat /\ OwedTo(a) = Total(s) + Total(u)
        /\ Len(s) <= MaxPositions /\ Len(s) \in Nat
  BY <1>1, ListsOf
<1>3. PICK r \in Turns(t) :
        /\ r = Unstaked(a, n) /\ r.remaining <= n
        /\ Weight(r.staked, StakedFly(t)) + n = Weight(s, StakedFly(t)) + r.remaining
        /\ Weight(r.unstaking, LeavingFly) + r.remaining = Weight(u, LeavingFly) + n
        /\ Weight(r.unstaking, LeavingSince(t)) + r.remaining = Weight(u, LeavingSince(t)) + n
        /\ Weight(r.staked, PointsFor(t)) <= Weight(s, PointsFor(t))
        /\ Len(r.staked) <= Len(s)
        /\ r.remaining > 0 => Len(r.staked) = 0
  BY <1>1, <1>2, UnstakedEffect
<1>4. PICK x \in Seq(PositionBy(t)), y \in Seq(Released), m \in Nat :
        x = r.staked /\ y = r.unstaking /\ m = r.remaining
  BY DEF Turns
<1>5. /\ m < n /\ staked' = [staked EXCEPT ![a] = x] /\ unstaking' = [unstaking EXCEPT ![a] = y]
      /\ UNCHANGED <<roles, now>> /\ wallet' = wallet /\ held' = held
  BY <1>3, <1>4 DEF BeginUnstake
<1>6. /\ StakedFly(t) \in [PositionBy(t) -> Nat] /\ PointsFor(t) \in [PositionBy(t) -> Nat]
      /\ LeavingFly \in [Released -> Nat] /\ LeavingSince(t) \in [Released -> Nat]
  BY <1>2, Weights
<1>7. /\ Total(s) = Weight(s, StakedFly(t)) /\ Total(x) = Weight(x, StakedFly(t)) /\ Total(x) \in Nat
      /\ Total(u) = Weight(u, LeavingFly) /\ Total(y) = Weight(y, LeavingFly) /\ Total(y) \in Nat
  BY <1>2, StakedTotal, UnstakingTotal
<1>8. Total(x) = Total(s) + m - n /\ Total(y) = Total(u) + n - m
  <2>1. Weight(x, StakedFly(t)) = Weight(s, StakedFly(t)) + m - n
    BY <1>2, <1>3, <1>4, <1>7, Solved, SMTT(30)
  <2>2. Weight(y, LeavingFly) = Weight(u, LeavingFly) + n - m
    BY <1>2, <1>3, <1>4, <1>7, Solved, SMTT(30)
  <2> QED BY <1>7, <2>1, <2>2
<1>9. /\ IInv'
      /\ staked'[a] = x /\ unstaking'[a] = y
      /\ Points(a)' = Weight(x, PointsFor(t))
      /\ OwedTo(a)' = Total(x) + Total(y)
      /\ \A b \in Account \ {a} :
           /\ Points(b)' = Points(b) /\ OwedTo(b)' = OwedTo(b)
  <2>1. now = t /\ t \in 0..MaxTime /\ UNCHANGED <<roles, now>>
    BY <1>1, <1>2, <1>5
  <2>2. Len(x) <= MaxPositions
    <3>1. Len(x) \in Nat /\ MaxPositions \in Nat
      BY Listed, StakingAssumption
    <3> QED BY <1>2, <1>3, <1>4, <3>1
  <2>3. wallet' \in [Account -> Nat] /\ held' \in Nat
    BY <1>5 DEF IInv
  <2>4. held' + OwedTo(a) = held + Total(x) + Total(y)
    <3>1. held \in Nat
      BY DEF IInv
    <3>2. OwedTo(a) = Total(x) + Total(y)
      BY <1>2, <1>4, <1>7, <1>8, SMTT(30)
    <3>3. held' = held
      BY <1>5
    <3> QED BY <1>7, <3>1, <3>2, <3>3
  <2>5. staked' = [staked EXCEPT ![a] = x] /\ unstaking' = [unstaking EXCEPT ![a] = y]
    BY <1>5
  <2> QED BY <2>1, <2>2, <2>3, <2>4, <2>5, Settled
<1>10. Total(staked'[a]) = Total(x) /\ Total(staked[a]) = Total(s) /\ Total(x) < Total(s)
  BY <1>2, <1>5, <1>7, <1>8, <1>9, SMTT(30)
<1>11. ASSUME NEW b \in Account  PROVE FairTo(b)
  <2>1. wallet[b] \in Nat /\ OwedTo(b) \in Nat /\ Points(b) \in Nat
    BY OwnIsNat
  <2>2. CASE b # a
    BY <1>5, <1>9, <2>2, Untouched
  <2>3. CASE b = a
    <3>1. OwedTo(b)' = OwedTo(b)
      BY <1>2, <1>4, <1>7, <1>8, <1>9, <2>3
    <3>2. ~(wallet[b] + OwedTo(b) > wallet'[b] + OwedTo(b)') /\ ~(wallet'[b] > wallet[b])
      BY <1>5, <2>1, <3>1
    <3>3. Points(b) = Weight(s, PointsFor(t))
      BY <1>1, <1>2, <2>3, SumsAre
    <3>4. Weight(x, PointsFor(t)) \in Nat
      BY <1>6, WeightType
    <3>5. ~(Points(b)' > Points(b))
      BY <1>3, <1>4, <1>9, <2>1, <2>3, <3>3, <3>4
    <3> QED BY <1>10, <2>3, <3>2, <3>5 DEF FairTo
  <2> QED BY <2>2, <2>3
<1>12. AsAsked(a, n)
  <2>1. BeganNow(y) = Weight(y, LeavingSince(t)) /\ BeganNow(u) = Weight(u, LeavingSince(t))
    BY <1>1, <1>2, BeganIsWeight
  <2>2. Weight(y, LeavingSince(t)) \in Nat /\ Weight(u, LeavingSince(t)) \in Nat
    BY <1>6, WeightType
  <2>3. BeganNow(y) = BeganNow(u) + n - m /\ BeganNow(y) \in Nat /\ BeganNow(u) \in Nat
    <3>1. Weight(y, LeavingSince(t)) = Weight(u, LeavingSince(t)) + n - m
      BY <1>3, <1>4, <2>2, Solved
    <3> QED BY <2>1, <2>2, <3>1
  <2>4. m > 0 => Total(x) = 0
    <3>1. ASSUME m > 0  PROVE Total(x) = 0
      <4>1. Len(x) = 0
        BY <1>3, <1>4, <3>1
      <4>2. DOMAIN x = {}
        BY <4>1, Listed
      <4>3. Weight(x, StakedFly(t)) = 0
        BY <4>2, WeightOfNothing
      <4> QED BY <1>7, <4>3
    <3> QED BY <3>1
  <2> DEFINE moved == IF n < Total(s) THEN n ELSE Total(s)
  <2>5. moved = n - m
    <3>1. CASE m = 0
      BY <1>2, <1>5, <1>7, <1>8, <3>1
    <3>2. CASE m # 0
      <4>1. m > 0
        BY <1>4, <3>2
      <4>2. \A k, l, i, j \in Nat : k = 0 /\ k = l + i - j => l = j - i
        OBVIOUS
      <4>3. Total(x) = 0 /\ Total(x) = Total(s) + m - n
        BY <1>8, <2>4, <4>1
      <4>4. Total(s) = n - m
        <5>1. Total(x) \in Nat /\ Total(s) \in Nat /\ m \in Nat /\ n \in Nat
          BY <1>2, <1>4, <1>7
        <5>2. \A l, i, j \in Nat : Total(x) = l + i - j => l = j - i
          BY <4>2, <4>3, <5>1, Zenon
        <5>3. \A i, j \in Nat : Total(x) = Total(s) + i - j => Total(s) = j - i
          BY <5>1, <5>2, Zenon
        <5> QED BY <4>3, <5>1, <5>3, Zenon
      <4>5. ~(n < Total(s))
        BY <1>2, <1>4, <4>1, <4>4
      <4> QED BY <4>4, <4>5
    <3> QED BY <3>1, <3>2
  <2> HIDE DEF moved
  <2>6. Total(s) = Total(x) + moved
    <3>1. \A k, l, i, j \in Nat : k = l + i - j => l = k + (j - i)
      OBVIOUS
    <3>2. Total(x) \in Nat /\ Total(s) \in Nat /\ m \in Nat /\ n \in Nat
      BY <1>2, <1>4, <1>7
    <3>3. \A l, i, j \in Nat : Total(x) = l + i - j => l = Total(x) + (j - i)
      BY <3>1, <3>2, Zenon
    <3>4. \A i, j \in Nat : Total(x) = Total(s) + i - j => Total(s) = Total(x) + (j - i)
      BY <3>2, <3>3, Zenon
    <3>5. Total(s) = Total(x) + (n - m)
      BY <1>8, <3>2, <3>4, Zenon
    <3> QED BY <2>5, <3>5
  <2>7. BeganNow(y) = BeganNow(u) + moved
    BY <1>4, <1>5, <2>3, <2>5
  <2>8. BeganNow(unstaking'[a]) = BeganNow(y) /\ BeganNow(unstaking[a]) = BeganNow(u)
    BY <1>2, <1>9
  <2> QED BY <1>10, <2>6, <2>7, <2>8 DEF AsAsked, moved
<1> QED BY <1>9, <1>11, <1>12

LEMMA FinaliseUnstakeStep ==
  ASSUME IInv, NEW a \in Account, FinaliseUnstake(a)
  PROVE  IInv' /\ \A b \in Account : FairTo(b)
<1>1. PICK t : t = now
  OBVIOUS
<1>2. PICK s \in Seq(PositionBy(t)), u \in Seq(Released) :
        /\ staked[a] = s /\ unstaking[a] = u /\ t \in 0..MaxTime /\ t \in Nat
        /\ Total(s) \in Nat /\ Total(u) \in Nat /\ OwedTo(a) = Total(s) + Total(u)
        /\ Len(s) <= MaxPositions /\ Len(s) \in Nat
  BY <1>1, ListsOf
<1>3. PICK r \in Collections :
        /\ r = Collected(a)
        /\ r.returned = Weight(u, RipeFly(t))
        /\ r.returned + Weight(r.unstaking, LeavingFly) = Weight(u, LeavingFly)
        /\ \A j \in DOMAIN r.unstaking : r.unstaking[j].by > t
  BY <1>1, <1>2, CollectedEffect
<1>4. PICK y \in Seq(Released), m \in Nat : y = r.unstaking /\ m = r.returned
  BY DEF Collections
<1>5. /\ m > 0 /\ held >= m /\ unstaking' = [unstaking EXCEPT ![a] = y]
      /\ wallet' = [wallet EXCEPT ![a] = @ + m] /\ held' = held - m
      /\ staked' = staked /\ UNCHANGED <<roles, now>>
  BY <1>3, <1>4 DEF FinaliseUnstake
<1>6. Total(u) = Weight(u, LeavingFly) /\ Total(y) = Weight(y, LeavingFly) /\ Total(y) \in Nat
  BY UnstakingTotal
<1>7. m + Total(y) = Total(u)
  BY <1>3, <1>4, <1>6
<1>8. held \in Nat /\ wallet \in [Account -> Nat]
  BY DEF IInv
<1>9. /\ IInv'
      /\ staked'[a] = s /\ unstaking'[a] = y
      /\ Points(a)' = Weight(s, PointsFor(t))
      /\ OwedTo(a)' = Total(s) + Total(y)
      /\ \A b \in Account \ {a} :
           /\ Points(b)' = Points(b) /\ OwedTo(b)' = OwedTo(b)
  <2>1. now = t /\ t \in 0..MaxTime /\ UNCHANGED <<roles, now>> /\ Len(s) <= MaxPositions
    BY <1>1, <1>2, <1>5
  <2>2. wallet' \in [Account -> Nat] /\ held' \in Nat
    <3>1. wallet[a] + m \in Nat /\ held - m \in Nat
      BY <1>5, <1>8
    <3> QED BY <1>5, <1>8, <3>1
  <2>3. held' + OwedTo(a) = held + Total(s) + Total(y)
    BY <1>2, <1>5, <1>6, <1>7, <1>8, SMTT(30)
  <2>4. staked' = [staked EXCEPT ![a] = s] /\ unstaking' = [unstaking EXCEPT ![a] = y]
    BY <1>2, <1>5 DEF IInv
  <2> QED BY <2>1, <2>2, <2>3, <2>4, Settled
<1>10. MaturedFly(a) = m /\ Points(a) = Weight(s, PointsFor(t))
  BY <1>1, <1>2, <1>3, <1>4, SumsAre, ZenonT(40)
<1>11. ASSUME NEW b \in Account  PROVE FairTo(b)
  <2>1. wallet[b] \in Nat /\ OwedTo(b) \in Nat /\ Points(b) \in Nat
    BY OwnIsNat
  <2>2. CASE b # a
    <3>1. wallet'[b] = wallet[b]
      BY <1>5, <1>8, <2>2
    <3> QED BY <1>9, <2>2, <3>1, Untouched
  <2>3. CASE b = a
    <3>1. wallet'[b] = wallet[b] + m
      BY <1>5, <1>8, <2>3
    <3>2. ~(wallet[b] + OwedTo(b) > wallet'[b] + OwedTo(b)')
      <4>1. OwedTo(b)' + m = OwedTo(b) /\ OwedTo(b)' \in Nat
        BY <1>2, <1>6, <1>7, <1>9, <2>3
      <4> QED BY <2>1, <3>1, <4>1
    <3>3. Points(b)' = Points(b)
      BY <1>9, <1>10, <2>3
    <3>4. ~(Points(b)' > Points(b)) /\ ~(Points(b)' < Points(b))
      BY <2>1, <3>3
    <3>5. wallet'[b] - wallet[b] = MaturedFly(b)
      BY <1>10, <2>1, <2>3, <3>1
    <3>6. \A i \in DOMAIN unstaking'[b] : unstaking'[b][i].by > now
      BY <1>1, <1>3, <1>4, <1>9, <2>3
    <3> QED BY <3>2, <3>4, <3>5, <3>6 DEF FairTo
  <2> QED BY <2>2, <2>3
<1> QED BY <1>9, <1>11

\* The lists of who has withdrawn in an emergency.
LEMMA EmptiedPositions ==
  ASSUME NEW t \in Nat, NEW s \in Seq(PositionBy(t))
  PROVE  /\ Emptied(s) \in Seq(PositionBy(t)) /\ Len(Emptied(s)) = Len(s)
         /\ Total(Emptied(s)) = 0 /\ Weight(Emptied(s), PointsFor(t)) = 0
<1> DEFINE e == Emptied(s)
<1>1. DOMAIN s = 1..Len(s) /\ Len(s) \in Nat /\ \A i \in DOMAIN s : s[i] \in PositionBy(t)
  BY Listed
<1>2. \A i \in DOMAIN s : [s[i] EXCEPT !.fly = 0] \in PositionBy(t) /\ [s[i] EXCEPT !.fly = 0].fly = 0
  <2> SUFFICES ASSUME NEW i \in DOMAIN s
               PROVE  [s[i] EXCEPT !.fly = 0] \in PositionBy(t) /\ [s[i] EXCEPT !.fly = 0].fly = 0
    OBVIOUS
  <2>1. s[i] \in [bonus : BOOLEAN, fly : Nat, at : 0..t]
    BY <1>1 DEF PositionBy
  <2> QED BY <2>1 DEF PositionBy
<1>3. DOMAIN e = 1..Len(s) /\ \A i \in DOMAIN e : e[i] \in PositionBy(t) /\ e[i].fly = 0
  BY <1>1, <1>2 DEF Emptied
<1>4. e = [i \in 1..Len(s) |-> e[i]]
  BY <1>1 DEF Emptied
<1> HIDE DEF e
<1>5. e \in [1..Len(s) -> PositionBy(t)]
  BY <1>3, <1>4
<1>6. e \in Seq(PositionBy(t))
  BY <1>1, <1>5, SeqDef
<1>7. Len(e) = Len(s)
  BY <1>1, <1>3, <1>6, LenProperties
<1>8. Total(e) = 0
  <2>1. \A i \in DOMAIN e : StakedFly(t)[e[i]] = 0
    BY <1>3 DEF StakedFly
  <2>2. Weight(e, StakedFly(t)) = 0
    BY <2>1, WeightOfNothing
  <2> QED BY <1>6, <2>2, StakedTotal
<1>9. Weight(e, PointsFor(t)) = 0
  <2>1. \A i \in DOMAIN e : PointsFor(t)[e[i]] = 0
    BY <1>3, PointsType
  <2> QED BY <2>1, WeightOfNothing
<1> QED BY <1>6, <1>7, <1>8, <1>9 DEF e

LEMMA EmptiedReleases ==
  ASSUME NEW u \in Seq(Released)
  PROVE  Emptied(u) \in Seq(Released) /\ Total(Emptied(u)) = 0
<1> DEFINE e == Emptied(u)
<1>1. DOMAIN u = 1..Len(u) /\ Len(u) \in Nat /\ \A i \in DOMAIN u : u[i] \in Released
  BY Listed
<1>2. \A i \in DOMAIN u : [u[i] EXCEPT !.fly = 0] \in Released /\ [u[i] EXCEPT !.fly = 0].fly = 0
  <2> SUFFICES ASSUME NEW i \in DOMAIN u
               PROVE  [u[i] EXCEPT !.fly = 0] \in Released /\ [u[i] EXCEPT !.fly = 0].fly = 0
    OBVIOUS
  <2>1. u[i] \in [fly : Nat, by : 0..MaxTime + Unbonding]
    BY <1>1 DEF Released
  <2> QED BY <2>1 DEF Released
<1>3. DOMAIN e = 1..Len(u) /\ \A i \in DOMAIN e : e[i] \in Released /\ e[i].fly = 0
  BY <1>1, <1>2 DEF Emptied
<1>4. e = [i \in 1..Len(u) |-> e[i]]
  BY <1>1 DEF Emptied
<1> HIDE DEF e
<1>5. e \in [1..Len(u) -> Released]
  BY <1>3, <1>4
<1>6. e \in Seq(Released)
  BY <1>1, <1>5, SeqDef
<1>7. Total(e) = 0
  <2>1. \A i \in DOMAIN e : LeavingFly[e[i]] = 0
    BY <1>3 DEF LeavingFly
  <2>2. Weight(e, LeavingFly) = 0
    BY <2>1, WeightOfNothing
  <2> QED BY <1>6, <2>2, UnstakingTotal
<1> QED BY <1>6, <1>7 DEF e

\* Points are worth FLY: where there is none, there are none.
LEMMA PointsNeedFly ==
  ASSUME NEW t \in Nat, NEW s \in Seq(PositionBy(t)), Total(s) = 0
  PROVE  Weight(s, PointsFor(t)) = 0
<1>1. \A i \in DOMAIN s : s[i] \in PositionBy(t) /\ s[i].fly = 0
  <2> SUFFICES ASSUME NEW i \in DOMAIN s  PROVE s[i] \in PositionBy(t) /\ s[i].fly = 0
    OBVIOUS
  <2>1. s[i] \in PositionBy(t) /\ s[i].fly \in Nat
    <3>1. s[i] \in PositionBy(t)
      BY Listed
    <3> QED BY <3>1 DEF PositionBy
  <2>2. StakedFly(t)[s[i]] <= Weight(s, StakedFly(t))
    <3>1. StakedFly(t) \in [PositionBy(t) -> Nat]
      BY Weights
    <3> QED BY <3>1, WeightEach
  <2>3. StakedFly(t)[s[i]] = s[i].fly
    BY <2>1 DEF StakedFly
  <2>4. Weight(s, StakedFly(t)) = 0
    BY StakedTotal
  <2> QED BY <2>1, <2>2, <2>3, <2>4
<1>2. \A i \in DOMAIN s : PointsFor(t)[s[i]] = 0
  BY <1>1, PointsType
<1> QED BY <1>2, WeightOfNothing

LEMMA EmergencyWithdrawStep ==
  ASSUME IInv, NEW a \in Account, EmergencyWithdraw(a)
  PROVE  IInv' /\ \A b \in Account : FairTo(b)
<1>1. PICK t : t = now
  OBVIOUS
<1>2. PICK s \in Seq(PositionBy(t)), u \in Seq(Released) :
        /\ staked[a] = s /\ unstaking[a] = u /\ t \in 0..MaxTime /\ t \in Nat
        /\ Total(s) \in Nat /\ Total(u) \in Nat /\ OwedTo(a) = Total(s) + Total(u)
        /\ Len(s) <= MaxPositions /\ Len(s) \in Nat
  BY <1>1, ListsOf
<1>3. PICK x \in Seq(PositionBy(t)), y \in Seq(Released) :
        /\ x = Emptied(s) /\ y = Emptied(u) /\ Len(x) = Len(s)
        /\ Total(x) = 0 /\ Total(y) = 0 /\ Weight(x, PointsFor(t)) = 0
  BY <1>2, EmptiedPositions, EmptiedReleases
<1>4. PICK m \in Nat : m = Total(s) + Total(u)
  BY <1>2
<1>5. /\ ~noEmergencyMode /\ held >= m
      /\ staked' = [staked EXCEPT ![a] = x] /\ unstaking' = [unstaking EXCEPT ![a] = y]
      /\ wallet' = [wallet EXCEPT ![a] = @ + m] /\ held' = held - m
      /\ UNCHANGED <<roles, now>>
  BY <1>2, <1>3, <1>4 DEF EmergencyWithdraw
<1>6. held \in Nat /\ wallet \in [Account -> Nat]
  BY DEF IInv
<1>7. /\ IInv'
      /\ staked'[a] = x /\ unstaking'[a] = y
      /\ Points(a)' = Weight(x, PointsFor(t))
      /\ OwedTo(a)' = Total(x) + Total(y)
      /\ \A b \in Account \ {a} :
           /\ Points(b)' = Points(b) /\ OwedTo(b)' = OwedTo(b)
  <2>1. now = t /\ t \in 0..MaxTime /\ UNCHANGED <<roles, now>> /\ Len(x) <= MaxPositions
    BY <1>1, <1>2, <1>3, <1>5
  <2>2. wallet' \in [Account -> Nat] /\ held' \in Nat
    <3>1. wallet[a] + m \in Nat /\ held - m \in Nat
      BY <1>4, <1>5, <1>6
    <3> QED BY <1>5, <1>6, <3>1
  <2>3. held' + OwedTo(a) = held + Total(x) + Total(y)
    <3>1. OwedTo(a) = m /\ Total(x) = 0 /\ Total(y) = 0
      BY <1>2, <1>3, <1>4
    <3> QED BY <1>4, <1>5, <1>6, <3>1
  <2>4. staked' = [staked EXCEPT ![a] = x] /\ unstaking' = [unstaking EXCEPT ![a] = y]
    BY <1>5
  <2> QED BY <2>1, <2>2, <2>3, <2>4, Settled
<1>8. Points(a) = Weight(s, PointsFor(t))
  BY <1>1, <1>2, SumsAre
<1>9. ASSUME NEW b \in Account  PROVE FairTo(b)
  <2>1. wallet[b] \in Nat /\ OwedTo(b) \in Nat /\ Points(b) \in Nat
    BY OwnIsNat
  <2>2. CASE b # a
    <3>1. wallet'[b] = wallet[b]
      BY <1>5, <1>6, <2>2
    <3> QED BY <1>7, <2>2, <3>1, Untouched
  <2>3. CASE b = a
    <3>1. wallet'[b] = wallet[b] + m /\ OwedTo(b)' = 0 /\ OwedTo(b) = m
      BY <1>2, <1>3, <1>4, <1>5, <1>6, <1>7, <2>3
    <3>2. ~(wallet[b] + OwedTo(b) > wallet'[b] + OwedTo(b)')
      BY <1>4, <2>1, <3>1
    <3>3. Points(b)' = 0
      BY <1>3, <1>7, <2>3
    <3>4. ~(Points(b)' > Points(b))
      BY <2>1, <3>3
    <3>5. ASSUME Points(b)' < Points(b)  PROVE Total(staked'[b]) < Total(staked[b])
      <4>1. Total(s) # 0
        BY <1>2, <1>8, <2>1, <2>3, <3>3, <3>5, PointsNeedFly
      <4>2. Total(staked'[b]) = 0 /\ Total(staked[b]) = Total(s)
        BY <1>2, <1>3, <1>7, <2>3
      <4> QED BY <1>2, <4>1, <4>2
    <3> QED BY <1>5, <3>2, <3>4, <3>5 DEF FairTo
  <2> QED BY <2>2, <2>3
<1> QED BY <1>7, <1>9

\* A position that is given the bonus.
LEMMA Rewarded ==
  ASSUME NEW t \in Nat, NEW s \in Seq(PositionBy(t)), NEW j \in DOMAIN s, s[j].fly > 0
  PROVE  LET x == [s EXCEPT ![j] = [s[j] EXCEPT !.bonus = TRUE]] IN
         /\ x \in Seq(PositionBy(t)) /\ Len(x) = Len(s)
         /\ Weight(x, StakedFly(t)) = Weight(s, StakedFly(t))
         /\ Weight(s, PointsFor(t)) <= Weight(x, PointsFor(t))
         /\ Weight(x, PointsFor(t)) # Weight(s, PointsFor(t)) =>
              Weight(x, BonusFor(t)) > Weight(s, BonusFor(t))
<1> DEFINE p == s[j]
           e == [p EXCEPT !.bonus = TRUE]
<1>1. p \in PositionBy(t) /\ p \in [bonus : BOOLEAN, fly : Nat, at : 0..t]
  <2>1. p \in PositionBy(t)
    BY Listed
  <2> HIDE DEF p
  <2> QED BY <2>1 DEF PositionBy
<1>2. p.fly > 0
  OBVIOUS
<1> HIDE DEF p
<1>3. e \in PositionBy(t) /\ e.fly = p.fly /\ e.at = p.at /\ e.bonus = TRUE
  BY <1>1 DEF PositionBy
<1>4. p.fly \in Nat /\ p.at \in 0..t /\ p.bonus \in BOOLEAN
  BY <1>1
<1>5. [s EXCEPT ![j] = [s[j] EXCEPT !.bonus = TRUE]] = [s EXCEPT ![j] = e] /\ s[j] = p
  BY DEF p
<1>6. p.bonus = TRUE => e = p
  BY <1>1
<1> HIDE DEF e
<1> DEFINE x == [s EXCEPT ![j] = e]
<1>7. /\ x \in Seq(PositionBy(t)) /\ Len(x) = Len(s)
      /\ \A w \in [PositionBy(t) -> Nat] : Weight(x, w) = Weight(s, w) - w[s[j]] + w[e]
  BY <1>3, Replacing
<1>8. /\ StakedFly(t) \in [PositionBy(t) -> Nat] /\ BonusFor(t) \in [PositionBy(t) -> Nat]
      /\ PointsFor(t) \in [PositionBy(t) -> Nat]
  BY Weights
<1>9. /\ Weight(s, StakedFly(t)) \in Nat /\ Weight(s, BonusFor(t)) \in Nat
      /\ Weight(s, PointsFor(t)) \in Nat
  BY <1>8, WeightType
<1> HIDE DEF x
<1>10. Weight(x, StakedFly(t)) = Weight(s, StakedFly(t))
  <2>1. StakedFly(t)[p] = p.fly /\ StakedFly(t)[e] = p.fly
    BY <1>1, <1>3 DEF StakedFly
  <2>2. Weight(x, StakedFly(t)) = Weight(s, StakedFly(t)) - StakedFly(t)[p] + StakedFly(t)[e]
    BY <1>5, <1>7, <1>8
  <2> QED BY <1>4, <1>9, <2>1, <2>2
<1>11. /\ PointsFor(t)[p] \in Nat /\ PointsFor(t)[e] \in Nat
       /\ Weight(x, PointsFor(t)) = Weight(s, PointsFor(t)) - PointsFor(t)[p] + PointsFor(t)[e]
  BY <1>1, <1>3, <1>5, <1>7, <1>8
<1>12. PointsFor(t)[p] <= PointsFor(t)[e]
  <2>1. t - p.at <= t - e.at /\ p.fly <= e.fly
    BY <1>3, <1>4
  <2> QED BY <1>1, <1>3, <2>1, PointsMonotone
<1>13. Weight(s, PointsFor(t)) <= Weight(x, PointsFor(t))
  BY <1>9, <1>11, <1>12
<1>14. CASE p.bonus = TRUE
  <2>1. Weight(x, PointsFor(t)) = Weight(s, PointsFor(t))
    BY <1>6, <1>9, <1>11, <1>14
  <2> QED BY <1>5, <1>7, <1>10, <1>13, <2>1 DEF x
<1>15. CASE p.bonus = FALSE
  <2>1. BonusFor(t)[p] = 0 /\ BonusFor(t)[e] = p.fly
    BY <1>1, <1>3, <1>15 DEF BonusFor
  <2>2. Weight(x, BonusFor(t)) = Weight(s, BonusFor(t)) - BonusFor(t)[p] + BonusFor(t)[e]
    BY <1>5, <1>7, <1>8
  <2>3. Weight(x, BonusFor(t)) > Weight(s, BonusFor(t))
    BY <1>2, <1>4, <1>9, <2>1, <2>2
  <2> QED BY <1>5, <1>7, <1>10, <1>13, <2>3 DEF x
<1> QED BY <1>4, <1>14, <1>15

LEMMA ApplyDay1BonusStep ==
  ASSUME IInv, NEW a \in Account, NEW i \in DOMAIN staked[a], ApplyDay1Bonus(a, i)
  PROVE  IInv' /\ \A b \in Account : FairTo(b)
<1>1. PICK t : t = now
  OBVIOUS
<1>2. PICK s \in Seq(PositionBy(t)), u \in Seq(Released) :
        /\ staked[a] = s /\ unstaking[a] = u /\ t \in 0..MaxTime /\ t \in Nat
        /\ Total(s) \in Nat /\ Total(u) \in Nat /\ OwedTo(a) = Total(s) + Total(u)
        /\ Len(s) <= MaxPositions /\ Len(s) \in Nat
  BY <1>1, ListsOf
<1>3. PICK j \in DOMAIN s : j = i
  BY <1>2
<1> DEFINE e == [s[j] EXCEPT !.bonus = TRUE]
           x == [s EXCEPT ![j] = e]
<1>6. /\ s[j].fly > 0 /\ staked' = [staked EXCEPT ![a] = x]
      /\ wallet' = wallet /\ held' = held /\ unstaking' = unstaking /\ UNCHANGED <<roles, now>>
  BY <1>2, <1>3 DEF ApplyDay1Bonus
<1>7. /\ x \in Seq(PositionBy(t)) /\ Len(x) = Len(s)
      /\ Weight(x, StakedFly(t)) = Weight(s, StakedFly(t))
      /\ Weight(s, PointsFor(t)) <= Weight(x, PointsFor(t))
      /\ Weight(x, PointsFor(t)) # Weight(s, PointsFor(t)) =>
           Weight(x, BonusFor(t)) > Weight(s, BonusFor(t))
  BY <1>2, <1>3, <1>6, Rewarded, ZenonT(40)
<1> HIDE DEF e, x
<1>8. StakedFly(t) \in [PositionBy(t) -> Nat] /\ PointsFor(t) \in [PositionBy(t) -> Nat]
  BY <1>2, Weights
<1>9. Weight(s, PointsFor(t)) \in Nat /\ Weight(x, PointsFor(t)) \in Nat
  BY <1>7, <1>8, WeightType
<1>14. Total(x) = Total(s)
  BY <1>2, <1>7, StakedTotal
<1>15. /\ IInv'
       /\ staked'[a] = x /\ unstaking'[a] = u
       /\ Points(a)' = Weight(x, PointsFor(t)) /\ BonusFly(a)' = Weight(x, BonusFor(t))
       /\ OwedTo(a)' = Total(x) + Total(u)
       /\ \A b \in Account \ {a} :
            /\ Points(b)' = Points(b) /\ OwedTo(b)' = OwedTo(b)
  <2>1. now = t /\ t \in 0..MaxTime /\ UNCHANGED <<roles, now>> /\ Len(x) <= MaxPositions
    BY <1>1, <1>2, <1>6, <1>7
  <2>2. wallet' \in [Account -> Nat] /\ held' \in Nat
    BY <1>6 DEF IInv
  <2>3. held' + OwedTo(a) = held + Total(x) + Total(u)
    <3>1. held' = held /\ OwedTo(a) = Total(x) + Total(u) /\ held \in Nat
      BY <1>2, <1>6, <1>14 DEF IInv
    <3> QED BY <1>2, <1>14, <3>1
  <2>4. staked' = [staked EXCEPT ![a] = x] /\ unstaking' = [unstaking EXCEPT ![a] = u]
    BY <1>2, <1>6 DEF IInv
  <2>5. x \in Seq(PositionBy(t))
    BY <1>7
  <2> QED BY <2>1, <2>2, <2>3, <2>4, <2>5, Settled
<1>16. Points(a) = Weight(s, PointsFor(t)) /\ BonusFly(a) = Weight(s, BonusFor(t))
  BY <1>1, <1>2, SumsAre
<1>17. ASSUME NEW b \in Account  PROVE FairTo(b)
  <2>1. wallet[b] \in Nat /\ OwedTo(b) \in Nat /\ Points(b) \in Nat
    BY OwnIsNat
  <2>2. CASE b # a
    BY <1>6, <1>15, <2>2, Untouched
  <2>3. CASE b = a
    <3>1. ~(wallet'[b] > wallet[b])
      BY <1>6, <2>1
    <3>2. OwedTo(b)' = OwedTo(b)
      BY <1>2, <1>14, <1>15, <2>3
    <3>3. ~(wallet[b] + OwedTo(b) > wallet'[b] + OwedTo(b)')
      BY <1>6, <2>1, <3>2
    <3>4. ~(Points(b)' < Points(b))
      BY <1>7, <1>9, <1>15, <1>16, <2>3
    <3>5. ASSUME Points(b)' > Points(b)  PROVE BonusFly(b)' > BonusFly(b)
      <4>1. Weight(x, PointsFor(t)) # Weight(s, PointsFor(t))
        BY <1>9, <1>15, <1>16, <2>3, <3>5
      <4> QED BY <1>7, <1>15, <1>16, <2>3, <4>1
    <3> QED BY <3>1, <3>3, <3>4, <3>5 DEF FairTo
  <2> QED BY <2>2, <2>3
<1> QED BY <1>15, <1>17

\* The steps that leave every list and wallet alone.
LEMMA ListsStay ==
  ASSUME IInv, UNCHANGED <<lists, wallet, held>>
  PROVE  /\ \A a \in Account : OwedTo(a)' = OwedTo(a) /\ wallet'[a] = wallet[a]
         /\ HeldIsOwed'
<1>1. staked' = staked /\ unstaking' = unstaking /\ wallet' = wallet /\ held' = held
  BY DEF lists
<1>2. \A a \in Account : OwedTo(a)' = OwedTo(a)
  BY <1>1 DEF OwedTo
<1>3. [a \in Account |-> OwedTo(a)]' = [a \in Account |-> OwedTo(a)]
  BY <1>2
<1>4. HeldIsOwed'
  BY <1>1, <1>3 DEF HeldIsOwed, IInv
<1> QED BY <1>1, <1>2, <1>4

LEMMA RolesStep ==
  ASSUME IInv, UNCHANGED <<lists, wallet, held, now>>,
         noEmergencyMode' \in BOOLEAN, emergencies' \in 0..MaxEmergencies, distributor' \in Account
  PROVE  IInv' /\ \A b \in Account : FairTo(b)
<1>1. /\ staked' = staked /\ unstaking' = unstaking /\ wallet' = wallet /\ held' = held /\ now' = now
  BY DEF lists
<1>2. (\A a \in Account : OwedTo(a)' = OwedTo(a) /\ wallet'[a] = wallet[a]) /\ HeldIsOwed'
  BY ListsStay
<1>3. IInv'
  BY <1>1, <1>2 DEF IInv, PositionBy
<1>4. ASSUME NEW b \in Account  PROVE FairTo(b)
  <2>1. PICK t : t = now
    OBVIOUS
  <2>2. PICK s \in Seq(PositionBy(t)), u \in Seq(Released) :
          /\ staked[b] = s /\ unstaking[b] = u /\ t \in 0..MaxTime /\ t \in Nat
          /\ Total(s) \in Nat /\ Total(u) \in Nat /\ OwedTo(b) = Total(s) + Total(u)
          /\ Len(s) <= MaxPositions /\ Len(s) \in Nat
    BY <2>1, ListsOf
  <2>3. staked'[b] = s /\ unstaking'[b] = u /\ now' = t
    BY <1>1, <2>1, <2>2
  <2>4. Points(b)' = Weight(s, PointsFor(t)) /\ Points(b) = Weight(s, PointsFor(t))
    BY <2>1, <2>2, <2>3, SumsAre, SumsBecome
  <2> QED BY <1>2, <2>4, Untouched
<1> QED BY <1>3, <1>4

LEMMA TickStep ==
  ASSUME IInv, Tick
  PROVE  IInv' /\ \A b \in Account : FairTo(b)
<1>1. PICK t : t = now
  OBVIOUS
<1>2. t \in 0..MaxTime /\ t \in Nat /\ t + 1 \in 0..MaxTime /\ now' = t + 1
  BY <1>1, StakingAssumption DEF IInv, Tick
<1>3. /\ staked' = staked /\ unstaking' = unstaking /\ wallet' = wallet /\ held' = held
      /\ UNCHANGED roles
  BY DEF Tick, lists
<1>4. (\A a \in Account : OwedTo(a)' = OwedTo(a) /\ wallet'[a] = wallet[a]) /\ HeldIsOwed'
  BY <1>3, ListsStay DEF lists
<1>5. PositionBy(t) \subseteq PositionBy(t + 1)
  BY <1>2 DEF PositionBy
<1>6. IInv'
  <2>1. ASSUME NEW a \in Account  PROVE staked[a] \in Seq(PositionBy(t + 1))
    <3>1. staked[a] \in Seq(PositionBy(t))
      BY <1>1 DEF IInv
    <3> QED BY <1>5, <3>1, SeqMonotonic
  <2>2. staked \in [Account -> Seq(PositionBy(t + 1))]
    BY <2>1 DEF IInv
  <2>3. staked' \in [Account -> Seq(PositionBy(now))']
    BY <1>2, <1>3, <2>2 DEF PositionBy
  <2> QED BY <1>2, <1>3, <1>4, <2>3 DEF IInv, roles
<1>7. ASSUME NEW b \in Account  PROVE FairTo(b)
  <2>1. PICK s \in Seq(PositionBy(t)), u \in Seq(Released) :
          /\ staked[b] = s /\ unstaking[b] = u /\ t \in 0..MaxTime /\ t \in Nat
          /\ Total(s) \in Nat /\ Total(u) \in Nat /\ OwedTo(b) = Total(s) + Total(u)
          /\ Len(s) <= MaxPositions /\ Len(s) \in Nat
    BY <1>1, ListsOf
  <2>2. s \in Seq(PositionBy(t + 1)) /\ t + 1 \in Nat
    BY <1>2, <1>5, SeqMonotonic
  <2>3. Points(b) = Weight(s, PointsFor(t)) /\ Points(b)' = Weight(s, PointsFor(t + 1))
    <3>1. staked'[b] = s /\ unstaking'[b] = u
      BY <1>3, <2>1
    <3>2. Points(b) = Weight(s, PointsFor(t))
      BY <1>1, <2>1, SumsAre
    <3>3. Points(b)' = Weight(s, PointsFor(t + 1))
      BY <1>2, <2>2, <3>1, SumsBecome
    <3> QED BY <3>2, <3>3
  <2>4. Weight(s, PointsFor(t)) <= Weight(s, PointsFor(t + 1))
    <3>1. \A i \in DOMAIN s : PointsFor(t)[s[i]] <= PointsFor(t + 1)[s[i]]
      <4> SUFFICES ASSUME NEW i \in DOMAIN s  PROVE PointsFor(t)[s[i]] <= PointsFor(t + 1)[s[i]]
        OBVIOUS
      <4>1. PICK p \in PositionBy(t) : p = s[i]
        BY Listed
      <4>2. p \in PositionBy(t + 1) /\ p.fly \in Nat /\ p.at \in Nat
        BY <1>5, <4>1 DEF PositionBy
      <4>3. p.fly <= p.fly /\ t - p.at <= (t + 1) - p.at
        BY <1>2, <4>2
      <4>4. PointsFor(t)[p] <= PointsFor(t + 1)[p]
        BY <1>2, <2>2, <4>2, <4>3, PointsMonotone
      <4> QED BY <4>1, <4>4
    <3>2. /\ PointsFor(t) \in [PositionBy(t) -> Nat]
          /\ PointsFor(t + 1) \in [PositionBy(t + 1) -> Nat]
      BY <1>2, <2>2, Weights
    <3> QED BY <2>2, <3>1, <3>2, WeightMonotone
  <2>5. wallet[b] \in Nat /\ OwedTo(b) \in Nat /\ Points(b) \in Nat
    BY OwnIsNat
  <2>6. Weight(s, PointsFor(t + 1)) \in Nat
    <3>1. PointsFor(t + 1) \in [PositionBy(t + 1) -> Nat]
      BY <2>2, Weights
    <3> QED BY <2>2, <3>1, WeightType
  <2>7. ~(Points(b)' < Points(b))
    BY <2>3, <2>4, <2>5, <2>6
  <2>8. ~(wallet[b] + OwedTo(b) > wallet'[b] + OwedTo(b)') /\ ~(wallet'[b] > wallet[b])
    BY <1>4, <2>5
  <2>9. now' > now
    BY <1>1, <1>2
  <2> QED BY <2>7, <2>8, <2>9 DEF FairTo
<1> QED BY <1>6, <1>7

LEMMA StepIInv ==
  ASSUME IInv, Next
  PROVE  IInv' /\ \A b \in Account : FairTo(b)
<1>1. Staker \subseteq Account /\ Amount \subseteq Nat /\ Operator \in Account
  BY StakingAssumption
<1>2. ASSUME NEW a \in Staker, NEW n \in Amount, Stake(a, n)
      PROVE  IInv' /\ \A b \in Account : FairTo(b)
  <2>1. Deposit(a, a, n, FALSE) /\ FALSE \in BOOLEAN
    BY <1>2 DEF Stake
  <2> QED BY <1>1, <2>1, DepositStep
<1>3. ASSUME NEW a \in Staker, NEW n \in Amount, BeginUnstake(a, n)
      PROVE  IInv' /\ \A b \in Account : FairTo(b)
  BY <1>1, <1>3, BeginUnstakeStep
<1>4. ASSUME NEW a \in Account, NEW c \in Staker, NEW n \in Amount, StakeFor(a, c, n)
      PROVE  IInv' /\ \A b \in Account : FairTo(b)
  <2>1. Deposit(a, c, n, TRUE) /\ TRUE \in BOOLEAN /\ a \in {Operator, distributor}
    BY <1>4 DEF StakeFor
  <2> QED BY <1>1, <2>1, DepositStep
<1>5. ASSUME NEW a \in Staker, FinaliseUnstake(a) \/ EmergencyWithdraw(a)
      PROVE  IInv' /\ \A b \in Account : FairTo(b)
  BY <1>1, <1>5, FinaliseUnstakeStep, EmergencyWithdrawStep
<1>6. ASSUME NEW a \in Staker, NEW i \in DOMAIN staked[a], ApplyDay1Bonus(a, i)
      PROVE  IInv' /\ \A b \in Account : FairTo(b)
  BY <1>1, <1>6, ApplyDay1BonusStep
<1>7. ASSUME NEW a \in Account, UpdateMerkleDistributor(a)
      PROVE  IInv' /\ \A b \in Account : FairTo(b)
  BY <1>7, RolesStep DEF UpdateMerkleDistributor, IInv
<1>8. ASSUME EnableEmergencyMode
      PROVE  IInv' /\ \A b \in Account : FairTo(b)
  <2>1. emergencies' \in 0..MaxEmergencies
    BY <1>8, StakingAssumption DEF EnableEmergencyMode, IInv
  <2> QED BY <1>8, <2>1, RolesStep DEF EnableEmergencyMode, IInv
<1>9. ASSUME DisableEmergencyMode
      PROVE  IInv' /\ \A b \in Account : FairTo(b)
  BY <1>9, RolesStep DEF DisableEmergencyMode, IInv
<1>10. ASSUME Tick  PROVE IInv' /\ \A b \in Account : FairTo(b)
  BY <1>10, TickStep
<1> QED BY <1>2, <1>3, <1>4, <1>5, <1>6, <1>7, <1>8, <1>9, <1>10 DEF Next

LEMMA StutterIInv ==
  ASSUME IInv, UNCHANGED vars
  PROVE  IInv'
<1>1. UNCHANGED <<lists, wallet, held, now>>
  BY DEF vars
<1>2. noEmergencyMode' \in BOOLEAN /\ emergencies' \in 0..MaxEmergencies /\ distributor' \in Account
  BY DEF vars, roles, IInv
<1> QED BY <1>1, <1>2, RolesStep

-----------------------------------------------------------------------------
(* The theorems.                                                           *)

\* The invariant holds in every state: besides the balance of the contract,
\* that no list is longer than the contract allows and no position is younger
\* than the block (deposit, beginUnstake, finaliseUnstake, emergencyWithdraw).
THEOREM InvariantHolds == Spec => []IInv
<1>1. Init => IInv
  BY InitIInv
<1>2. IInv /\ [Next]_vars => IInv'
  BY StepIInv, StutterIInv
<1> QED BY <1>1, <1>2, PTL DEF Spec

\* The contract holds exactly the FLY that it owes to everyone, for any
\* accounts, amounts, periods and number of positions (stakingHelper,
\* beginUnstake, finaliseUnstake, emergencyWithdraw of StakingV1).
THEOREM SolventHolds == Spec => []Solvent
<1>1. IInv => Solvent
  BY IInvGivesSolvent
<1> QED BY <1>1, InvariantHolds, PTL

\* No step of StakingV1 takes from anyone what is not its own, pays out what
\* has not waited, moves other than what was asked for, or makes points of
\* moving positions about (the loops of beginUnstake and finaliseUnstake).
THEOREM StepsAreFair == Spec => StepsFair
<1>1. IInv /\ Next => KeepsOwn /\ PaidIfMatured /\ UnstakesWhatWasAsked /\ PointsFollowStakes
  <2> SUFFICES ASSUME IInv, Next
               PROVE  KeepsOwn /\ PaidIfMatured /\ UnstakesWhatWasAsked /\ PointsFollowStakes
    OBVIOUS
  <2>1. \A a \in Account : FairTo(a)
    BY StepIInv
  <2>2. KeepsOwn
    BY <2>1 DEF FairTo, KeepsOwn
  <2>3. PaidIfMatured
    BY <2>1 DEF FairTo, PaidIfMatured
  <2>4. PointsFollowStakes
    BY <2>1 DEF FairTo, PointsFollowStakes
  <2>5. UnstakesWhatWasAsked
    <3>1. ASSUME NEW a \in Staker, NEW n \in Amount, BeginUnstake(a, n)  PROVE AsAsked(a, n)
      BY <3>1, StakingAssumption, BeginUnstakeStep
    <3> QED BY <3>1 DEF AsAsked, UnstakesWhatWasAsked
  <2> QED BY <2>2, <2>3, <2>4, <2>5
<1>2. IInv /\ [Next]_vars =>
        [KeepsOwn /\ PaidIfMatured /\ UnstakesWhatWasAsked /\ PointsFollowStakes]_vars
  BY <1>1
<1> QED BY <1>2, InvariantHolds, PTL DEF Spec, StepsFair

-----------------------------------------------------------------------------
(* The staking modal: its types.                                           *)

Believes == [balance : Int, staked : Int, spent : Int]
ModalRun == [kind : Modal!Kind, n : Int, owner : Modal!Holder, signedBy : Modal!Holder,
             nonce : Nat, before : Believes, step : Modal!Step]
ModalTx == [kind : Modal!Kind, n : Int, owner : Modal!Holder, signedBy : Modal!Holder,
            from : User, nonce : Nat]
ModalState == [status : Modal!Status, staking : BOOLEAN, begin : BOOLEAN, typed : Int,
               balance : Int, staked : Int, unstaking : Nat, unstaked : BOOLEAN]
Screen == [stats : [balance : Int, staked : Int, claimable : BOOLEAN],
           details : [entered : Int, amount : Int], action : [enabled : BOOLEAN],
           steps : [connected : BOOLEAN, done : BOOLEAN]]
ModalLoad == [of : User, kind : {"balance", "details", "unstaking"}]

\* The second step is ticked off in a state that is done or in error.
Ticked(u) == u.status \in {"HasStaked", "InError"}

WalletOK == account \in Modal!Holder /\ signer \in BOOLEAN

ChainOK ==
  /\ fly \in [User -> Nat] /\ inContract \in [User -> Nat] /\ unbonding \in [User -> Nat]
  /\ matured \in [User -> Nat] /\ nonce \in [User -> Nat] /\ pool \in Seq(ModalTx)

\* What the portal has ticked off is what the state ticks off, and a state that
\* is done came of an interaction that returned.
UiOK ==
  /\ ui \in ModalState /\ shown \in Screen /\ done \in BOOLEAN
  /\ shown.steps.done <=> Ticked(ui)
  /\ ui.status = "HasStaked" => done

CallsOK ==
  /\ loads \subseteq ModalLoad
  /\ runs \in [0..MaxRuns -> ModalRun \cup {Modal!Idle}]

\* There is a first interaction as soon as the button was pressed; from then on
\* each begins with a render.
CountsOK ==
  /\ {renders, upsets, pressed} \subseteq Nat /\ renders + upsets <= MaxEvents
  /\ pressed <= renders /\ started \in 0..MaxRuns
  /\ ui.begin <=> started >= 1
  /\ ui.begin => started <= 1 + renders - pressed

ModalInv == WalletOK /\ ChainOK /\ UiOK /\ CallsOK /\ CountsOK

LEMMA ModalFacts ==
  /\ NoAccount \notin User /\ Selected \in User /\ Purse \in [User -> Nat]
  /\ Typed \subseteq Nat /\ MaxEvents \in Nat /\ MaxRuns \in Nat
BY FlyAssumption DEF Modal!ModalAssumption

LEMMA AmountsType ==
  ASSUME NEW u \in ModalState
  PROVE  Modal!StakeAmount(u) \in Int /\ Modal!UnstakeAmount(u) \in Int /\ Modal!Chosen(u) \in Int
BY DEF ModalState, Modal!StakeAmount, Modal!UnstakeAmount, Modal!Chosen, Modal!AtMost

LEMMA PortalType ==
  ASSUME NEW u \in ModalState
  PROVE  Modal!Portal(u) \in Screen /\ (Modal!Portal(u).steps.done <=> Ticked(u))
<1>1. Modal!StatsScreen(u) \in [balance : Int, staked : Int, claimable : BOOLEAN]
  BY DEF Modal!StatsScreen, Modal!Claimable, ModalState
<1>2. Modal!DetailsScreen(u) \in [entered : Int, amount : Int]
  BY AmountsType DEF Modal!DetailsScreen, ModalState
<1>3. Modal!ActionButton(u) \in [enabled : BOOLEAN]
  BY DEF Modal!ActionButton
<1>4. /\ Modal!Steps(u) \in [connected : BOOLEAN, done : BOOLEAN]
      /\ Modal!Steps(u).done <=> Ticked(u)
  <2> DEFINE c == u.status \in {"IsConnected", "HasStaked", "InError"}
             d == u.status \in {"HasStaked", "InError"}
  <2>1. c \in BOOLEAN /\ d \in BOOLEAN /\ (d <=> Ticked(u))
    BY DEF Ticked
  <2>2. Modal!Steps(u) = [connected |-> c, done |-> d]
    BY DEF Modal!Steps
  <2> HIDE DEF c, d
  <2> QED BY <2>1, <2>2
<1> QED BY <1>1, <1>2, <1>3, <1>4 DEF Modal!Portal, Screen

\* A state of the modal that differs from u in its status and in what is not
\* counted: no press is lost.
Follows(v, u) == v \in ModalState /\ v.begin = u.begin

LEMMA WithStatus ==
  ASSUME NEW u \in ModalState, NEW s \in Modal!Status
  PROVE  Follows([u EXCEPT !.status = s], u) /\ [u EXCEPT !.status = s].status = s
BY DEF ModalState, Follows

LEMMA ConnectedType ==
  ASSUME NEW u \in ModalState, NEW a
  PROVE  /\ Follows(Modal!Connected(u, a), u)
         /\ Ticked(Modal!Connected(u, a)) <=> Ticked(u)
         /\ Modal!Connected(u, a).status = "HasStaked" => u.status = "HasStaked"
BY DEF ModalState, Follows, Modal!Connected, Modal!Status, Ticked

LEMMA BelievedType ==
  ASSUME NEW u \in ModalState, NEW r \in ModalRun
  PROVE  Follows(Modal!Believed(r, u), u)
<1> DEFINE s == IF u.staking THEN r.before.staked + r.before.spent
                ELSE r.before.staked - r.before.spent
           b == r.before.balance - r.before.spent
<1>1. s \in Int /\ b \in Int /\ TRUE \in BOOLEAN /\ "HasStaked" \in Modal!Status
  BY DEF ModalRun, Believes, Modal!Status
<1>2. Modal!Believed(r, u) = IF r.kind = "finalise" THEN [u EXCEPT !.unstaked = TRUE]
        ELSE [u EXCEPT !.status = "HasStaked", !.staked = s, !.balance = b]
  BY DEF Modal!Believed
<1> HIDE DEF s, b
<1> QED BY <1>1, <1>2 DEF ModalState, Follows

LEMMA AnsweredType ==
  ASSUME NEW u \in ModalState, NEW load \in ModalLoad, ChainOK
  PROVE  /\ Follows(Modal!Answered(load, u), u)
         /\ Modal!Answered(load, u).status = u.status
<1>1. /\ load.of \in User /\ load.kind \in {"balance", "details", "unstaking"}
      /\ fly[load.of] \in Int /\ inContract[load.of] \in Int
      /\ Modal!AmountUnstaking(load.of) \in Nat
  BY DEF ModalLoad, ChainOK, Modal!AmountUnstaking
<1> QED BY <1>1 DEF ModalState, Follows, Modal!Answered

LEMMA RunType ==
  ASSUME NEW u \in ModalState, NEW k \in Modal!Kind, NEW n \in Int, NEW a \in Modal!Holder,
         NEW s \in BOOLEAN, ChainOK
  PROVE  Modal!Run(k, n, a, s, u) \in ModalRun
<1>1. (IF a = NoAccount THEN 0 ELSE nonce[a]) \in Nat
  BY DEF ChainOK, Modal!Holder
<1>2. (CASE ~s -> "unsigned" [] s /\ k = "stake" -> "sign" [] OTHER -> "send") \in Modal!Step
  BY DEF Modal!Step
<1>3. [balance |-> u.balance, staked |-> u.staked, spent |-> Modal!StakeAmount(u)] \in Believes
  BY AmountsType DEF Believes, ModalState
<1>4. NoAccount \in Modal!Holder
  BY DEF Modal!Holder
<1> QED BY <1>1, <1>2, <1>3, <1>4 DEF Modal!Run, ModalRun

LEMMA InteractionType ==
  ASSUME NEW u \in ModalState, NEW a \in Modal!Holder, NEW s \in BOOLEAN, ChainOK
  PROVE  Modal!Interaction(a, s, u) \in ModalRun
<1>1. (IF u.staking THEN "stake" ELSE "unstake") \in Modal!Kind
  BY DEF Modal!Kind
<1> QED BY <1>1, AmountsType, RunType DEF Modal!Interaction

-----------------------------------------------------------------------------
(* The staking modal: its steps.                                           *)

LEMMA TurnStep ==
  ASSUME UiOK, NEW u \in ModalState, Modal!Turn(u), done' \in BOOLEAN,
         u.status = "HasStaked" => done'
  PROVE  UiOK'
<1>1. ui' = u /\ shown' = (IF u.status = ui.status THEN shown ELSE Modal!Portal(u))
  BY DEF Modal!Turn
<1>2. Modal!Portal(u) \in Screen /\ (Modal!Portal(u).steps.done <=> Ticked(u))
  BY PortalType
<1>3. u.status = ui.status => (shown.steps.done <=> Ticked(u))
  BY DEF UiOK, Ticked
<1>4. shown' \in Screen /\ (shown'.steps.done <=> Ticked(u))
  BY <1>1, <1>2, <1>3 DEF UiOK
<1> QED BY <1>1, <1>4 DEF UiOK, Ticked

LEMMA DrawStep ==
  ASSUME NEW u \in ModalState, Modal!Draw(u), done' \in BOOLEAN, u.status = "HasStaked" => done'
  PROVE  UiOK'
<1>1. ui' = u /\ shown' = Modal!Portal(u)
  BY DEF Modal!Draw
<1>2. Modal!Portal(u) \in Screen /\ (Modal!Portal(u).steps.done <=> Ticked(u))
  BY PortalType
<1> QED BY <1>1, <1>2 DEF UiOK, Ticked

\* The count after a step that begins nothing.
LEMMA CountsRest ==
  ASSUME CountsOK, ui'.begin = ui.begin, started' = started, pressed' = pressed,
         renders' = renders, upsets' \in Nat, renders + upsets' <= MaxEvents
  PROVE  CountsOK'
BY ModalFacts DEF CountsOK

LEMMA BeginStep ==
  ASSUME ModalInv, NEW r \in ModalRun, Modal!Begin(r), ui'.begin, upsets' = upsets,
         renders' = renders \/ (ui.begin /\ renders' = renders + 1 /\ renders' + upsets <= MaxEvents),
         renders' = renders => started = 0
  PROVE  CountsOK' /\ runs' \in [0..MaxRuns -> ModalRun \cup {Modal!Idle}] /\ done' = done
<1>1. /\ started < MaxRuns /\ started' = started + 1 /\ done' = done
      /\ pressed' = (IF started = 0 THEN renders ELSE pressed)
      /\ runs' = [runs EXCEPT ![started + 1] = r]
  BY DEF Modal!Begin
<1>2. runs' \in [0..MaxRuns -> ModalRun \cup {Modal!Idle}]
  BY <1>1 DEF ModalInv, CallsOK
<1>3. CountsOK'
  BY <1>1, ModalFacts DEF ModalInv, CountsOK
<1> QED BY <1>1, <1>2, <1>3

LEMMA LoadsType ==
  ASSUME NEW a \in Modal!Holder, NEW s
  PROVE  Modal!Loads(a, s) \subseteq ModalLoad
BY DEF Modal!Loads, Modal!Holder, ModalLoad

LEMMA FacadeStep ==
  ASSUME ModalInv, NEW a \in Modal!Holder, NEW s \in BOOLEAN, Modal!Facade(a, s)
  PROVE  ModalInv'
<1> DEFINE u == Modal!Connected(ui, a)
<1>1. /\ renders + upsets < MaxEvents /\ account' = a /\ signer' = s /\ renders' = renders + 1
      /\ loads' = loads \cup Modal!Loads(a, s) /\ ui' = u
      /\ shown' = (IF u = ui THEN shown ELSE Modal!Portal(u))
      /\ IF ui.begin THEN Modal!Begin(Modal!Interaction(a, s, ui))
                     ELSE UNCHANGED <<runs, started, done, pressed>>
      /\ UNCHANGED <<fly, inContract, unbonding, matured, nonce, pool, upsets>>
  BY DEF Modal!Facade, Modal!history, Modal!chain
<1>2. Follows(u, ui) /\ (Ticked(u) <=> Ticked(ui)) /\ (u.status = "HasStaked" => ui.status = "HasStaked")
  BY ConnectedType DEF ModalInv, UiOK
<1>3. Modal!Portal(u) \in Screen /\ (Modal!Portal(u).steps.done <=> Ticked(u))
  BY <1>2, PortalType DEF Follows
<1>4. loads' \subseteq ModalLoad
  BY <1>1, LoadsType DEF ModalInv, CallsOK
<1> HIDE DEF u
<1>5. /\ done' = done /\ runs' \in [0..MaxRuns -> ModalRun \cup {Modal!Idle}] /\ CountsOK'
  <2>1. ui'.begin = ui.begin
    BY <1>1, <1>2 DEF Follows
  <2>2. CASE ui.begin
    <3>1. Modal!Interaction(a, s, ui) \in ModalRun
      BY InteractionType DEF ModalInv, UiOK
    <3>2. renders' = renders + 1 /\ renders' + upsets <= MaxEvents /\ renders' # renders
      BY <1>1, ModalFacts DEF ModalInv, CountsOK
    <3> QED BY <1>1, <2>1, <2>2, <3>1, <3>2, BeginStep
  <2>3. CASE ~ui.begin
    <3>1. CountsOK'
      BY <1>1, <2>1, <2>3, ModalFacts DEF ModalInv, CountsOK
    <3> QED BY <1>1, <2>3, <3>1 DEF ModalInv, CallsOK
  <2> QED BY <2>2, <2>3 DEF ModalInv, UiOK, ModalState
<1>6. UiOK'
  BY <1>1, <1>2, <1>3, <1>5 DEF ModalInv, UiOK, Follows, Ticked
<1>7. WalletOK' /\ ChainOK'
  BY <1>1 DEF ModalInv, WalletOK, ChainOK
<1> QED BY <1>4, <1>5, <1>6, <1>7 DEF ModalInv, CallsOK

LEMMA WalletStepKeeps ==
  ASSUME ModalInv, Modal!WalletStep
  PROVE  ModalInv'
<1>1. \E a \in Modal!Holder, s \in BOOLEAN : Modal!Facade(a, s)
  <2>1. User \subseteq Modal!Holder /\ Selected \in Modal!Holder /\ NoAccount \in Modal!Holder
        /\ account \in Modal!Holder
    BY ModalFacts DEF Modal!Holder, ModalInv, WalletOK
  <2> QED BY <2>1 DEF Modal!WalletStep, Modal!SwitchAccount, Modal!Connect, Modal!Disconnect,
               Modal!Activating, Modal!Activated, Modal!Rerender
<1> QED BY <1>1, FacadeStep

\* The steps of the user: they draw another state, or begin the interaction.
LEMMA DrawKeeps ==
  ASSUME ModalInv, NEW u, Follows(u, ui), Modal!Draw(u), u.status # "HasStaked",
         UNCHANGED <<Modal!wallet, Modal!chain, loads, runs, Modal!history, upsets>>
  PROVE  ModalInv'
<1>1. UNCHANGED <<account, signer, renders, fly, inContract, unbonding, matured, nonce, pool,
                  loads, runs, started, done, pressed, upsets>>
  BY DEF Modal!wallet, Modal!chain, Modal!history
<1>2. UiOK'
  BY <1>1, DrawStep DEF ModalInv, UiOK, Follows
<1>3. ui'.begin = ui.begin
  BY DEF Modal!Draw, Follows
<1>4. CountsOK'
  BY <1>1, <1>3, CountsRest DEF ModalInv, CountsOK
<1>5. WalletOK' /\ ChainOK' /\ CallsOK'
  BY <1>1 DEF ModalInv, WalletOK, ChainOK, CallsOK
<1> QED BY <1>2, <1>4, <1>5 DEF ModalInv

LEMMA FormKeeps ==
  ASSUME ModalInv,
         \/ Modal!Close \/ Modal!TypeMax \/ Modal!Enter
         \/ \E n \in Typed : Modal!Type(n)
         \/ \E staking \in BOOLEAN : Modal!Choose(staking)
  PROVE  ModalInv'
<1>0. ui \in ModalState /\ shown \in Screen
  BY DEF ModalInv, UiOK
<1>1. CASE Modal!Close
  <2>1. Modal!Draw([ui EXCEPT !.status = "Stats"]) /\ "Stats" \in Modal!Status
    BY <1>1 DEF Modal!Close, Modal!Status
  <2> QED BY <1>0, <1>1, <2>1, WithStatus, DrawKeeps DEF Modal!Close
<1>2. ASSUME NEW n \in Int, Modal!Type(n)  PROVE ModalInv'
  <2>1. /\ Follows([ui EXCEPT !.typed = n], ui) /\ [ui EXCEPT !.typed = n].status = ui.status
    BY <1>0 DEF Follows, ModalState
  <2>2. ui.status = "StakingDetails" /\ Modal!Draw([ui EXCEPT !.typed = n])
    BY <1>2 DEF Modal!Type
  <2> QED BY <1>2, <2>1, <2>2, DrawKeeps DEF Modal!Type
<1>3. CASE Modal!TypeMax
  <2>1. (IF ui.staking THEN shown.stats.balance ELSE shown.stats.staked) \in Int
    BY <1>0 DEF Screen
  <2> QED BY <1>2, <1>3, <2>1 DEF Modal!TypeMax
<1>4. ASSUME NEW staking \in BOOLEAN, Modal!Choose(staking)  PROVE ModalInv'
  <2> DEFINE u == [ui EXCEPT !.staking = staking, !.status = "StakingDetails"]
  <2>1. Follows(u, ui) /\ u.status = "StakingDetails"
    BY <1>0 DEF Follows, ModalState, Modal!Status
  <2>2. Modal!Draw(u)
    BY <1>4 DEF Modal!Choose
  <2> HIDE DEF u
  <2> QED BY <1>4, <2>1, <2>2, DrawKeeps DEF Modal!Choose
<1>5. CASE Modal!Enter
  <2> DEFINE v == [ui EXCEPT !.status = "AmountEntered"]
             u == Modal!Connected(v, account)
  <2>1. Follows(v, ui) /\ v.status = "AmountEntered"
    BY <1>0, WithStatus DEF Modal!Status
  <2>2. Modal!Draw(u)
    BY <1>5 DEF Modal!Enter
  <2> HIDE DEF v
  <2>3. Follows(u, v) /\ u.status # "HasStaked"
    BY <2>1, ConnectedType DEF Follows
  <2> HIDE DEF u
  <2>4. Follows(u, ui)
    BY <2>1, <2>3 DEF Follows
  <2> QED BY <1>5, <2>2, <2>3, <2>4, DrawKeeps DEF Modal!Enter
<1>6. ASSUME NEW n \in Typed, Modal!Type(n)  PROVE ModalInv'
  BY <1>2, <1>6, ModalFacts
<1> QED BY <1>1, <1>3, <1>4, <1>5, <1>6

LEMMA PressKeeps ==
  ASSUME ModalInv, Modal!Press
  PROVE  ModalInv'
<1>1. /\ ui' = [ui EXCEPT !.begin = TRUE] /\ shown' = shown
      /\ IF ui.begin THEN UNCHANGED <<runs, started, done, pressed>>
                     ELSE Modal!Begin(Modal!Interaction(account, signer, ui))
      /\ UNCHANGED <<account, signer, renders, fly, inContract, unbonding, matured, nonce, pool,
                     loads, upsets>>
  BY DEF Modal!Press, Modal!wallet, Modal!chain, Modal!history
<1>2. ui' \in ModalState /\ ui'.begin /\ ui'.status = ui.status
  BY <1>1 DEF ModalInv, UiOK, ModalState
<1>3. done' = done /\ runs' \in [0..MaxRuns -> ModalRun \cup {Modal!Idle}] /\ CountsOK'
  <2>1. CASE ui.begin
    <3>1. CountsOK'
      BY <1>1, <1>2, <2>1 DEF ModalInv, CountsOK
    <3> QED BY <1>1, <2>1, <3>1 DEF ModalInv, CallsOK
  <2>2. CASE ~ui.begin
    <3>1. Modal!Interaction(account, signer, ui) \in ModalRun
      BY InteractionType DEF ModalInv, UiOK, WalletOK
    <3>2. started = 0
      BY <2>2, ModalFacts DEF ModalInv, CountsOK
    <3> QED BY <1>1, <1>2, <2>2, <3>1, <3>2, BeginStep
  <2> QED BY <2>1, <2>2
<1>4. UiOK'
  BY <1>1, <1>2, <1>3 DEF ModalInv, UiOK, Ticked
<1>5. WalletOK' /\ ChainOK' /\ CallsOK'
  BY <1>1, <1>3 DEF ModalInv, WalletOK, ChainOK, CallsOK
<1> QED BY <1>3, <1>4, <1>5 DEF ModalInv

\* The interaction of the first screen is a run of its own, and counts for nothing.
LEMMA ClaimKeeps ==
  ASSUME ModalInv, Modal!Claim
  PROVE  ModalInv'
<1> DEFINE r == Modal!Run("finalise", matured[account], account, TRUE, ui)
<1>1. /\ runs' = [runs EXCEPT ![0] = r]
      /\ account \in User
      /\ UNCHANGED <<account, signer, renders, fly, inContract, unbonding, matured, nonce, pool,
                     ui, shown, loads, started, done, pressed, upsets>>
  BY DEF Modal!Claim, Modal!Finalisable, Modal!Holder, Modal!wallet, Modal!chain, Modal!modal,
         Modal!history, ModalInv, WalletOK
<1>2. r \in ModalRun
  <2>1. "finalise" \in Modal!Kind /\ matured[account] \in Int /\ account \in Modal!Holder
    BY <1>1 DEF Modal!Kind, ModalInv, ChainOK, Modal!Holder
  <2> QED BY <2>1, RunType DEF ModalInv, UiOK
<1> HIDE DEF r
<1>3. CallsOK'
  BY <1>1, <1>2 DEF ModalInv, CallsOK
<1>4. WalletOK' /\ ChainOK' /\ UiOK'
  BY <1>1 DEF ModalInv, WalletOK, ChainOK, UiOK, Ticked
<1>5. CountsOK'
  BY <1>1 DEF ModalInv, CountsOK
<1> QED BY <1>3, <1>4, <1>5 DEF ModalInv

LEMMA ReloadKeeps ==
  ASSUME ModalInv, Modal!Reload
  PROVE  ModalInv'
<1>1. /\ loads' \subseteq loads \cup Modal!Loads(account, signer)
      /\ renders + upsets < MaxEvents /\ upsets' = upsets + 1
      /\ UNCHANGED <<account, signer, renders, fly, inContract, unbonding, matured, nonce, pool,
                     ui, shown, runs, started, done, pressed>>
  BY DEF Modal!Reload, Modal!wallet, Modal!chain, Modal!modal, Modal!history
<1>2. CallsOK'
  BY <1>1, LoadsType DEF ModalInv, CallsOK, WalletOK
<1>3. CountsOK'
  <2>1. upsets' \in Nat /\ renders + upsets' <= MaxEvents
    BY <1>1, ModalFacts DEF ModalInv, CountsOK
  <2> QED BY <1>1, <2>1, CountsRest DEF ModalInv
<1>4. WalletOK' /\ ChainOK' /\ UiOK'
  BY <1>1 DEF ModalInv, WalletOK, ChainOK, UiOK, Ticked
<1> QED BY <1>2, <1>3, <1>4 DEF ModalInv

LEMMA AnswerKeeps ==
  ASSUME ModalInv, NEW load \in loads, Modal!Answer(load)
  PROVE  ModalInv'
<1> DEFINE u == Modal!Answered(load, ui)
<1>1. /\ ui' = u /\ shown' = (IF load.kind = "balance" THEN shown ELSE Modal!Portal(u))
      /\ loads' = loads \ {load}
      /\ UNCHANGED <<account, signer, renders, fly, inContract, unbonding, matured, nonce, pool,
                     runs, started, done, pressed, upsets>>
  BY DEF Modal!Answer, Modal!wallet, Modal!chain, Modal!history
<1>2. Follows(u, ui) /\ u.status = ui.status
  BY AnsweredType DEF ModalInv, UiOK, CallsOK
<1>3. Modal!Portal(u) \in Screen /\ (Modal!Portal(u).steps.done <=> Ticked(u))
  BY <1>2, PortalType DEF Follows
<1> HIDE DEF u
<1>4. UiOK'
  BY <1>1, <1>2, <1>3 DEF ModalInv, UiOK, Follows, Ticked
<1>5. CountsOK'
  BY <1>1, <1>2, CountsRest DEF ModalInv, CountsOK, Follows
<1>6. WalletOK' /\ ChainOK' /\ CallsOK'
  BY <1>1 DEF ModalInv, WalletOK, ChainOK, CallsOK
<1> QED BY <1>4, <1>5, <1>6 DEF ModalInv

LEMMA LoadFailsKeeps ==
  ASSUME ModalInv, NEW load \in loads, Modal!LoadFails(load)
  PROVE  ModalInv'
<1> DEFINE u == [ui EXCEPT !.status = "InError"]
<1>1. /\ Modal!Turn(u) /\ loads' = loads \ {load}
      /\ renders + upsets < MaxEvents /\ upsets' = upsets + 1
      /\ UNCHANGED <<account, signer, renders, fly, inContract, unbonding, matured, nonce, pool,
                     runs, started, done, pressed>>
  BY DEF Modal!LoadFails, Modal!wallet, Modal!chain, Modal!history
<1>2. Follows(u, ui) /\ u.status = "InError"
  BY WithStatus DEF ModalInv, UiOK, Modal!Status
<1> HIDE DEF u
<1>3. UiOK'
  BY <1>1, <1>2, TurnStep DEF ModalInv, UiOK, Follows
<1>4. CountsOK'
  <2>1. upsets' \in Nat /\ renders + upsets' <= MaxEvents
    BY <1>1, ModalFacts DEF ModalInv, CountsOK
  <2> QED BY <1>1, <1>2, <2>1, CountsRest DEF ModalInv, Follows, Modal!Turn
<1>5. WalletOK' /\ ChainOK' /\ CallsOK'
  BY <1>1 DEF ModalInv, WalletOK, ChainOK, CallsOK
<1> QED BY <1>3, <1>4, <1>5 DEF ModalInv

\* The steps of a run: it goes on, or it ends and the modal turns.
LEMMA TurnKeeps ==
  ASSUME ModalInv, NEW u, Follows(u, ui), Modal!Turn(u),
         UNCHANGED <<account, signer, renders, loads, upsets, started, pressed>>, ChainOK',
         runs' \in [0..MaxRuns -> ModalRun \cup {Modal!Idle}], done' \in BOOLEAN,
         u.status = "HasStaked" => done'
  PROVE  ModalInv'
<1>1. UiOK'
  BY TurnStep DEF ModalInv, UiOK, Follows
<1>2. CountsOK'
  BY CountsRest DEF ModalInv, CountsOK, Follows, Modal!Turn
<1> QED BY <1>1, <1>2 DEF ModalInv, WalletOK, CallsOK

LEMMA EndedStep ==
  ASSUME ModalInv, NEW i \in 0..MaxRuns, NEW how, Modal!Ended(i, how)
  PROVE  /\ runs' \in [0..MaxRuns -> ModalRun \cup {Modal!Idle}]
         /\ done' = (done \/ how # "refused") /\ done' \in BOOLEAN
         /\ UNCHANGED <<started, pressed>>
BY DEF Modal!Ended, ModalInv, CallsOK

LEMMA Stepping ==
  ASSUME ModalInv, NEW i \in 0..MaxRuns, runs[i].step \in Modal!Step
  PROVE  runs[i] \in ModalRun
BY DEF ModalInv, CallsOK, Modal!Idle, Modal!Step

LEMMA SignKeeps ==
  ASSUME ModalInv, NEW i \in 0..MaxRuns, Modal!Sign(i)
  PROVE  ModalInv'
<1> DEFINE r == [runs[i] EXCEPT !.step = "send", !.signedBy = account]
<1>1. /\ runs' = [runs EXCEPT ![i] = r] /\ runs[i].step = "sign"
      /\ UNCHANGED <<account, signer, renders, fly, inContract, unbonding, matured, nonce, pool,
                     ui, shown, loads, started, done, pressed, upsets>>
  BY DEF Modal!Sign, Modal!Stepped, Modal!wallet, Modal!chain, Modal!modal, Modal!history
<1>2. runs[i] \in ModalRun /\ account \in Modal!Holder /\ "send" \in Modal!Step
  BY <1>1, Stepping DEF Modal!Step, ModalInv, WalletOK
<1>3. r \in ModalRun
  BY <1>2 DEF ModalRun
<1> HIDE DEF r
<1>4. CallsOK'
  BY <1>1, <1>3 DEF ModalInv, CallsOK
<1>5. WalletOK' /\ ChainOK' /\ UiOK'
  BY <1>1 DEF ModalInv, WalletOK, ChainOK, UiOK, Ticked
<1>6. CountsOK'
  BY <1>1 DEF ModalInv, CountsOK
<1> QED BY <1>4, <1>5, <1>6 DEF ModalInv

LEMMA SendKeeps ==
  ASSUME ModalInv, NEW i \in 0..MaxRuns, Modal!Send(i)
  PROVE  ModalInv'
<1> DEFINE r == runs[i]
           tx == [kind |-> r.kind, n |-> r.n, owner |-> r.owner, signedBy |-> r.signedBy,
                  from |-> account, nonce |-> r.nonce]
<1>1. /\ r.step = "send" /\ account # NoAccount /\ pool' = Append(pool, tx)
      /\ Modal!Turn(Modal!Believed(r, ui)) /\ Modal!Ended(i, "sent")
      /\ UNCHANGED <<account, signer, renders, fly, inContract, unbonding, matured, nonce,
                     loads, upsets>>
  BY DEF Modal!Send, Modal!wallet
<1>2. r \in ModalRun /\ account \in User
  BY <1>1, Stepping DEF Modal!Step, ModalInv, WalletOK, Modal!Holder
<1>3. tx \in ModalTx
  BY <1>2 DEF ModalRun, ModalTx
<1>4. Follows(Modal!Believed(r, ui), ui)
  BY <1>2, BelievedType DEF ModalInv, UiOK
<1> HIDE DEF tx, r
<1>5. ChainOK'
  BY <1>1, <1>3, AppendProperties DEF ModalInv, ChainOK
<1>6. runs' \in [0..MaxRuns -> ModalRun \cup {Modal!Idle}] /\ done' /\ done' \in BOOLEAN
      /\ UNCHANGED <<started, pressed>>
  BY <1>1, EndedStep
<1> QED BY <1>1, <1>4, <1>5, <1>6, TurnKeeps

LEMMA ReturnKeeps ==
  ASSUME ModalInv, NEW i \in 0..MaxRuns, Modal!Return(i)
  PROVE  ModalInv'
<1>1. /\ runs[i].step = "unsigned"
      /\ Modal!Turn(Modal!Believed(runs[i], ui)) /\ Modal!Ended(i, "unsent")
      /\ UNCHANGED <<account, signer, renders, fly, inContract, unbonding, matured, nonce, pool,
                     loads, upsets>>
  BY DEF Modal!Return, Modal!wallet, Modal!chain
<1>2. runs[i] \in ModalRun
  BY <1>1, Stepping DEF Modal!Step
<1>3. Follows(Modal!Believed(runs[i], ui), ui)
  BY <1>2, BelievedType DEF ModalInv, UiOK
<1>4. ChainOK'
  BY <1>1 DEF ModalInv, ChainOK
<1>5. runs' \in [0..MaxRuns -> ModalRun \cup {Modal!Idle}] /\ done' /\ done' \in BOOLEAN
      /\ UNCHANGED <<started, pressed>>
  BY <1>1, EndedStep
<1> QED BY <1>1, <1>3, <1>4, <1>5, TurnKeeps

LEMMA RefuseKeeps ==
  ASSUME ModalInv, NEW i \in 0..MaxRuns, Modal!Refuse(i)
  PROVE  ModalInv'
<1> DEFINE u == IF runs[i].kind = "finalise" THEN ui ELSE [ui EXCEPT !.status = "InError"]
<1>1. /\ Modal!Turn(u) /\ Modal!Ended(i, "refused")
      /\ UNCHANGED <<account, signer, renders, fly, inContract, unbonding, matured, nonce, pool,
                     loads, upsets>>
  BY DEF Modal!Refuse, Modal!wallet, Modal!chain
<1>2. Follows(u, ui) /\ (u.status = "HasStaked" => ui.status = "HasStaked")
  <2>1. Follows([ui EXCEPT !.status = "InError"], ui) /\ [ui EXCEPT !.status = "InError"].status = "InError"
        /\ Follows(ui, ui)
    BY WithStatus DEF ModalInv, UiOK, Modal!Status, Follows
  <2> QED BY <2>1
<1>3. ChainOK'
  BY <1>1 DEF ModalInv, ChainOK
<1>4. runs' \in [0..MaxRuns -> ModalRun \cup {Modal!Idle}] /\ (done => done') /\ done' \in BOOLEAN
      /\ UNCHANGED <<started, pressed>>
  BY <1>1, EndedStep
<1> HIDE DEF u
<1>5. u.status = "HasStaked" => done'
  BY <1>2, <1>4 DEF ModalInv, UiOK
<1> QED BY <1>1, <1>2, <1>3, <1>4, <1>5, TurnKeeps

\* The chain takes a transaction, or time passes on it: the modal is as it was.
LEMMA ChainKeeps ==
  ASSUME ModalInv, ChainOK',
         UNCHANGED <<account, signer, renders, ui, shown, loads, runs, started, done, pressed, upsets>>
  PROVE  ModalInv'
BY DEF ModalInv, WalletOK, UiOK, Ticked, CallsOK, CountsOK

LEMMA MineKeeps ==
  ASSUME ModalInv, Modal!Mine
  PROVE  ModalInv'
<1> DEFINE tx == Head(pool)
           who == tx.from
<1>1. /\ pool # <<>> /\ pool' = Tail(pool)
      /\ UNCHANGED <<account, signer, renders, ui, shown, loads, runs, started, done, pressed, upsets>>
  BY DEF Modal!Mine, Modal!wallet, Modal!modal, Modal!history
<1>2. tx \in ModalTx /\ pool' \in Seq(ModalTx)
  BY <1>1, HeadTailProperties DEF ModalInv, ChainOK
<1>3. who \in User
  BY <1>2 DEF ModalTx
<1>4. \/ /\ tx.n \in 1..fly[who]
         /\ fly' = [fly EXCEPT ![who] = @ - tx.n] /\ inContract' = [inContract EXCEPT ![who] = @ + tx.n]
         /\ nonce' = [nonce EXCEPT ![who] = @ + 1] /\ UNCHANGED <<unbonding, matured>>
      \/ /\ tx.n \in 1..inContract[who]
         /\ inContract' = [inContract EXCEPT ![who] = @ - tx.n]
         /\ unbonding' = [unbonding EXCEPT ![who] = @ + tx.n] /\ UNCHANGED <<fly, matured, nonce>>
      \/ /\ fly' = [fly EXCEPT ![who] = @ + matured[who]]
         /\ matured' = [matured EXCEPT ![who] = 0] /\ UNCHANGED <<inContract, unbonding, nonce>>
      \/ UNCHANGED <<fly, inContract, unbonding, matured, nonce>>
  BY DEF Modal!Mine, Modal!Permitted
<1> HIDE DEF tx, who
<1>5. /\ fly' \in [User -> Nat] /\ inContract' \in [User -> Nat] /\ unbonding' \in [User -> Nat]
      /\ matured' \in [User -> Nat] /\ nonce' \in [User -> Nat]
  <2>1. /\ fly \in [User -> Nat] /\ inContract \in [User -> Nat] /\ unbonding \in [User -> Nat]
        /\ matured \in [User -> Nat] /\ nonce \in [User -> Nat]
    BY DEF ModalInv, ChainOK
  <2>2. /\ tx.n \in 1..fly[who] => tx.n \in Nat /\ fly[who] - tx.n \in Nat
        /\ tx.n \in 1..inContract[who] => tx.n \in Nat /\ inContract[who] - tx.n \in Nat
    BY <1>3, <2>1
  <2> QED BY <1>3, <1>4, <2>1, <2>2
<1> QED BY <1>1, <1>2, <1>5, ChainKeeps DEF ChainOK

LEMMA MatureKeeps ==
  ASSUME ModalInv, NEW a \in User, Modal!Mature(a)
  PROVE  ModalInv'
<1>1. /\ matured' = [matured EXCEPT ![a] = @ + unbonding[a]] /\ unbonding' = [unbonding EXCEPT ![a] = 0]
      /\ UNCHANGED <<account, signer, renders, fly, inContract, nonce, pool, ui, shown, loads, runs,
                     started, done, pressed, upsets>>
  BY DEF Modal!Mature, Modal!wallet, Modal!modal, Modal!history
<1>2. ChainOK'
  BY <1>1 DEF ModalInv, ChainOK
<1> QED BY <1>1, <1>2, ChainKeeps

LEMMA ModalStepKeeps ==
  ASSUME ModalInv, Modal!Next
  PROVE  ModalInv'
<1>1. CASE Modal!WalletStep
  BY <1>1, WalletStepKeeps
<1>2. CASE Modal!UserStep
  BY <1>2, FormKeeps, PressKeeps, ClaimKeeps, ReloadKeeps DEF Modal!UserStep
<1>3. CASE Modal!LoadStep
  BY <1>3, AnswerKeeps, LoadFailsKeeps DEF Modal!LoadStep
<1>4. CASE Modal!Mine
  BY <1>4, MineKeeps
<1>5. ASSUME NEW i \in 0..MaxRuns, Modal!RunStep(i)  PROVE ModalInv'
  BY <1>5, SignKeeps, SendKeeps, ReturnKeeps, RefuseKeeps DEF Modal!RunStep
<1>6. ASSUME NEW a \in User, Modal!Mature(a)  PROVE ModalInv'
  BY <1>6, MatureKeeps
<1> QED BY <1>1, <1>2, <1>3, <1>4, <1>5, <1>6 DEF Modal!Next

LEMMA ModalStutters ==
  ASSUME ModalInv, UNCHANGED modalVars
  PROVE  ModalInv'
BY ChainKeeps DEF modalVars, ModalInv, ChainOK

LEMMA ModalBegins ==
  ASSUME Modal!Init
  PROVE  ModalInv
<1>1. /\ account = NoAccount /\ signer = FALSE /\ renders = 0
      /\ fly = Purse /\ inContract = [a \in User |-> 0] /\ unbonding = [a \in User |-> 0]
      /\ matured = [a \in User |-> 0] /\ nonce = [a \in User |-> 0] /\ pool = <<>>
      /\ ui = [status |-> "Stats", staking |-> TRUE, begin |-> FALSE, typed |-> 0,
               balance |-> 0, staked |-> 0, unstaking |-> 0, unstaked |-> FALSE]
      /\ shown = Modal!Portal(ui)
      /\ loads = {} /\ runs = [i \in 0..MaxRuns |-> Modal!Idle] /\ upsets = 0
      /\ started = 0 /\ done = FALSE /\ pressed = 0
  BY DEF Modal!Init
<1>2. ui \in ModalState /\ ui.status = "Stats" /\ ~ui.begin
  BY <1>1 DEF ModalState, Modal!Status
<1>3. UiOK
  BY <1>1, <1>2, PortalType DEF UiOK, Ticked
<1>4. WalletOK
  BY <1>1 DEF WalletOK, Modal!Holder
<1>5. ChainOK
  <2>1. pool \in Seq(ModalTx)
    BY <1>1, EmptySeq
  <2> QED BY <1>1, <2>1, ModalFacts DEF ChainOK
<1>6. CallsOK
  BY <1>1 DEF CallsOK
<1>7. CountsOK
  BY <1>1, <1>2, ModalFacts DEF CountsOK
<1> QED BY <1>3, <1>4, <1>5, <1>6, <1>7 DEF ModalInv

-----------------------------------------------------------------------------
(* The claim of the airdrop.                                               *)

ClaimHolder == User \cup {NoAccount}
ClaimMode == {"claim", "stake"}
Dialog == [mode : ClaimMode, confirming : BOOLEAN, request : BOOLEAN, begin : BOOLEAN,
           signature : ClaimHolder, status : Claims!Status]
ClaimRun == [of : Nat, for : User, signature : ClaimHolder, mode : ClaimMode,
             step : {"proof", "check", "claim"}]

Signed(m) == m.signature # NoAccount

\* Whatever the dialog has beyond the signature it has with one, and so has each
\* run in flight; a run of the dialog that is open is no older than it.
TermsOK ==
  /\ cAccount \in ClaimHolder /\ opens \in Nat /\ begun \in Nat
  /\ mount = Claims!Closed \/ mount \in Dialog
  /\ cRuns \in [1..MaxClaims -> ClaimRun \cup {Claims!Idle}]
  /\ Claims!Mounted =>
       (mount.begin \/ mount.status \notin {"Disconnected", "IsConnected"} => Signed(mount))
  /\ \A i \in 1..MaxClaims : cRuns[i] # Claims!Idle =>
       /\ Signed(cRuns[i]) /\ cRuns[i].of <= opens
       /\ Claims!Mounted /\ cRuns[i].of = opens => Signed(mount)

\* What is complete was sent, claimed or returned, and a dialog that has staked says so.
DoneOK ==
  /\ completed => returned # {} \/ claimed # {}
  /\ Claims!Mounted /\ mount.status = "HasStaked" => completed

\* As long as nothing was overtaken the account that is connected is the only one asked
\* about, and has the last answer.
OwedOK ==
  ~overlapped /\ cAccount # NoAccount =>
    asked \subseteq {cAccount} /\ (asked = {} => owed = Owed[cAccount])

ClaimInv == TermsOK /\ DoneOK /\ OwedOK

LEMMA ClaimFacts == NoAccount \notin User /\ MaxClaims \in Nat /\ Owed \in [User -> Nat]
BY FlyAssumption DEF Claims!ClaimAssumption

LEMMA ClosedIsNoDialog == Claims!Closed \notin Dialog
<1>1. Claims!Closed.mode = "none"
  BY DEF Claims!Closed
<1>2. \A m \in Dialog : m.mode # "none"
  BY DEF Dialog, ClaimMode
<1> QED BY <1>1, <1>2

LEMMA IdleIsNoClaim == Claims!Idle \notin ClaimRun
<1>1. Claims!Idle.step = "idle"
  BY DEF Claims!Idle
<1>2. \A r \in ClaimRun : r.step # "idle"
  BY DEF ClaimRun
<1> QED BY <1>1, <1>2

LEMMA MountedIsDialog ==
  ASSUME TermsOK
  PROVE  Claims!Mounted <=> mount \in Dialog
BY ClosedIsNoDialog DEF TermsOK, Claims!Mounted

\* A step that leaves the runs, and turns the dialog into one that is signed if it was.
LEMMA DialogTurns ==
  ASSUME TermsOK, NEW m \in Dialog, mount' = m, mount \in Dialog,
         UNCHANGED <<opens, begun, cRuns>>, cAccount' \in ClaimHolder,
         Signed(mount) => Signed(m),
         m.begin \/ m.status \notin {"Disconnected", "IsConnected"} => Signed(m)
  PROVE  TermsOK'
<1>1. mount' \in Dialog /\ Claims!Mounted /\ Claims!Mounted'
  BY ClosedIsNoDialog DEF Claims!Mounted, TermsOK
<1>2. mount'.begin \/ mount'.status \notin {"Disconnected", "IsConnected"} => Signed(mount)'
  BY DEF Signed
<1>3. ASSUME NEW i \in 1..MaxClaims, cRuns'[i] # Claims!Idle
      PROVE  /\ Signed(cRuns[i])' /\ cRuns'[i].of <= opens'
             /\ cRuns'[i].of = opens' => Signed(mount)'
  BY <1>1, <1>3 DEF TermsOK, Signed
<1> QED BY <1>1, <1>2, <1>3 DEF TermsOK

\* A run that was begun, went on or ended, in a dialog that is as it was.
LEMMA RunTurns ==
  ASSUME TermsOK, UNCHANGED <<opens, mount>>, cAccount' \in ClaimHolder, begun' \in Nat,
         NEW i \in 1..MaxClaims, NEW r \in ClaimRun \cup {Claims!Idle},
         cRuns' = [cRuns EXCEPT ![i] = r],
         r # Claims!Idle => /\ Signed(r) /\ r.of <= opens
                            /\ Claims!Mounted /\ r.of = opens => Signed(mount)
  PROVE  TermsOK'
<1>1. cRuns' \in [1..MaxClaims -> ClaimRun \cup {Claims!Idle}]
  BY DEF TermsOK
<1>2. ASSUME NEW j \in 1..MaxClaims, cRuns'[j] # Claims!Idle
      PROVE  /\ Signed(cRuns[j])' /\ cRuns'[j].of <= opens'
             /\ Claims!Mounted' /\ cRuns'[j].of = opens' => Signed(mount)'
  <2>1. cRuns'[j] = IF j = i THEN r ELSE cRuns[j]
    BY DEF TermsOK
  <2>2. Claims!Mounted' = Claims!Mounted
    BY DEF Claims!Mounted
  <2> QED BY <1>2, <2>1, <2>2 DEF TermsOK, Signed
<1> QED BY <1>1, <1>2 DEF TermsOK, Signed, Claims!Mounted

\* The dialog of a run in flight shows what became of it.
LEMMA ShowStep ==
  ASSUME TermsOK, NEW i \in 1..MaxClaims, cRuns[i] # Claims!Idle, NEW s \in Claims!Status,
         Claims!Show(cRuns[i], s), Claims!Over(i), UNCHANGED <<opens, begun, cAccount>>
  PROVE  /\ TermsOK'
         /\ Claims!Mounted' => Claims!Mounted /\ (mount'.status = s \/ mount' = mount)
<1>1. /\ mount' = (IF Claims!Mounted /\ cRuns[i].of = opens THEN [mount EXCEPT !.status = s] ELSE mount)
      /\ cRuns' = [cRuns EXCEPT ![i] = Claims!Idle]
  BY DEF Claims!Show, Claims!Over
<1>2. /\ cRuns' \in [1..MaxClaims -> ClaimRun \cup {Claims!Idle}]
      /\ \A j \in 1..MaxClaims : cRuns'[j] # Claims!Idle => cRuns'[j] = cRuns[j]
  BY <1>1 DEF TermsOK
<1>3. CASE Claims!Mounted /\ cRuns[i].of = opens
  <2>1. mount \in Dialog /\ Signed(mount)
    BY <1>3, MountedIsDialog DEF TermsOK
  <2>2. mount' \in Dialog /\ mount'.signature = mount.signature /\ mount'.status = s
    BY <1>1, <1>3, <2>1 DEF Dialog
  <2>3. Claims!Mounted' /\ Signed(mount)'
    BY <2>1, <2>2, ClosedIsNoDialog DEF Claims!Mounted, Signed
  <2>4. ASSUME NEW j \in 1..MaxClaims, cRuns'[j] # Claims!Idle
        PROVE  Signed(cRuns[j])' /\ cRuns'[j].of <= opens'
    BY <1>2, <2>4 DEF TermsOK, Signed
  <2> QED BY <1>2, <1>3, <2>2, <2>3, <2>4 DEF TermsOK
<1>4. CASE ~(Claims!Mounted /\ cRuns[i].of = opens)
  <2>1. mount' = mount /\ cAccount' \in ClaimHolder
    BY <1>1, <1>4 DEF TermsOK
  <2>2. TermsOK'
    BY <1>1, <2>1, RunTurns DEF TermsOK
  <2> QED BY <2>1, <2>2 DEF Claims!Mounted
<1> QED BY <1>3, <1>4

\* A claim is begun from a dialog that is signed.
LEMMA BeginClaim ==
  ASSUME TermsOK, NEW a \in User, mount \in Dialog, Signed(mount), Claims!Begin(a, mount)
  PROVE  \E i \in 1..MaxClaims, r \in ClaimRun :
           cRuns' = [cRuns EXCEPT ![i] = r] /\ Signed(r) /\ r.of = opens /\ begun' \in Nat
<1>0. SUFFICES begun + 1 \in 1..MaxClaims
  <2> DEFINE r == Claims!Run(a, mount)
  <2>1. cRuns' = [cRuns EXCEPT ![begun + 1] = r] /\ begun' \in Nat
    BY DEF Claims!Begin, TermsOK
  <2>2. r \in ClaimRun /\ Signed(r) /\ r.of = opens
    BY DEF Claims!Run, ClaimRun, Dialog, Signed, TermsOK
  <2> QED BY <1>0, <2>1, <2>2
<1> QED BY ClaimFacts DEF Claims!Begin, TermsOK

LEMMA DoneRests ==
  ASSUME DoneOK, UNCHANGED <<mount, completed>>, returned \subseteq returned', claimed \subseteq claimed'
  PROVE  DoneOK'
BY DEF DoneOK, Claims!Mounted

\* A dialog that is not said to have staked by this step.
LEMMA DoneTurns ==
  ASSUME DoneOK, UNCHANGED <<completed, returned, claimed>>,
         Claims!Mounted' => mount'.status # "HasStaked" \/ mount' = mount
  PROVE  DoneOK'
<1>1. CASE mount' = mount
  BY <1>1, DoneRests
<1>2. CASE mount' # mount
  BY <1>2 DEF DoneOK
<1> QED BY <1>1, <1>2

LEMMA TermsRest ==
  ASSUME TermsOK, UNCHANGED <<opens, begun, mount, cRuns>>, cAccount' \in ClaimHolder
  PROVE  TermsOK'
BY DEF TermsOK, Claims!Mounted, Signed

LEMMA OwedRests ==
  ASSUME OwedOK, UNCHANGED <<overlapped, cAccount, asked, owed>>
  PROVE  OwedOK'
BY DEF OwedOK

LEMMA ClaimFacadeKeeps ==
  ASSUME ClaimInv, NEW a \in ClaimHolder, NEW s, Claims!Facade(a, s)
  PROVE  ClaimInv'
<1>1. /\ cAccount' = a
      /\ IF a = cAccount THEN UNCHANGED <<asked, overlapped, owed, completed>> ELSE Claims!Ask(a)
      /\ mount' = (IF Claims!Mounted /\ mount.status = "Disconnected" /\ a # NoAccount
                   THEN [mount EXCEPT !.status = "IsConnected"] ELSE mount)
      /\ IF Claims!Mounted /\ mount.begin /\ a # NoAccount THEN Claims!Begin(a, mount)
                                                           ELSE UNCHANGED <<cRuns, begun>>
      /\ UNCHANGED <<opens, returned, claimed>>
  BY DEF Claims!Facade, Claims!page, Claims!chain
<1>2. UNCHANGED completed
  BY <1>1 DEF Claims!Ask
<1>3. OwedOK'
  <2>1. CASE a = cAccount
    BY <1>1, <2>1, OwedRests DEF ClaimInv
  <2>2. CASE a # cAccount
    BY <1>1, <2>2 DEF Claims!Ask, ClaimInv, OwedOK
  <2> QED BY <2>1, <2>2
<1>4. DoneOK'
  <2>1. Claims!Mounted' => mount'.status # "HasStaked" \/ mount' = mount
    <3>1. mount \in Dialog => [mount EXCEPT !.status = "IsConnected"].status = "IsConnected"
      BY DEF Dialog
    <3> QED BY <1>1, <3>1, MountedIsDialog DEF ClaimInv
  <2> QED BY <1>1, <1>2, <2>1, DoneTurns DEF ClaimInv
<1>5. TermsOK'
  <2>1. CASE Claims!Mounted /\ mount.begin /\ a # NoAccount
    <3>1. mount \in Dialog /\ Signed(mount)
      BY <2>1, MountedIsDialog DEF ClaimInv, TermsOK
    <3>2. PICK i \in 1..MaxClaims, r \in ClaimRun :
            cRuns' = [cRuns EXCEPT ![i] = r] /\ Signed(r) /\ r.of = opens /\ begun' \in Nat
      BY <1>1, <2>1, <3>1, BeginClaim DEF ClaimInv, ClaimHolder
    <3>3. opens \in Nat /\ opens <= opens
      BY DEF ClaimInv, TermsOK
    <3>4. CASE mount' = mount
      BY <1>1, <3>1, <3>2, <3>3, <3>4, RunTurns DEF ClaimInv
    <3>5. CASE mount' # mount
      <4>1. mount.status = "Disconnected" /\ mount' = [mount EXCEPT !.status = "IsConnected"]
        BY <1>1, <3>5
      <4>2. mount' \in Dialog /\ mount'.signature = mount.signature
        BY <3>1, <4>1 DEF Dialog, Claims!Status
      <4>3. Claims!Mounted' /\ Signed(mount)'
        BY <3>1, <4>2, ClosedIsNoDialog DEF Claims!Mounted, Signed
      <4>4. cRuns' \in [1..MaxClaims -> ClaimRun \cup {Claims!Idle}]
        BY <3>2 DEF ClaimInv, TermsOK
      <4>5. ASSUME NEW j \in 1..MaxClaims, cRuns'[j] # Claims!Idle
            PROVE  Signed(cRuns[j])' /\ cRuns'[j].of <= opens'
        <5>1. cRuns'[j] = IF j = i THEN r ELSE cRuns[j]
          BY <3>2 DEF ClaimInv, TermsOK
        <5> QED BY <1>1, <3>2, <3>3, <4>5, <5>1 DEF ClaimInv, TermsOK, Signed
      <4> QED BY <1>1, <3>2, <4>2, <4>3, <4>4, <4>5 DEF ClaimInv, TermsOK
    <3> QED BY <3>4, <3>5
  <2>2. CASE ~(Claims!Mounted /\ mount.begin /\ a # NoAccount)
    <3>1. CASE mount' = mount
      BY <1>1, <2>2, <3>1, TermsRest DEF ClaimInv
    <3>2. CASE mount' # mount
      <4>1. mount \in Dialog /\ mount.status = "Disconnected" /\ a # NoAccount /\ Claims!Mounted
            /\ mount' = [mount EXCEPT !.status = "IsConnected"]
        BY <1>1, <3>2, MountedIsDialog DEF ClaimInv
      <4>2. mount' \in Dialog /\ mount'.signature = mount.signature /\ mount'.begin = mount.begin
            /\ mount'.status = "IsConnected" /\ ~mount.begin
        BY <2>2, <4>1 DEF Dialog, Claims!Status
      <4> QED BY <1>1, <2>2, <4>1, <4>2, DialogTurns DEF ClaimInv, Signed
    <3> QED BY <3>1, <3>2
  <2> QED BY <2>1, <2>2
<1> QED BY <1>3, <1>4, <1>5 DEF ClaimInv

LEMMA ClaimWalletKeeps ==
  ASSUME ClaimInv, Claims!WalletStep
  PROVE  ClaimInv'
<1>1. \E a \in ClaimHolder, s \in BOOLEAN : Claims!Facade(a, s)
  <2>1. User \subseteq ClaimHolder /\ NoAccount \in ClaimHolder /\ cAccount \in ClaimHolder
    BY DEF ClaimHolder, ClaimInv, TermsOK
  <2> QED BY <2>1 DEF Claims!WalletStep, Claims!Connect, Claims!SwitchAccount, Claims!Disconnect,
               Claims!Activating, Claims!Activated
<1> QED BY <1>1, ClaimFacadeKeeps

LEMMA ClaimPageKeeps ==
  ASSUME ClaimInv, Claims!PageStep
  PROVE  ClaimInv'
<1>1. ASSUME NEW a \in User, Claims!AnswerOwed(a)  PROVE ClaimInv'
  <2>1. /\ a \in asked /\ asked' = asked \ {a} /\ owed' = Owed[a]
        /\ UNCHANGED <<cAccount, overlapped, completed, opens, mount, cRuns, begun, returned, claimed>>
    BY <1>1 DEF Claims!AnswerOwed, Claims!wallet, Claims!effects, Claims!chain
  <2>2. OwedOK'
    BY <2>1 DEF ClaimInv, OwedOK
  <2>3. TermsOK' /\ DoneOK'
    BY <2>1, TermsRest, DoneRests DEF ClaimInv, TermsOK
  <2> QED BY <2>2, <2>3 DEF ClaimInv
<1>2. ASSUME NEW a \in User, Claims!OwedFails(a)  PROVE ClaimInv'
  <2>1. /\ overlapped'
        /\ UNCHANGED <<cAccount, completed, opens, mount, cRuns, begun, returned, claimed>>
    BY <1>2 DEF Claims!OwedFails, Claims!wallet, Claims!effects, Claims!chain
  <2>2. OwedOK'
    BY <2>1 DEF OwedOK
  <2>3. TermsOK' /\ DoneOK'
    BY <2>1, TermsRest, DoneRests DEF ClaimInv, TermsOK
  <2> QED BY <2>2, <2>3 DEF ClaimInv
<1>3. CASE Claims!CheckEligibility
  <2>1. UNCHANGED <<cAccount, asked, overlapped, owed, completed, opens, mount, cRuns, begun, returned, claimed>>
    BY <1>3 DEF Claims!CheckEligibility, Claims!wallet, Claims!effects, Claims!chain
  <2>2. TermsOK' /\ DoneOK' /\ OwedOK'
    BY <2>1, TermsRest, DoneRests, OwedRests DEF ClaimInv, TermsOK
  <2> QED BY <2>2 DEF ClaimInv
<1>4. CASE Claims!Close
  <2>1. /\ mount' = Claims!Closed
        /\ UNCHANGED <<cAccount, asked, overlapped, owed, completed, opens, cRuns, begun, returned, claimed>>
    BY <1>4 DEF Claims!Close, Claims!wallet, Claims!page, Claims!effects, Claims!chain
  <2>2. ~Claims!Mounted'
    BY <2>1 DEF Claims!Mounted
  <2>3. TermsOK' /\ DoneOK' /\ OwedOK'
    BY <2>1, <2>2, OwedRests DEF ClaimInv, TermsOK, DoneOK, Signed
  <2> QED BY <2>3 DEF ClaimInv
<1>5. ASSUME NEW mode \in ClaimMode, Claims!ClaimYourFly(mode)  PROVE ClaimInv'
  <2> DEFINE confirming == mode = "claim"
             status == IF cAccount = NoAccount THEN "Disconnected" ELSE "IsConnected"
  <2>1. /\ opens' = opens + 1
        /\ mount' = [mode |-> mode, confirming |-> confirming, request |-> FALSE, begin |-> FALSE,
                     signature |-> NoAccount, status |-> status]
        /\ UNCHANGED <<cAccount, asked, overlapped, owed, completed, cRuns, begun, returned, claimed>>
    BY <1>5 DEF Claims!ClaimYourFly, Claims!wallet, Claims!page, Claims!effects, Claims!chain
  <2>2. confirming \in BOOLEAN /\ status \in {"Disconnected", "IsConnected"} /\ NoAccount \in ClaimHolder
    BY DEF ClaimHolder
  <2> HIDE DEF confirming, status
  <2>3. mount' \in Dialog /\ ~mount'.begin /\ mount'.status \in {"Disconnected", "IsConnected"}
    BY <2>1, <2>2 DEF Dialog, Claims!Status
  <2>4. ASSUME NEW i \in 1..MaxClaims, cRuns'[i] # Claims!Idle
        PROVE  Signed(cRuns[i])' /\ cRuns'[i].of <= opens' /\ cRuns'[i].of # opens'
    <3>1. cRuns[i] \in ClaimRun /\ cRuns[i].of <= opens /\ Signed(cRuns[i]) /\ opens \in Nat
      BY <2>1, <2>4 DEF ClaimInv, TermsOK
    <3>2. cRuns[i].of \in Nat
      BY <3>1 DEF ClaimRun
    <3>3. cRuns[i].of <= opens + 1 /\ cRuns[i].of # opens + 1
      BY <3>1, <3>2
    <3> QED BY <2>1, <3>1, <3>3 DEF Signed
  <2>5. TermsOK'
    BY <2>1, <2>3, <2>4 DEF ClaimInv, TermsOK
  <2>6. DoneOK' /\ OwedOK'
    BY <2>1, <2>3, OwedRests DEF ClaimInv, DoneOK
  <2> QED BY <2>5, <2>6 DEF ClaimInv
<1> QED BY <1>1, <1>2, <1>3, <1>4, <1>5 DEF Claims!PageStep, ClaimMode

\* A step of the dialog: nothing is known of it that was not, and it stays signed.
LEMMA DialogKeeps ==
  ASSUME ClaimInv, NEW m \in Dialog, mount' = m, mount \in Dialog,
         UNCHANGED <<cAccount, asked, overlapped, owed, completed, opens, cRuns, begun, returned, claimed>>,
         Signed(mount) => Signed(m), m.status # "HasStaked" \/ m.status = mount.status,
         m.begin \/ m.status \notin {"Disconnected", "IsConnected"} => Signed(m)
  PROVE  ClaimInv'
<1>1. TermsOK'
  BY DialogTurns DEF ClaimInv, TermsOK
<1>2. Claims!Mounted
  BY ClosedIsNoDialog DEF Claims!Mounted
<1>3. DoneOK'
  BY <1>2 DEF ClaimInv, DoneOK
<1> QED BY <1>1, <1>3, OwedRests DEF ClaimInv

LEMMA ClaimDialogKeeps ==
  ASSUME ClaimInv, Claims!ModalStep
  PROVE  ClaimInv'
<1>0. /\ Claims!Mounted <=> mount \in Dialog
      /\ mount \in Dialog =>
           (mount.begin \/ mount.status \notin {"Disconnected", "IsConnected"} => Signed(mount))
  BY MountedIsDialog DEF ClaimInv, TermsOK
<1>1. CASE Claims!ContinueClaiming
  <2>1. PICK mode \in ClaimMode : mount' = [mount EXCEPT !.confirming = FALSE, !.mode = mode]
    BY <1>1 DEF Claims!ContinueClaiming, ClaimMode
  <2>2. /\ Claims!Mounted
        /\ UNCHANGED <<cAccount, asked, overlapped, owed, completed, opens, cRuns, begun, returned, claimed>>
    <3>1. Claims!Buttons # {}
      BY <1>1 DEF Claims!ContinueClaiming
    <3>2. Claims!Mounted
      BY <3>1 DEF Claims!Buttons
    <3> QED BY <1>1, <3>2 DEF Claims!ContinueClaiming, Claims!wallet, Claims!page, Claims!effects,
                 Claims!chain
  <2>3. /\ mount' \in Dialog /\ mount'.status = mount.status /\ mount'.begin = mount.begin
        /\ mount'.signature = mount.signature
    BY <1>0, <2>1, <2>2 DEF Dialog
  <2> QED BY <1>0, <2>2, <2>3, DialogKeeps DEF Signed
<1>2. CASE Claims!PressSign
  <2>1. /\ Claims!Mounted /\ mount' = [mount EXCEPT !.request = TRUE]
        /\ UNCHANGED <<cAccount, asked, overlapped, owed, completed, opens, cRuns, begun, returned, claimed>>
    BY <1>2 DEF Claims!PressSign, Claims!Buttons, Claims!wallet, Claims!page, Claims!chain
  <2>2. /\ mount' \in Dialog /\ mount'.status = mount.status /\ mount'.begin = mount.begin
        /\ mount'.signature = mount.signature
    BY <1>0, <2>1 DEF Dialog
  <2> QED BY <1>0, <2>1, <2>2, DialogKeeps DEF Signed
<1>3. ASSUME NEW n, Claims!Signs(n)  PROVE ClaimInv'
  <2>1. /\ cAccount # NoAccount
        /\ mount' = (IF Claims!Mounted /\ n = opens
                     THEN [mount EXCEPT !.signature = cAccount, !.status = "HasSigned"] ELSE mount)
        /\ UNCHANGED <<cAccount, asked, overlapped, owed, completed, opens, cRuns, begun, returned, claimed>>
    BY <1>3 DEF Claims!Signs, Claims!wallet, Claims!page, Claims!chain
  <2>2. CASE Claims!Mounted /\ n = opens
    <3>1. mount' \in Dialog /\ mount'.status = "HasSigned" /\ mount'.signature = cAccount
      BY <1>0, <2>1, <2>2 DEF Dialog, Claims!Status, ClaimInv, TermsOK
    <3> QED BY <1>0, <2>1, <2>2, <3>1, DialogKeeps DEF Signed
  <2>3. CASE ~(Claims!Mounted /\ n = opens)
    <3>1. TermsOK' /\ DoneOK' /\ OwedOK'
      BY <2>1, <2>3, TermsRest, DoneRests, OwedRests DEF ClaimInv, TermsOK
    <3> QED BY <3>1 DEF ClaimInv
  <2> QED BY <2>2, <2>3
<1>4. ASSUME NEW n, Claims!SignFails(n)  PROVE ClaimInv'
  <2>1. UNCHANGED <<cAccount, asked, overlapped, owed, completed, opens, mount, cRuns, begun, returned, claimed>>
    BY <1>4 DEF Claims!SignFails, Claims!wallet, Claims!page, Claims!chain
  <2>2. TermsOK' /\ DoneOK' /\ OwedOK'
    BY <2>1, TermsRest, DoneRests, OwedRests DEF ClaimInv, TermsOK
  <2> QED BY <2>2 DEF ClaimInv
<1>5. CASE Claims!PressClaim
  <2>1. /\ Claims!Mounted /\ mount.status = "HasSigned" /\ mount' = [mount EXCEPT !.begin = TRUE]
        /\ IF cAccount # NoAccount THEN Claims!Begin(cAccount, mount) ELSE UNCHANGED <<cRuns, begun>>
        /\ UNCHANGED <<cAccount, asked, overlapped, owed, completed, opens, returned, claimed>>
    BY <1>5 DEF Claims!PressClaim, Claims!Buttons, Claims!wallet, Claims!page, Claims!chain
  <2>2. mount \in Dialog /\ Signed(mount)
    BY <1>0, <2>1
  <2>3. mount' \in Dialog /\ mount'.status = "HasSigned" /\ mount'.signature = mount.signature
    BY <2>1, <2>2 DEF Dialog
  <2>4. CASE cAccount # NoAccount
    <3>1. PICK i \in 1..MaxClaims, r \in ClaimRun :
            cRuns' = [cRuns EXCEPT ![i] = r] /\ Signed(r) /\ r.of = opens /\ begun' \in Nat
      BY <2>1, <2>2, <2>4, BeginClaim DEF ClaimInv, TermsOK, ClaimHolder
    <3>2. Claims!Mounted' /\ Signed(mount)'
      BY <2>2, <2>3, ClosedIsNoDialog DEF Claims!Mounted, Signed
    <3>3. cRuns' \in [1..MaxClaims -> ClaimRun \cup {Claims!Idle}]
      BY <3>1 DEF ClaimInv, TermsOK
    <3>4. ASSUME NEW j \in 1..MaxClaims, cRuns'[j] # Claims!Idle
          PROVE  Signed(cRuns[j])' /\ cRuns'[j].of <= opens'
      <4>1. cRuns'[j] = (IF j = i THEN r ELSE cRuns[j]) /\ opens <= opens
        BY <3>1 DEF ClaimInv, TermsOK
      <4> QED BY <2>1, <3>1, <3>4, <4>1 DEF ClaimInv, TermsOK, Signed
    <3>5. TermsOK'
      BY <2>1, <2>3, <3>1, <3>2, <3>3, <3>4 DEF ClaimInv, TermsOK
    <3>6. DoneOK' /\ OwedOK'
      BY <2>1, <2>3, DoneTurns, OwedRests DEF ClaimInv
    <3> QED BY <3>5, <3>6 DEF ClaimInv
  <2>5. CASE cAccount = NoAccount
    BY <2>1, <2>2, <2>3, <2>5, DialogKeeps DEF Signed
  <2> QED BY <2>4, <2>5
<1> QED BY <1>1, <1>2, <1>3, <1>4, <1>5 DEF Claims!ModalStep

LEMMA ClaimRunning ==
  ASSUME ClaimInv, NEW i \in 1..MaxClaims, cRuns[i].step \in {"proof", "check", "claim"}
  PROVE  cRuns[i] \in ClaimRun /\ cRuns[i] # Claims!Idle
BY DEF ClaimInv, TermsOK, Claims!Idle

\* A run goes on to another step.
LEMMA ClaimGoesOn ==
  ASSUME ClaimInv, NEW i \in 1..MaxClaims, cRuns[i].step \in {"proof", "check", "claim"},
         NEW s \in {"proof", "check", "claim"}, cRuns' = [cRuns EXCEPT ![i].step = s],
         UNCHANGED <<cAccount, asked, overlapped, owed, completed, opens, mount, begun, returned, claimed>>
  PROVE  ClaimInv'
<1> DEFINE r == [cRuns[i] EXCEPT !.step = s]
<1>1. cRuns[i] \in ClaimRun /\ cRuns[i] # Claims!Idle
  BY ClaimRunning
<1>2. r \in ClaimRun /\ r.of = cRuns[i].of /\ r.signature = cRuns[i].signature
  BY <1>1 DEF ClaimRun
<1>3. cRuns' = [cRuns EXCEPT ![i] = r]
  OBVIOUS
<1> HIDE DEF r
<1>4. TermsOK'
  BY <1>1, <1>2, <1>3, RunTurns DEF ClaimInv, TermsOK, Signed
<1> QED BY <1>4, DoneRests, OwedRests DEF ClaimInv

\* A run ends as complete, and had cause to.
LEMMA ClaimCompletes ==
  ASSUME ClaimInv, NEW i \in 1..MaxClaims, cRuns[i].step \in {"proof", "check", "claim"},
         Claims!Complete(i), UNCHANGED <<cAccount, opens, begun>>,
         returned' # {} \/ claimed' # {}
  PROVE  ClaimInv'
<1> DEFINE s == IF cRuns[i].mode = "stake" THEN "HasStaked" ELSE "HasClaimed"
<1>1. /\ Claims!Show(cRuns[i], s) /\ completed' /\ Claims!Over(i)
      /\ UNCHANGED <<asked, overlapped, owed>>
  BY DEF Claims!Complete
<1>2. s \in Claims!Status
  BY DEF Claims!Status
<1> HIDE DEF s
<1>3. TermsOK'
  BY <1>1, <1>2, ClaimRunning, ShowStep DEF ClaimInv
<1>4. DoneOK' /\ OwedOK'
  BY <1>1, OwedRests DEF ClaimInv, DoneOK
<1> QED BY <1>3, <1>4 DEF ClaimInv

LEMMA ClaimRunKeeps ==
  ASSUME ClaimInv, NEW i \in 1..MaxClaims, Claims!RunStep(i)
  PROVE  ClaimInv'
<1>1. CASE Claims!Proof(i)
  BY <1>1, ClaimGoesOn DEF Claims!Proof, Claims!wallet, Claims!page, Claims!chain
<1>2. CASE Claims!AlreadyClaimed(i)
  <2>1. returned' # {} \/ claimed' # {}
    BY <1>2 DEF Claims!AlreadyClaimed, Claims!IsClaimed, Claims!chain
  <2> QED BY <1>2, <2>1, ClaimCompletes DEF Claims!AlreadyClaimed, Claims!wallet
<1>3. CASE Claims!NotYetClaimed(i)
  BY <1>3, ClaimGoesOn DEF Claims!NotYetClaimed, Claims!wallet, Claims!page, Claims!chain
<1>4. CASE Claims!SendClaim(i)
  BY <1>4, ClaimCompletes DEF Claims!SendClaim, Claims!wallet
<1>5. CASE Claims!ReturnUnsent(i)
  BY <1>5, ClaimCompletes DEF Claims!ReturnUnsent, Claims!wallet
<1>6. CASE Claims!RunFails(i)
  <2>1. /\ cRuns[i] # Claims!Idle /\ Claims!Over(i) /\ Claims!Show(cRuns[i], "InError")
        /\ UNCHANGED <<cAccount, asked, overlapped, owed, completed, opens, begun, returned, claimed>>
    BY <1>6 DEF Claims!RunFails, Claims!wallet, Claims!page, Claims!chain
  <2>2. "InError" \in Claims!Status
    BY DEF Claims!Status
  <2>3. TermsOK' /\ (Claims!Mounted' => mount'.status = "InError" \/ mount' = mount)
    BY <2>1, <2>2, ShowStep DEF ClaimInv
  <2>4. DoneOK' /\ OwedOK'
    BY <2>1, <2>3, DoneTurns, OwedRests DEF ClaimInv
  <2> QED BY <2>3, <2>4 DEF ClaimInv
<1> QED BY <1>1, <1>2, <1>3, <1>4, <1>5, <1>6 DEF Claims!RunStep

LEMMA ClaimStepKeeps ==
  ASSUME ClaimInv, Claims!Next
  PROVE  ClaimInv'
<1>1. CASE Claims!Mine
  <2>1. /\ claimed \subseteq claimed'
        /\ UNCHANGED <<cAccount, asked, overlapped, owed, completed, opens, mount, cRuns, begun, returned>>
    BY <1>1 DEF Claims!Mine, Claims!wallet, Claims!page, Claims!effects
  <2>2. TermsOK' /\ DoneOK' /\ OwedOK'
    BY <2>1, TermsRest, DoneRests, OwedRests DEF ClaimInv, TermsOK
  <2> QED BY <2>2 DEF ClaimInv
<1> QED BY <1>1, ClaimWalletKeeps, ClaimPageKeeps, ClaimDialogKeeps, ClaimRunKeeps DEF Claims!Next

LEMMA ClaimStutters ==
  ASSUME ClaimInv, UNCHANGED claimVars
  PROVE  ClaimInv'
<1>1. UNCHANGED <<cAccount, asked, overlapped, owed, completed, opens, mount, cRuns, begun, returned, claimed>>
  BY DEF claimVars
<1>2. TermsOK' /\ DoneOK' /\ OwedOK'
  BY <1>1, TermsRest, DoneRests, OwedRests DEF ClaimInv, TermsOK
<1> QED BY <1>2 DEF ClaimInv

LEMMA ClaimBegins ==
  ASSUME Claims!Init
  PROVE  ClaimInv
<1>1. /\ cAccount = NoAccount /\ opens = 0 /\ begun = 0 /\ mount = Claims!Closed
      /\ cRuns = [i \in 1..MaxClaims |-> Claims!Idle] /\ completed = FALSE
  BY DEF Claims!Init
<1>2. ~Claims!Mounted
  BY <1>1 DEF Claims!Mounted
<1> QED BY <1>1, <1>2 DEF ClaimInv, TermsOK, DoneOK, OwedOK, ClaimHolder

-----------------------------------------------------------------------------
(* The theorems about the web app.                                         *)

LEMMA WebInvariants == MCSpec => [](ModalInv /\ ClaimInv)
<1>1. MCInit => ModalInv /\ ClaimInv
  BY ModalBegins, ClaimBegins DEF MCInit
<1>2. ModalInv /\ ClaimInv /\ [MCNext]_everything => (ModalInv /\ ClaimInv)'
  <2> SUFFICES ASSUME ModalInv, ClaimInv, [MCNext]_everything
               PROVE  (ModalInv /\ ClaimInv)'
    OBVIOUS
  <2>1. ModalInv'
    BY ModalStepKeeps, ModalStutters DEF MCNext, everything
  <2>2. ClaimInv'
    BY ClaimStepKeeps, ClaimStutters DEF MCNext, everything
  <2> QED BY <2>1, <2>2
<1> QED BY <1>1, <1>2, PTL DEF MCSpec

\* Nothing is asked of the wallet before the button of the staking modal was
\* pressed and no more often than it rendered since, and nobody's proof before
\* the terms were signed in that modal (FLYStakingStatsModal.tsx, FlyClaim's
\* modal), for any accounts, amounts and number of renders, openings and runs.
THEOREM StepsAlwaysHaveCauses == MCSpec => []StepsHaveCauses
<1>1. ModalInv /\ ClaimInv => StepsHaveCauses
  <2> SUFFICES ASSUME ModalInv, ClaimInv  PROVE StepsHaveCauses
    OBVIOUS
  <2>1. Modal!StartsHaveCauses
    BY DEF ModalInv, CountsOK, Modal!StartsHaveCauses
  <2>2. Claims!TermsFirst
    <3>1. Claims!Mounted /\ Claims!Circle("sign") = "checked" => Signed(mount)
      BY DEF Claims!Circle, Claims!CheckedAt, Claims!NextAt, Claims!Status, ClaimInv, TermsOK
    <3> QED BY <3>1 DEF Claims!TermsFirst, Signed, ClaimInv, TermsOK
  <2> QED BY <2>1, <2>2 DEF StepsHaveCauses
<1> QED BY <1>1, WebInvariants, PTL

\* Neither modal says that something is done that was only refused or failed,
\* unless it says at the same time that there was an error: what ticks off the
\* steps of either goes by the state it was drawn from.
THEOREM SaysOnlyWhatWasDone == MCSpec => []SaysWhatWasDone
<1>1. ModalInv /\ ClaimInv => SaysWhatWasDone
  <2> SUFFICES ASSUME ModalInv, ClaimInv  PROVE SaysWhatWasDone
    OBVIOUS
  <2>1. Modal!DoneMeansSent
    BY DEF ModalInv, UiOK, Ticked, Modal!DoneMeansSent
  <2>2. Claims!CompletedMeansClaimed
    <3>1. Claims!Mounted /\ mount.status # "InError" /\ Claims!Circle("stake") = "checked"
            => mount.status = "HasStaked"
      BY DEF Claims!Circle, Claims!CheckedAt, Claims!NextAt
    <3> QED BY <3>1 DEF Claims!CompletedMeansClaimed, ClaimInv, DoneOK
  <2> QED BY <2>1, <2>2 DEF SaysWhatWasDone
<1> QED BY <1>1, WebInvariants, PTL

\* The FLY that the recap page says is owed is owed to the account it shows, as
\* long as no answer was overtaken or lost, whatever accounts connect in turn
\* (useFLYOwedForAddress).
THEOREM OwedIsOnesOwn == MCSpec => []OwedIsOwn
<1>1. ClaimInv => OwedIsOwn
  BY DEF ClaimInv, OwedOK, OwedIsOwn, Claims!OwedIsOwn
<1> QED BY <1>1, WebInvariants, PTL
====
