----------------------------- MODULE SumsProofs -----------------------------
(* Facts about Sums for functions over a finite set.                       *)
EXTENDS Sums, FiniteSetTheorems, WellFoundedInduction, TLAPS

\* The units of one argument: as many as its value.
LEMMA UnitsOfOne ==
  ASSUME NEW x, NEW n \in Nat
  PROVE  IsFiniteSet({x} \X (1..n)) /\ Cardinality({x} \X (1..n)) = n
<1>1. IsFiniteSet(1..n) /\ Cardinality(1..n) = n
  BY FS_Interval
<1>2. IsFiniteSet({x}) /\ Cardinality({x}) = 1
  BY FS_Singleton
<1>3. IsFiniteSet({x} \X (1..n)) /\ Cardinality({x} \X (1..n)) = 1 * n
  BY <1>1, <1>2, FS_Product, ZenonT(40)
<1> QED BY <1>3

\* A function over a finite set has finitely many units, so its sum is a
\* natural number.
LEMMA SumType ==
  ASSUME NEW S, IsFiniteSet(S), NEW f \in [S -> Nat]
  PROVE  IsFiniteSet(Units(f)) /\ Sum(f) \in Nat
<1> DEFINE Of(x) == {x} \X (1..f[x])
           All == {Of(x) : x \in S}
           g == [x \in S |-> Of(x)]
<1>1. g \in Surjection(S, All)
  <2>1. g \in [S -> All]
    OBVIOUS
  <2>2. ASSUME NEW t \in All  PROVE \E s \in S : g[s] = t
    OBVIOUS
  <2> QED BY <2>1, <2>2 DEF Surjection
<1>2. IsFiniteSet(All)
  <2> HIDE DEF All, g
  <2> QED BY <1>1, FS_Surjection
<1>3. ASSUME NEW T \in All  PROVE IsFiniteSet(T)
  <2>1. PICK x \in S : T = Of(x)
    OBVIOUS
  <2>2. f[x] \in Nat
    OBVIOUS
  <2> QED BY <2>1, <2>2, UnitsOfOne
<1>4. IsFiniteSet(UNION All)
  <2> HIDE DEF All
  <2> QED BY <1>2, <1>3, FS_UNION
<1>5. Units(f) = UNION All
  BY DEF Units
<1>6. IsFiniteSet(Units(f))
  BY <1>4, <1>5
<1> QED BY <1>6, FS_CardinalityType DEF Sum

\* Changing one value changes the sum by the difference.
LEMMA SumUpdate ==
  ASSUME NEW S, IsFiniteSet(S), NEW f \in [S -> Nat], NEW a \in S, NEW v \in Nat
  PROVE  Sum([f EXCEPT ![a] = v]) = Sum(f) - f[a] + v
<1> DEFINE g == [f EXCEPT ![a] = v]
           Rest == UNION {{x} \X (1..f[x]) : x \in S \ {a}}
           Old == {a} \X (1..f[a])
           New == {a} \X (1..v)
<1>1. g \in [S -> Nat] /\ f[a] \in Nat
  OBVIOUS
<1>2. Units(f) = Rest \cup Old
  BY DEF Units
<1>3. Units(g) = Rest \cup New
  BY DEF Units
<1>4. IsFiniteSet(Old) /\ Cardinality(Old) = f[a] /\ IsFiniteSet(New) /\ Cardinality(New) = v
  BY <1>1, UnitsOfOne
<1>5. Rest \cap Old = {} /\ Rest \cap New = {}
  OBVIOUS
<1>6. IsFiniteSet(Units(f)) /\ Rest \in SUBSET Units(f)
  BY <1>2, SumType
<1>7. IsFiniteSet(Rest) /\ Cardinality(Rest) \in Nat
  <2> HIDE DEF Rest
  <2> QED BY <1>6, FS_Subset, FS_CardinalityType
<1>8. Cardinality({}) = 0
  BY FS_EmptySet
<1> HIDE DEF Rest, Old, New, g
<1>9. Cardinality(Rest \cup Old) = Cardinality(Rest) + f[a]
  BY <1>4, <1>5, <1>7, <1>8, <1>1, FS_Union
<1>10. Cardinality(Rest \cup New) = Cardinality(Rest) + v
  <2>1. Cardinality(Rest \cup New) = Cardinality(Rest) + Cardinality(New) - Cardinality(Rest \cap New)
    BY <1>4, <1>7, FS_Union
  <2>2. Cardinality(Rest \cap New) = 0
    BY <1>5, <1>8
  <2>3. Cardinality(New) = v
    BY <1>4
  <2> QED BY <2>1, <2>2, <2>3, <1>7
<1>11. Sum(g) = Sum(f) - f[a] + v
  BY <1>1, <1>2, <1>3, <1>7, <1>9, <1>10 DEF Sum
<1> QED BY <1>11 DEF g

\* No value exceeds the sum.
LEMMA SumAtLeast ==
  ASSUME NEW S, IsFiniteSet(S), NEW f \in [S -> Nat], NEW a \in S
  PROVE  f[a] <= Sum(f)
<1>1. [f EXCEPT ![a] = 0] \in [S -> Nat]
  OBVIOUS
<1>2. Sum([f EXCEPT ![a] = 0]) \in Nat /\ Sum(f) \in Nat
  BY <1>1, SumType
<1>3. \A v \in Nat : Sum([f EXCEPT ![a] = v]) = Sum(f) - f[a] + v
  BY SumUpdate
<1>4. Sum([f EXCEPT ![a] = 0]) = Sum(f) - f[a] + 0
  BY <1>3
<1> QED BY <1>2, <1>4

\* A sum of zeros is zero.
LEMMA SumOfZeros ==
  ASSUME NEW S
  PROVE  Sum([x \in S |-> 0]) = 0
<1>1. Units([x \in S |-> 0]) = {}
  BY DEF Units
<1> QED BY <1>1, FS_EmptySet DEF Sum

\* Sums are monotone, also over a larger domain.
LEMMA SumMonotone ==
  ASSUME NEW S, IsFiniteSet(S), NEW T \in SUBSET S,
         NEW f \in [T -> Nat], NEW g \in [S -> Nat], \A x \in T : f[x] <= g[x]
  PROVE  Sum(f) <= Sum(g)
<1>1. ASSUME NEW u \in Units(f)  PROVE u \in Units(g)
  <2>1. PICK x \in T : u \in {x} \X (1..f[x])
    BY <1>1 DEF Units
  <2>2. u \in {x} \X (1..g[x])
    BY <2>1
  <2> QED BY <2>2 DEF Units
<1>2. Units(f) \in SUBSET Units(g)
  BY <1>1
<1> QED BY <1>2, SumType, FS_Subset DEF Sum

\* Adding one argument adds its value.
LEMMA SumAdd ==
  ASSUME NEW S, IsFiniteSet(S), NEW x, x \notin S, NEW f \in [S \cup {x} -> Nat]
  PROVE  Sum(f) = Sum([y \in S |-> f[y]]) + f[x]
<1> DEFINE T == S \cup {x}
           g == [f EXCEPT ![x] = 0]
           r == [y \in S |-> f[y]]
<1>1. IsFiniteSet(T)
  BY FS_AddElement
<1>2. Units(g) = Units(r)
  <2>1. DOMAIN g = T /\ DOMAIN r = S /\ g[x] = 0 /\ \A y \in S : g[y] = r[y]
    OBVIOUS
  <2>2. {x} \X (1..g[x]) = {}
    BY <2>1
  <2> QED BY <2>1, <2>2 DEF Units
<1>3. f \in [T -> Nat] /\ x \in T /\ f[x] \in Nat
  OBVIOUS
<1>4. \A v \in Nat : Sum([f EXCEPT ![x] = v]) = Sum(f) - f[x] + v
  <2> HIDE DEF T
  <2> QED BY <1>1, <1>3, SumUpdate
<1>5. Sum(g) = Sum(f) - f[x]
  <2>1. Sum(g) = Sum(f) - f[x] + 0
    BY <1>4
  <2>2. Sum(f) \in Nat
    <3> HIDE DEF T
    <3> QED BY <1>1, <1>3, SumType
  <2> QED BY <2>1, <2>2, <1>3
<1>6. Sum(r) = Sum(g)
  BY <1>2 DEF Sum
<1>7. Sum(f) \in Nat /\ Sum(r) \in Nat
  <2>1. r \in [S -> Nat]
    OBVIOUS
  <2> HIDE DEF T, r
  <2> QED BY <1>1, <1>3, <2>1, SumType
<1> QED BY <1>3, <1>5, <1>6, <1>7

\* Every set of natural numbers has a least element: the form in which
\* induction is used below.
LEMMA LeastElement ==
  ASSUME NEW T \in SUBSET Nat, T # {}
  PROVE  \E x \in T : \A y \in T : x <= y
<1>1. PICK x \in T : \A y \in T : <<y, x>> \notin OpToRel(<, Nat)
  BY NatLessThanWellFounded, WFMin
<1>2. ASSUME NEW y \in T  PROVE x <= y
  <2>1. <<y, x>> \notin OpToRel(<, Nat)
    BY <1>1
  <2>2. ~(y < x)
    BY <2>1 DEF OpToRel
  <2> QED BY <2>2
<1> QED BY <1>2

\* The sum of the amounts with an index in I.
SumOver(amount, I) == Sum([i \in I |-> amount[i]])

\* Amounts with an owner each, added to what their owners have in f.
AddedTo(f, owner, amount, I) ==
  [h \in DOMAIN f |-> f[h] + SumOver(amount, {j \in I : owner[j] = h})]

\* The sum grows by the sum of the amounts.  By induction on how many of the
\* amounts 1..n were added.
LEMMA SumByOwner ==
  ASSUME NEW S, IsFiniteSet(S), NEW f \in [S -> Nat], NEW n \in Nat,
         NEW owner \in [1..n -> S], NEW amount \in [1..n -> Nat], NEW I \in SUBSET (1..n)
  PROVE  Sum(AddedTo(f, owner, amount, I)) = Sum(f) + SumOver(amount, I)
<1> DEFINE First(k) == {i \in I : i <= k}
           Owned(k, h) == {j \in First(k) : owner[j] = h}
           Part(J) == Sum([i \in J |-> amount[i]])
           After(k) == [h \in S |-> f[h] + Part(Owned(k, h))]
           Claim(k) == Sum(After(k)) = Sum(f) + Part(First(k))
<1>0. \A i \in I : i \in Nat /\ 1 <= i /\ i <= n /\ amount[i] \in Nat /\ owner[i] \in S
  OBVIOUS
<1>1. ASSUME NEW J \in SUBSET (1..n)  PROVE IsFiniteSet(J) /\ Part(J) \in Nat
  <2>1. IsFiniteSet(1..n)
    BY FS_Interval
  <2>2. IsFiniteSet(J)
    BY <2>1, FS_Subset
  <2>3. [i \in J |-> amount[i]] \in [J -> Nat]
    OBVIOUS
  <2> QED BY <2>2, <2>3, SumType
<1>2. ASSUME NEW J \in SUBSET (1..n), NEW x \in (1..n) \ J
      PROVE  Part(J \cup {x}) = Part(J) + amount[x]
  <2> DEFINE a == [i \in J \cup {x} |-> amount[i]]
  <2>1. a \in [J \cup {x} -> Nat] /\ a[x] = amount[x] /\ [y \in J |-> a[y]] = [i \in J |-> amount[i]]
    OBVIOUS
  <2>2. IsFiniteSet(J) /\ x \notin J
    BY <1>1
  <2> HIDE DEF a
  <2>3. Sum(a) = Sum([y \in J |-> a[y]]) + a[x]
    BY <2>1, <2>2, SumAdd
  <2> QED BY <2>1, <2>3 DEF a
<1>3. ASSUME NEW k \in Nat  PROVE After(k) \in [S -> Nat] /\ First(k) \in SUBSET (1..n)
  <2>1. ASSUME NEW h \in S  PROVE f[h] + Part(Owned(k, h)) \in Nat
    <3>1. Owned(k, h) \in SUBSET (1..n)
      OBVIOUS
    <3>2. Part(Owned(k, h)) \in Nat
      <4> HIDE DEF Part, Owned
      <4> QED BY <3>1, <1>1
    <3> HIDE DEF Part, Owned
    <3> QED BY <3>2
  <2> HIDE DEF Part, Owned
  <2> QED BY <2>1
<1>4. Claim(0)
  <2>1. First(0) = {} /\ \A h \in S : Owned(0, h) = {}
    <3>1. \A i \in I : ~(i <= 0)
      BY <1>0
    <3> QED BY <3>1
  <2>2. Part({}) = 0
    <3>1. [i \in {} |-> amount[i]] = [i \in {} |-> 0]
      OBVIOUS
    <3> QED BY <3>1, SumOfZeros
  <2> HIDE DEF Part, First, Owned
  <2>3. After(0) = f
    <3>1. ASSUME NEW h \in S  PROVE f[h] + Part(Owned(0, h)) = f[h]
      <4>1. Owned(0, h) = {}
        BY <2>1
      <4>2. Part(Owned(0, h)) = 0
        BY <4>1, <2>2, Zenon
      <4>3. f[h] \in Nat
        OBVIOUS
      <4> QED BY <4>2, <4>3
    <3> QED BY <3>1
  <2>4. Sum(f) \in Nat
    BY SumType
  <2> HIDE DEF After
  <2>5. Part(First(0)) = 0 /\ Sum(After(0)) = Sum(f)
    BY <2>1, <2>2, <2>3, Zenon
  <2> QED BY <2>4, <2>5
<1>5. ASSUME NEW k \in Nat, k + 1 \in 1..n, Claim(k)  PROVE Claim(k + 1)
  <2>1. CASE k + 1 \notin I
    <3>1. First(k + 1) = First(k)
      <4>1. \A i \in I : i <= k + 1 <=> i <= k
        BY <2>1, <1>0
      <4> QED BY <4>1
    <3>2. After(k + 1) = After(k)
      BY <3>1
    <3> HIDE DEF After, First, Part
    <3> QED BY <3>1, <3>2, <1>5
  <2>2. CASE k + 1 \in I
    <3> DEFINE w == owner[k + 1]
               v == After(k)[w] + amount[k + 1]
    <3>1. First(k + 1) = First(k) \cup {k + 1} /\ k + 1 \notin First(k)
      <4>1. \A i \in I : i <= k + 1 <=> i <= k \/ i = k + 1
        BY <1>0
      <4>2. ~(k + 1 <= k) /\ k + 1 <= k + 1
        OBVIOUS
      <4> QED BY <4>1, <4>2, <2>2
    <3>2. \A h \in S : Owned(k + 1, h) = IF h = w THEN Owned(k, h) \cup {k + 1} ELSE Owned(k, h)
      BY <3>1
    <3>3. w \in S /\ k + 1 \notin Owned(k, w) /\ amount[k + 1] \in Nat
      BY <3>1
    <3>4. Part(First(k + 1)) = Part(First(k)) + amount[k + 1]
      <4>1. First(k) \in SUBSET (1..n) /\ k + 1 \in (1..n) \ First(k)
        BY <3>1
      <4> HIDE DEF First, Part
      <4> QED BY <3>1, <4>1, <1>2
    <3>5. Part(Owned(k + 1, w)) = Part(Owned(k, w)) + amount[k + 1]
      <4>1. Owned(k, w) \in SUBSET (1..n) /\ k + 1 \in (1..n) \ Owned(k, w)
        <5>1. Owned(k, w) \in SUBSET I
          OBVIOUS
        <5> HIDE DEF Owned, w
        <5> QED BY <5>1, <3>3, <1>5
      <4>2. Owned(k + 1, w) = Owned(k, w) \cup {k + 1}
        BY <3>2, <3>3
      <4> HIDE DEF Owned, Part
      <4> QED BY <4>1, <4>2, <1>2
    <3>6. After(k) \in [S -> Nat] /\ Part(Owned(k, w)) \in Nat /\ f[w] \in Nat
      <4>1. Owned(k, w) \in SUBSET (1..n)
        OBVIOUS
      <4> HIDE DEF Owned, Part
      <4> QED BY <4>1, <1>1, <1>3, <3>3
    <3>7. After(k + 1) = [After(k) EXCEPT ![w] = v]
      <4>1. ASSUME NEW h \in S
            PROVE  f[h] + Part(Owned(k + 1, h))
                     = IF h = w THEN f[h] + Part(Owned(k, h)) + amount[k + 1] ELSE f[h] + Part(Owned(k, h))
        <5>1. CASE h = w
          <6> HIDE DEF Owned, Part
          <6> QED BY <5>1, <3>5, <3>6, <3>3
        <5>2. CASE h # w
          <6>1. Owned(k + 1, h) = Owned(k, h)
            BY <3>2, <5>2
          <6> HIDE DEF Owned, Part, w
          <6> QED BY <6>1, <5>2
        <5> QED BY <5>1, <5>2
      <4> HIDE DEF Owned, Part, w
      <4> QED BY <4>1, <3>3
    <3>8. v \in Nat
      <4>1. After(k)[w] \in Nat
        <5> HIDE DEF After, w
        <5> QED BY <3>6, <3>3
      <4> HIDE DEF After, w
      <4> QED BY <4>1, <3>3
    <3>9. Sum([After(k) EXCEPT ![w] = v]) = Sum(After(k)) - After(k)[w] + v
      <4>1. After(k) \in [S -> Nat] /\ w \in S /\ v \in Nat
        <5> HIDE DEF After, v, w
        <5> QED BY <3>3, <3>6, <3>8
      <4> HIDE DEF After, Owned, First, Part, Claim, v, w
      <4> QED BY <4>1, SumUpdate, Zenon
    <3>10. Sum(After(k)) \in Nat /\ After(k)[w] \in Nat
      <4> HIDE DEF After, w
      <4> QED BY <3>3, <3>6, SumType
    <3>11. Sum(f) \in Nat /\ Part(First(k)) \in Nat
      <4>1. First(k) \in SUBSET (1..n)
        OBVIOUS
      <4> HIDE DEF First, Part
      <4> QED BY <4>1, <1>1, SumType
    <3>12. Sum(After(k + 1)) = Sum(After(k)) + amount[k + 1]
      <4> HIDE DEF After, w
      <4> QED BY <3>7, <3>9, <3>10, <3>3
    <3> HIDE DEF After, First, Part, w
    <3> QED BY <1>5, <3>4, <3>10, <3>11, <3>12, <3>3
  <2> QED BY <2>1, <2>2
<1>6. \A k \in 0..n : Claim(k)
  <2> DEFINE Bad == {k \in 0..n : ~Claim(k)}
  <2> HIDE DEF Claim
  <2>1. SUFFICES ASSUME Bad # {}  PROVE FALSE
    OBVIOUS
  <2>2. PICK k \in Bad : \A j \in Bad : k <= j
    <3>1. Bad \in SUBSET Nat
      OBVIOUS
    <3> HIDE DEF Bad
    <3> QED BY <2>1, <3>1, LeastElement
  <2>3. k # 0
    BY <1>4
  <2>4. k - 1 \in Nat /\ (k - 1) + 1 = k /\ k \in 1..n /\ Claim(k - 1)
    BY <2>2, <2>3
  <2> QED BY <2>4, <1>5
<1>7. Claim(n)
  <2> HIDE DEF Claim
  <2> QED BY <1>6
<1>8. First(n) = I
  BY <1>0
<1>9. AddedTo(f, owner, amount, I) = After(n)
  BY <1>8 DEF AddedTo, SumOver
<1> QED BY <1>7, <1>8, <1>9 DEF SumOver
=============================================================================
