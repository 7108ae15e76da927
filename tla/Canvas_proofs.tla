--------------------------- MODULE Canvas_proofs ---------------------------
(***************************************************************************)
(* Proofs about Canvas, for any catalog, number of lanes, shares of the    *)
(* user and depth of the undo stack.                                       *)
(***************************************************************************)
EXTENDS Canvas, LedgerSums, FunctionTheorems, SequenceTheorems

-----------------------------------------------------------------------------
(* Largest remainder                                                       *)

\* In a finite strict total order as many elements as there are ranks below k have one.
LEMMA RanksAreCounted ==
    ASSUME NEW S, IsFiniteSet(S), NEW before \in [S -> SUBSET S],
           \A i \in S : i \notin before[i],
           \A i \in S : \A j \in before[i] : before[j] \subseteq before[i],
           \A i, j \in S : i # j => i \in before[j] \/ j \in before[i],
           NEW k \in Nat, k <= Cardinality(S)
    PROVE  Cardinality({i \in S : Cardinality(before[i]) < k}) = k
<1> DEFINE n == Cardinality(S)
           rank == [i \in S |-> Cardinality(before[i])]
           low == {i \in S : rank[i] < k}
<1>1. n \in Nat
  BY FS_CardinalityType
<1>2. ASSUME NEW i \in S PROVE IsFiniteSet(before[i]) /\ Cardinality(before[i]) \in Nat
  BY FS_Subset, FS_CardinalityType
<1>3. ASSUME NEW i \in S, NEW T \in SUBSET S, IsFiniteSet(T), before[i] \subseteq T, i \in T
      PROVE  rank[i] < Cardinality(T)
  <2>1. before[i] \in SUBSET T /\ before[i] # T
    BY <1>3
  <2>2. Cardinality(before[i]) <= Cardinality(T) /\ Cardinality(T) # Cardinality(before[i])
    BY <1>3, <2>1, FS_Subset
  <2>3. Cardinality(T) \in Nat /\ Cardinality(before[i]) \in Nat
    BY <1>2, <1>3, FS_CardinalityType
  <2> QED BY <2>2, <2>3
<1>4. rank \in [S -> 0..(n - 1)]
  <2>1. ASSUME NEW i \in S PROVE Cardinality(before[i]) \in 0..(n - 1)
    <3>1. S \in SUBSET S /\ before[i] \subseteq S
      OBVIOUS
    <3>2. rank[i] < n
      BY <1>3, <3>1
    <3> QED BY <1>1, <1>2, <3>2
  <2> QED BY <2>1
<1>5. \A i, j \in S : rank[i] = rank[j] => i = j
  <2>1. ASSUME NEW i \in S, NEW j \in S, j \in before[i] PROVE rank[j] < rank[i]
    <3>1. before[i] \in SUBSET S /\ IsFiniteSet(before[i]) /\ before[j] \subseteq before[i]
      BY <1>2, <2>1
    <3>2. rank[j] < Cardinality(before[i])
      BY <1>3, <2>1, <3>1
    <3> QED BY <3>2
  <2>2. \A i \in S : rank[i] \in Nat
    BY <1>2
  <2> HIDE DEF rank
  <2> QED BY <2>1, <2>2
<1>6. \A r \in 0..(n - 1) : \E i \in S : rank[i] = r
  <2> HIDE DEF rank
  <2>1. rank \in Injection(S, 0..(n - 1))
    BY <1>4, <1>5, Fun_IsInj
  <2>2. IsFiniteSet(0..(n - 1)) /\ Cardinality(0..(n - 1)) = n
    <3>1. 0 \in Int /\ n - 1 \in Int /\ (0 > n - 1 <=> n = 0)
      BY <1>1
    <3>2. IsFiniteSet(0..(n - 1)) /\ Cardinality(0..(n - 1)) = IF 0 > n - 1 THEN 0 ELSE n - 1 - 0 + 1
      <4> HIDE DEF n
      <4> QED BY <3>1, FS_Interval
    <3> HIDE DEF n
    <3> QED BY <1>1, <3>1, <3>2
  <2> DEFINE ranks == 0..(n - 1)
  <2>3. rank \in Injection(S, ranks) /\ IsFiniteSet(ranks) /\ Cardinality(ranks) = Cardinality(S)
    BY <2>1, <2>2
  <2> HIDE DEF ranks
  <2>4. rank \in Surjection(S, ranks)
    BY <2>3, FS_Injection
  <2>5. \A r \in ranks : \E i \in S : rank[i] = r
    BY <2>4, Fun_SurjectionProperties
  <2> QED BY <2>5 DEF ranks
<1>7. [i \in low |-> rank[i]] \in Bijection(low, 0..(k - 1))
  <2> DEFINE g == [i \in low |-> rank[i]]
  <2>1. \A i \in S : rank[i] \in 0..(n - 1)
    BY <1>4
  <2> HIDE DEF rank
  <2>2. g \in [low -> 0..(k - 1)]
    BY <1>1, <2>1
  <2>3. \A i, j \in low : g[i] = g[j] => i = j
    BY <1>5
  <2>4. \A r \in 0..(k - 1) : \E i \in low : g[i] = r
    <3>1. SUFFICES ASSUME NEW r \in 0..(k - 1) PROVE \E i \in low : g[i] = r
      OBVIOUS
    <3>2. r \in 0..(n - 1) /\ r < k
      <4> HIDE DEF n
      <4> QED BY <1>1 DEF n
    <3>3. PICK i \in S : rank[i] = r
      BY <1>6, <3>2
    <3> QED BY <3>2, <3>3
  <2> DEFINE ranks == 0..(k - 1)
  <2>5. g \in [low -> ranks] /\ \A r \in ranks : \E i \in low : g[i] = r
    BY <2>2, <2>4
  <2> HIDE DEF g, ranks, low
  <2>6. g \in Injection(low, ranks) /\ g \in Surjection(low, ranks)
    BY <2>3, <2>5, Fun_IsInj, Fun_IsSurj
  <2>7. g \in Bijection(low, ranks)
    BY <2>6 DEF Bijection
  <2> QED BY <2>7 DEF g, ranks
<1>8. Cardinality(0..(k - 1)) = k
  <2>1. 0 \in Int /\ k - 1 \in Int /\ (0 > k - 1 <=> k = 0)
    OBVIOUS
  <2>2. Cardinality(0..(k - 1)) = IF 0 > k - 1 THEN 0 ELSE k - 1 - 0 + 1
    BY <2>1, FS_Interval
  <2> QED BY <2>1, <2>2
<1>9. Cardinality(low) = k
  <2>1. IsFiniteSet(low)
    <3>1. low \in SUBSET S
      OBVIOUS
    <3> HIDE DEF low
    <3> QED BY <3>1, FS_Subset
  <2>2. ExistsBijection(low, 0..(k - 1))
    BY <1>7 DEF ExistsBijection
  <2> HIDE DEF low
  <2> QED BY <1>8, <2>1, <2>2, FS_Bijection
<1>10. low = {i \in S : Cardinality(before[i]) < k}
  OBVIOUS
<1> QED BY <1>9, <1>10

\* A larger number has the larger multiples.
LEMMA MultipleGrows ==
    \A a, b, c \in Nat : a <= b => c * a <= c * b
<1>1. SUFFICES ASSUME NEW a \in Nat, NEW b \in Nat, NEW c \in Nat, a <= b PROVE c * a <= c * b
  OBVIOUS
<1>2. PICK d \in Nat : b = a + d
  <2>1. b - a \in Nat /\ b = a + (b - a)
    BY <1>1
  <2> QED BY <2>1
<1> QED BY <1>2, Distributes

\* What is left of a division in whole parts is shared by at most the entries.
LEMMA RemaindersFit ==
    ASSUME NEW den \in Nat, den > 0, NEW total \in Nat, NEW F \in Nat, NEW R \in Nat, NEW n \in Nat,
           den * total = den * F + R, R <= den * n
    PROVE  total - F \in Nat /\ total - F <= n
<1>1. ASSUME total < F PROVE FALSE
  <2>1. total + 1 <= F /\ total + 1 \in Nat
    BY <1>1
  <2>2. den * (total + 1) <= den * F
    BY <2>1, MultipleGrows
  <2>3. den * (total + 1) = den * total + den * 1 /\ den * 1 = den
    BY Distributes
  <2>4. den * total \in Nat /\ den * F \in Nat
    BY Distributes
  <2> QED BY <2>2, <2>3, <2>4
<1>2. ASSUME total > F + n PROVE FALSE
  <2>1. F + n + 1 <= total /\ F + n + 1 \in Nat /\ F + n \in Nat
    BY <1>2
  <2>2. den * (F + n + 1) <= den * total
    BY <2>1, MultipleGrows
  <2>3. den * (F + n + 1) = den * (F + n) + den * 1 /\ den * (F + n) = den * F + den * n
    BY <2>1, Distributes
  <2>4. den * 1 = den /\ den * total \in Nat /\ den * F \in Nat /\ den * n \in Nat
    BY Distributes
  <2> QED BY <2>2, <2>3, <2>4
<1> QED BY <1>1, <1>2

\* Wants that add up to the whole, den times, are shared out in whole parts to the last one.
LEMMA LargestRemainderCovers ==
    ASSUME NEW ids \in SUBSET Nat, IsFiniteSet(ids), NEW want \in [ids -> Nat],
           NEW den \in Nat, den > 0, NEW total \in Nat, SumFunction(want) = den * total
    PROVE  /\ LargestRemainder(ids, want, den, total) \in [ids -> Nat]
           /\ SumFunction(LargestRemainder(ids, want, den, total)) = total
<1> DEFINE floors == [i \in ids |-> want[i] \div den]
           frac == [i \in ids |-> want[i] % den]
           n == Cardinality(ids)
           F == SumFunction(floors)
           R == SumFunction(frac)
           left == total - F
           ahead(i) == {j \in ids : frac[j] > frac[i] \/ (frac[j] = frac[i] /\ j < i)}
           before == [i \in ids |-> ahead(i)]
           low == {i \in ids : Cardinality(before[i]) < left}
           extra == [i \in ids |-> IF i \in low THEN 1 ELSE 0]
<1>1. ASSUME NEW i \in ids
      PROVE  /\ floors[i] \in Nat /\ frac[i] \in Nat /\ frac[i] <= den
             /\ den * floors[i] + frac[i] = want[i]
  OBVIOUS
<1>2. floors \in [ids -> Nat] /\ frac \in [ids -> Nat] /\ extra \in [ids -> Nat]
  <2>1. floors \in [ids -> Nat]
    BY <1>1
  <2>2. frac \in [ids -> Nat]
    BY <1>1
  <2> QED BY <2>1, <2>2
<1>3. n \in Nat /\ F \in Nat /\ R \in Nat
  <2> HIDE DEF floors, frac
  <2> QED BY <1>2, FS_CardinalityType, SumIsTotal
<1>4. den * total = den * F + R
  <2> DEFINE scaled == [i \in ids |-> den * floors[i]]
  <2>1. scaled \in [ids -> Nat] /\ \A i \in ids : scaled[i] + frac[i] = want[i]
    <3>1. \A i \in ids : den * floors[i] \in Nat
      BY <1>1, Distributes
    <3> HIDE DEF floors, frac
    <3> QED BY <1>1, <3>1
  <2> HIDE DEF floors, frac
  <2>2. SumFunction(scaled) = den * F
    BY <1>2, SumOfScaled
  <2> HIDE DEF scaled
  <2>3. SumFunction([i \in ids |-> scaled[i] + frac[i]]) = SumFunction(scaled) + R
    BY <1>2, <2>1, SumOfBoth
  <2>4. [i \in ids |-> scaled[i] + frac[i]] = want
    BY <2>1
  <2> QED BY <2>2, <2>3, <2>4
<1>5. R <= den * n
  <2> DEFINE whole == [i \in ids |-> den]
  <2> HIDE DEF frac
  <2>1. SumFunction(whole) = den * n
    BY SumOfConstant
  <2> DEFINE slack == [i \in ids |-> den - frac[i]]
  <2>2. slack \in [ids -> Nat] /\ \A i \in ids : frac[i] + slack[i] = den
    BY <1>1, <1>2
  <2> HIDE DEF slack
  <2>3. [i \in ids |-> frac[i] + slack[i]] = whole
    BY <2>2
  <2>4. SumFunction([i \in ids |-> frac[i] + slack[i]]) = R + SumFunction(slack) /\ SumFunction(slack) \in Nat
    BY <1>2, <2>2, SumOfBoth, SumIsTotal
  <2> HIDE DEF whole, R
  <2>5. SumFunction(whole) = R + SumFunction(slack)
    BY ONLY <2>3, <2>4
  <2>6. R \in Nat /\ SumFunction(slack) \in Nat /\ den * n = R + SumFunction(slack)
    BY ONLY <1>3, <2>1, <2>4, <2>5
  <2> QED BY ONLY <2>6
<1>6. left \in Nat /\ left <= n
  <2> HIDE DEF F, R, n
  <2> QED BY <1>3, <1>4, <1>5, RemaindersFit
<1>7. Cardinality(low) = left
  <2> HIDE DEF frac
  <2>1. before \in [ids -> SUBSET ids] /\ \A i \in ids : frac[i] \in Nat /\ i \in Nat
    BY <1>2
  <2>2. \A i \in ids : i \notin before[i]
    BY <2>1
  <2>3. \A i, j \in ids : i # j => i \in before[j] \/ j \in before[i]
    BY <2>1
  <2>4. ASSUME NEW i \in ids, NEW j \in before[i], NEW k \in before[j] PROVE k \in before[i]
    <3>1. /\ j \in ids /\ (frac[j] > frac[i] \/ (frac[j] = frac[i] /\ j < i))
          /\ k \in ids /\ (frac[k] > frac[j] \/ (frac[k] = frac[j] /\ k < j))
      BY <2>1
    <3>2. frac[k] > frac[i] \/ (frac[k] = frac[i] /\ k < i)
      BY <2>1, <3>1
    <3> QED BY <3>1, <3>2
  <2> HIDE DEF before, left, n
  <2>5. left \in Nat /\ left <= Cardinality(ids)
    BY <1>6 DEF n
  <2> QED BY <2>1, <2>2, <2>3, <2>4, <2>5, RanksAreCounted
<1>8. SumFunction(extra) = left
  <2>1. low \in SUBSET ids
    OBVIOUS
  <2> HIDE DEF low
  <2> QED BY <1>7, <2>1, SumOfMembers
<1> DEFINE shares == [i \in ids |-> floors[i] + extra[i]]
<1>9. SumFunction(shares) = F + left /\ shares \in [ids -> Nat]
  <2> HIDE DEF floors, extra
  <2>1. SumFunction(shares) = F + SumFunction(extra)
    BY <1>2, SumOfBoth
  <2> QED BY <1>2, <1>8, <2>1
<1>10. LargestRemainder(ids, want, den, total) = shares
  <2>1. Restrict(floors, ids) = floors
    BY DEF Restrict
  <2>2. total - SumOver(floors, ids) = left
    BY <2>1 DEF SumOver
  <2>3. LargestRemainder(ids, want, den, total) =
            [i \in ids |-> floors[i] + IF Cardinality(ahead(i)) < left THEN 1 ELSE 0]
    BY <2>2 DEF LargestRemainder
  <2>4. \A i \in ids : (IF Cardinality(ahead(i)) < left THEN 1 ELSE 0) = extra[i]
    <3> HIDE DEF left, frac
    <3> QED OBVIOUS
  <2> HIDE DEF floors, extra, left, frac
  <2> QED BY <2>3, <2>4
<1>11. F + left = total
  <2> HIDE DEF F
  <2> QED BY <1>3
<1> QED BY <1>9, <1>10, <1>11

-----------------------------------------------------------------------------
(* Shares                                                                  *)

\* Lane ids are numbers, and finitely many.
LEMMA LoopIdsFinite ==
    ASSUME NEW S \in SUBSET LoopIds
    PROVE  /\ S \subseteq Nat /\ IsFiniteSet(S) /\ Cardinality(S) \in Nat
           /\ S # {} => Cardinality(S) > 0
<1>1. IsFiniteSet(LoopIds) /\ LoopIds \subseteq Nat
  <2>1. 1 \in Int /\ MaxLanes \in Int
    BY CanvasAssumption
  <2> QED BY <2>1, FS_Interval DEF LoopIds
<1>2. IsFiniteSet(S)
  BY <1>1, FS_Subset
<1>3. Cardinality(S) \in Nat /\ (Cardinality(S) = 0 <=> S = {})
  BY <1>2, FS_CardinalityType, FS_EmptySet
<1>4. S # {} => Cardinality(S) > 0
  BY <1>3
<1>5. S \subseteq Nat
  BY <1>1
<1> QED BY <1>2, <1>3, <1>4, <1>5

\* The even share of each of a set of lanes is wanted as often as there are lanes.
LEMMA EvenSharesCover ==
    ASSUME NEW ids \in SUBSET LoopIds, ids # {}, NEW total \in Nat
    PROVE  /\ LargestRemainder(ids, [i \in ids |-> total], Cardinality(ids), total) \in [ids -> Nat]
           /\ SumFunction(LargestRemainder(ids, [i \in ids |-> total], Cardinality(ids), total)) = total
<1> DEFINE n == Cardinality(ids)
           want == [i \in ids |-> total]
<1>1. ids \in SUBSET Nat /\ IsFiniteSet(ids) /\ n \in Nat /\ n > 0
  BY LoopIdsFinite
<1>2. want \in [ids -> Nat]
  OBVIOUS
<1>3. SumFunction(want) = n * total
  <2>1. SumFunction(want) = total * n
    BY <1>1, SumOfConstant
  <2>2. total * n = n * total
    <3> HIDE DEF n
    <3> QED BY <1>1
  <2> QED BY <2>1, <2>2
<1> HIDE DEF want, n
<1>4. /\ LargestRemainder(ids, want, n, total) \in [ids -> Nat]
      /\ SumFunction(LargestRemainder(ids, want, n, total)) = total
  BY <1>1, <1>2, <1>3, LargestRemainderCovers
<1> QED BY <1>4 DEF want, n

\* Products of three, in another order.
LEMMA Commutes3 ==
    \A a, b, c \in Nat : a * b * c = (b * c) * a /\ a * b * c = b * a * c /\ a * b * c \in Nat
  OBVIOUS

\* Whatever the shares were, normalised they cover the lanes and make a whole.
LEMMA NormalizedCovers ==
    ASSUME NEW ids \in SUBSET LoopIds, ids # {},
           NEW before \in SUBSET LoopIds, NEW prev \in [before -> Nat]
    PROVE  /\ normalizeAllocations(prev, ids) \in [ids -> Nat]
           /\ SumFunction(normalizeAllocations(prev, ids)) = Total
<1> DEFINE n == Cardinality(ids)
           existing == ids \cap DOMAIN prev
           m == Cardinality(existing)
           prior == SumOver(prev, existing)
           want == [i \in ids |-> IF i \in existing THEN prev[i] * Total * m ELSE prior * Total]
           kept == Restrict(prev, existing)
<1>1. Total \in Nat
  BY CanvasAssumption
<1>2. ids \in SUBSET Nat /\ IsFiniteSet(ids) /\ n \in Nat /\ n > 0
  BY LoopIdsFinite
<1>3. /\ existing \in SUBSET LoopIds /\ existing \in SUBSET ids
      /\ kept \in [existing -> Nat] /\ \A i \in existing : kept[i] = prev[i]
  BY DEF Restrict
<1>4. IsFiniteSet(existing) /\ m \in Nat
  BY <1>3, LoopIdsFinite
<1>5. prior = SumFunction(kept) /\ prior \in Nat
  <2>1. prior = SumFunction(kept)
    BY DEF SumOver
  <2> HIDE DEF kept, existing, prior
  <2> QED BY <1>3, <1>4, <2>1, SumIsTotal
<1>6. normalizeAllocations(prev, ids) =
          IF prior = 0 THEN LargestRemainder(ids, [i \in ids |-> Total], n, Total)
          ELSE LargestRemainder(ids, want, prior * n, Total)
  BY DEF normalizeAllocations
<1>7. CASE prior = 0
  <2> HIDE DEF prior, want
  <2> QED BY <1>1, <1>6, <1>7, EvenSharesCover
<1>8. CASE prior # 0
  <2> HIDE DEF n, m, prior, existing, kept
  <2>1. want \in [ids -> Nat]
    <3>1. ASSUME NEW i \in ids
          PROVE  (IF i \in existing THEN prev[i] * Total * m ELSE prior * Total) \in Nat
      <4>1. i \in existing => prev[i] \in Nat
        BY <1>3
      <4>2. i \in existing => prev[i] * Total * m \in Nat
        BY <1>1, <1>4, <4>1, Commutes3
      <4>3. prior * Total \in Nat
        BY <1>1, <1>5, Distributes
      <4> QED BY <4>2, <4>3
    <3> QED BY <3>1
  <2>2. SumFunction(Restrict(want, existing)) = (Total * m) * prior
    <3>1. Total * m \in Nat
      BY <1>1, <1>4, Distributes
    <3>2. SumFunction([i \in existing |-> (Total * m) * kept[i]]) = (Total * m) * prior
      BY <1>3, <1>4, <1>5, <3>1, SumOfScaled
    <3>3. \A i \in existing : (Total * m) * kept[i] = want[i]
      <4>1. ASSUME NEW i \in existing PROVE (Total * m) * kept[i] = prev[i] * Total * m
        <5>1. kept[i] = prev[i] /\ kept[i] \in Nat
          BY <1>3
        <5> QED BY <1>1, <1>4, <5>1, Commutes3
      <4>2. \A i \in existing : want[i] = prev[i] * Total * m
        BY <1>3
      <4> HIDE DEF want
      <4> QED BY <4>1, <4>2
    <3>4. [i \in existing |-> (Total * m) * kept[i]] = Restrict(want, existing)
      <4> HIDE DEF want
      <4> QED BY <3>3 DEF Restrict
    <3> QED BY <3>2, <3>4
  <2>3. SumFunction(Restrict(want, ids \ existing)) = (prior * Total) * (n - m)
    <3>1. Restrict(want, ids \ existing) = [i \in ids \ existing |-> prior * Total]
      BY DEF Restrict
    <3>2. prior * Total \in Nat
      BY <1>1, <1>5, Distributes
    <3>3. IsFiniteSet(ids \ existing) /\ Cardinality(ids \ existing) = n - m
      <4>1. ids \cap existing = existing
        BY <1>3
      <4> QED BY <1>2, <4>1, FS_Difference DEF n, m
    <3> DEFINE rest == ids \ existing
               c == prior * Total
    <3> HIDE DEF rest, c
    <3>4. SumFunction([i \in rest |-> c]) = c * Cardinality(rest)
      BY <3>2, <3>3, SumOfConstant DEF rest, c
    <3> QED BY <3>1, <3>3, <3>4 DEF rest, c
  <2>4. m <= n
    BY <1>2, <1>3, FS_Subset DEF n, m
  <2>5. SumFunction(want) = (prior * n) * Total
    <3> HIDE DEF want
    <3>1. SumFunction(want) =
              SumFunction(Restrict(want, existing)) + SumFunction(Restrict(want, ids \ existing))
      BY <1>2, <1>3, <2>1, SumOfParts
    <3>2. SumFunction(want) = (Total * m) * prior + (prior * Total) * (n - m)
      BY ONLY <2>2, <2>3, <3>1
    <3>3. (Total * m) * prior = (prior * Total) * m
      BY <1>1, <1>4, <1>5, Commutes3
    <3>4. (prior * Total) * m + (prior * Total) * (n - m) = (prior * Total) * n
      <4>1. n - m \in Nat /\ m + (n - m) = n
        BY <1>2, <1>4, <2>4
      <4>2. prior * Total \in Nat
        BY <1>1, <1>5, Distributes
      <4> QED BY <1>4, <4>1, <4>2, Distributes
    <3>5. (prior * Total) * n = (prior * n) * Total
      BY <1>1, <1>2, <1>5
    <3> QED BY <3>2, <3>3, <3>4, <3>5
  <2>6. prior * n \in Nat /\ prior * n > 0
    BY <1>2, <1>5, <1>8
  <2>7. /\ LargestRemainder(ids, want, prior * n, Total) \in [ids -> Nat]
        /\ SumFunction(LargestRemainder(ids, want, prior * n, Total)) = Total
    <3> HIDE DEF want
    <3> DEFINE den == prior * n
    <3>1. den \in Nat /\ den > 0 /\ SumFunction(want) = den * Total
      BY <2>5, <2>6
    <3> HIDE DEF den
    <3>2. /\ LargestRemainder(ids, want, den, Total) \in [ids -> Nat]
          /\ SumFunction(LargestRemainder(ids, want, den, Total)) = Total
      BY <1>1, <1>2, <2>1, <3>1, LargestRemainderCovers
    <3> QED BY <3>2 DEF den
  <2> HIDE DEF want
  <2> QED BY <1>6, <1>8, <2>7
<1> QED BY <1>7, <1>8

\* A share set by the user leaves the rest to the other lanes: still a whole.
LEMMA SetShareCovers ==
    ASSUME NEW p, DOMAIN p.lanes \in SUBSET LoopIds, p.alloc \in [DOMAIN p.lanes -> Nat],
           NEW l \in DOMAIN p.lanes, DOMAIN p.lanes \ {l} # {}, NEW bps \in 0..Total,
           NEW q, q = setAllocation(p, l, bps).alloc,
           p = [lanes |-> p.lanes, enabled |-> p.enabled, alloc |-> p.alloc]
    PROVE  q \in [DOMAIN p.lanes -> Nat] /\ SumFunction(q) = Total
<1> DEFINE ids == DOMAIN p.lanes
           others == ids \ {l}
           kept == Restrict(p.alloc, others)
           prior == SumOver(p.alloc, others)
           rest == Total - bps
           want == [i \in others |-> p.alloc[i] * rest]
           shares == IF prior > 0 THEN LargestRemainder(others, want, prior, rest)
                     ELSE LargestRemainder(others, [i \in others |-> rest], Cardinality(others), rest)
<1>1. Total \in Nat /\ bps \in Nat /\ rest \in Nat /\ rest + bps = Total
  BY CanvasAssumption
<1>2. /\ others \in SUBSET LoopIds /\ others \in SUBSET Nat /\ IsFiniteSet(others) /\ others # {}
      /\ l \notin others /\ ids = others \cup {l}
  BY LoopIdsFinite
<1>3. kept \in [others -> Nat] /\ \A i \in others : kept[i] = p.alloc[i]
  BY DEF Restrict
<1>4. prior = SumFunction(kept) /\ prior \in Nat
  <2>1. prior = SumFunction(kept)
    BY DEF SumOver
  <2> HIDE DEF kept, others, prior
  <2> QED BY <1>2, <1>3, <2>1, SumIsTotal
<1>5. q = [i \in ids |-> IF i = l THEN bps ELSE shares[i]]
  BY DEF setAllocation
<1>6. shares \in [others -> Nat] /\ SumFunction(shares) = rest
  <2> HIDE DEF prior, rest, others, kept
  <2>1. CASE prior > 0
    <3>1. want \in [others -> Nat] /\ want = [i \in others |-> rest * kept[i]]
      <4>1. ASSUME NEW i \in others PROVE p.alloc[i] * rest \in Nat /\ p.alloc[i] * rest = rest * kept[i]
        <5>1. kept[i] = p.alloc[i] /\ kept[i] \in Nat
          BY <1>3
        <5> QED BY <1>1, <5>1, Distributes
      <4> QED BY <4>1
    <3>2. SumFunction([i \in others |-> rest * kept[i]]) = rest * prior
      BY <1>1, <1>2, <1>3, <1>4, SumOfScaled
    <3>3. rest * prior = prior * rest
      BY <1>1, <1>4
    <3> HIDE DEF want
    <3>4. SumFunction(want) = prior * rest
      BY <3>1, <3>2, <3>3
    <3>5. /\ LargestRemainder(others, want, prior, rest) \in [others -> Nat]
          /\ SumFunction(LargestRemainder(others, want, prior, rest)) = rest
      <4>1. /\ others \in SUBSET Nat /\ IsFiniteSet(others) /\ want \in [others -> Nat]
            /\ prior \in Nat /\ prior > 0 /\ rest \in Nat /\ SumFunction(want) = prior * rest
        BY <1>1, <1>2, <1>4, <2>1, <3>1, <3>4
      <4> QED BY ONLY <4>1, LargestRemainderCovers
    <3> QED BY <2>1, <3>5
  <2>2. CASE ~(prior > 0)
    <3> HIDE DEF want
    <3> QED BY <1>1, <1>2, <2>2, EvenSharesCover
  <2> QED BY <2>1, <2>2
<1> HIDE DEF shares, others, rest, prior, kept
<1>7. /\ q \in [ids -> Nat] /\ q[l] = bps
      /\ \A i \in others : shares[i] = q[i]
  <2>1. \A i \in ids : (IF i = l THEN bps ELSE shares[i]) \in Nat
    BY <1>1, <1>2, <1>6
  <2>2. l \in ids
    OBVIOUS
  <2> HIDE DEF ids
  <2> QED BY <1>2, <1>5, <2>1, <2>2
<1>8. SumFunction(q) = SumFunction(shares) + q[l]
  <2>1. q \in [others \cup {l} -> Nat]
    <3> HIDE DEF ids
    <3> QED BY <1>2, <1>7
  <2>2. /\ IsFiniteSet(others) /\ l \notin others /\ shares \in [others -> Nat]
        /\ \A i \in others : shares[i] = q[i]
    BY <1>2, <1>6, <1>7
  <2> QED BY ONLY <2>1, <2>2, SumOfOneMore
<1> QED BY <1>1, <1>6, <1>7, <1>8

-----------------------------------------------------------------------------
(* Portfolios                                                              *)

IsLane(lane) ==
    lane = [keys |-> lane.keys, market |-> lane.market] /\ lane.market \in Rows \cup {NoMarket}

HoldsLanes(ls) ==
    /\ ls = [l \in DOMAIN ls |-> ls[l]] /\ DOMAIN ls \subseteq LoopIds /\ DOMAIN ls # {}
    /\ \A l \in DOMAIN ls : IsLane(ls[l])

\* A portfolio the user may be looking at, or go back to.
Sound(p) ==
    /\ p = [lanes |-> p.lanes, enabled |-> p.enabled, alloc |-> p.alloc]
    /\ HoldsLanes(p.lanes)
    /\ p.enabled = (Cardinality(DOMAIN p.lanes) >= 2)
    /\ p.alloc \in [DOMAIN p.lanes -> Nat]
    /\ SumFunction(p.alloc) = Total

\* Wherever lanes come or go, the orchestrator is put right.
LEMMA RuleIsSound ==
    ASSUME NEW ls, HoldsLanes(ls), NEW before \in SUBSET LoopIds, NEW prev \in [before -> Nat]
    PROVE  Sound(withOrchestratorRule(ls, prev))
<1> DEFINE p == withOrchestratorRule(ls, prev)
<1>1. /\ p.lanes = ls /\ p.enabled = (Cardinality(DOMAIN ls) >= 2)
      /\ p.alloc = normalizeAllocations(prev, DOMAIN ls)
      /\ p = [lanes |-> p.lanes, enabled |-> p.enabled, alloc |-> p.alloc]
  BY DEF withOrchestratorRule
<1>2. DOMAIN ls \in SUBSET LoopIds /\ DOMAIN ls # {}
  BY DEF HoldsLanes
<1>3. /\ normalizeAllocations(prev, DOMAIN ls) \in [DOMAIN ls -> Nat]
      /\ SumFunction(normalizeAllocations(prev, DOMAIN ls)) = Total
  BY <1>2, NormalizedCovers
<1> HIDE DEF p
<1>4. Sound(p)
  BY <1>1, <1>3 DEF Sound
<1> QED BY <1>4 DEF p

\* A portfolio with one more lane is sound, a first one included.
LEMMA AddedIsSound ==
    ASSUME NEW p, (p.lanes = <<>> /\ p.alloc = <<>>) \/ Sound(p),
           newLoopId(DOMAIN p.lanes) \in LoopIds
    PROVE  Sound(addLoop(p))
<1> DEFINE id == newLoopId(DOMAIN p.lanes)
           ls == [l \in DOMAIN p.lanes \cup {id} |-> IF l = id THEN EmptyLane ELSE p.lanes[l]]
<1>1. /\ DOMAIN p.lanes \subseteq LoopIds /\ p.alloc \in [DOMAIN p.lanes -> Nat]
      /\ \A l \in DOMAIN p.lanes : IsLane(p.lanes[l])
  <2>1. CASE p.lanes = <<>> /\ p.alloc = <<>>
    <3>1. DOMAIN p.lanes = {} /\ DOMAIN p.alloc = {}
      BY <2>1
    <3>2. p.alloc \in [{} -> Nat]
      BY <2>1
    <3> QED BY <3>1, <3>2
  <2>2. CASE Sound(p)
    BY <2>2 DEF Sound, HoldsLanes
  <2> QED BY <2>1, <2>2
<1>2. IsLane(EmptyLane)
  BY DEF IsLane, EmptyLane
<1>3. HoldsLanes(ls)
  <2> HIDE DEF id
  <2>1. DOMAIN ls = DOMAIN p.lanes \cup {id} /\ id \in LoopIds
    BY DEF id
  <2>2. \A l \in DOMAIN ls : ls[l] = IF l = id THEN EmptyLane ELSE p.lanes[l]
    OBVIOUS
  <2>3. ls = [l \in DOMAIN ls |-> ls[l]]
    OBVIOUS
  <2> HIDE DEF ls
  <2>4. \A l \in DOMAIN ls : IsLane(ls[l])
    BY <1>1, <1>2, <2>1, <2>2
  <2> QED BY <1>1, <2>1, <2>3, <2>4 DEF HoldsLanes
<1>4. addLoop(p) = withOrchestratorRule(ls, p.alloc)
  BY DEF addLoop
<1> HIDE DEF ls
<1>5. Sound(withOrchestratorRule(ls, p.alloc))
  <2>1. DOMAIN p.lanes \in SUBSET LoopIds
    BY <1>1
  <2> QED BY <1>1, <1>3, <2>1, RuleIsSound
<1> QED BY <1>4, <1>5

\* A portfolio without one of its several lanes is sound.
LEMMA RemovedIsSound ==
    ASSUME NEW p, Sound(p), NEW l \in DOMAIN p.lanes, Cardinality(DOMAIN p.lanes) > 1
    PROVE  Sound(removeLoop(p, l))
<1> DEFINE ids == DOMAIN p.lanes \ {l}
           ls == Restrict(p.lanes, ids)
           prev == Restrict(p.alloc, DOMAIN p.alloc \ {l})
<1>1. /\ DOMAIN p.lanes \subseteq LoopIds /\ p.alloc \in [DOMAIN p.lanes -> Nat]
      /\ \A k \in DOMAIN p.lanes : IsLane(p.lanes[k])
  BY DEF Sound, HoldsLanes
<1>2. ids # {}
  <2>1. ids = {} => DOMAIN p.lanes = {l}
    OBVIOUS
  <2>2. Cardinality({l}) = 1
    BY FS_Singleton
  <2> QED BY <2>1, <2>2
<1>3. HoldsLanes(ls)
  <2>1. DOMAIN ls = ids /\ (\A k \in ids : ls[k] = p.lanes[k]) /\ ls = [k \in DOMAIN ls |-> ls[k]]
    BY DEF Restrict
  <2> HIDE DEF ls
  <2> QED BY <1>1, <1>2, <2>1 DEF HoldsLanes
<1>4. ids \in SUBSET LoopIds /\ prev \in [ids -> Nat]
  BY <1>1 DEF Restrict
<1>5. removeLoop(p, l) = withOrchestratorRule(ls, prev)
  BY DEF removeLoop
<1> HIDE DEF ls, prev, ids
<1> QED BY <1>3, <1>4, <1>5, RuleIsSound

\* What is seated on a lane touches no share.
LEMMA LaneSetIsSound ==
    ASSUME NEW p, Sound(p), NEW l \in DOMAIN p.lanes, NEW lane, IsLane(lane)
    PROVE  Sound(LaneSet(p, l, lane))
<1> DEFINE q == LaneSet(p, l, lane)
<1>1. /\ q.alloc = p.alloc /\ q.enabled = p.enabled /\ q.lanes = [p.lanes EXCEPT ![l] = lane]
      /\ q = [lanes |-> q.lanes, enabled |-> q.enabled, alloc |-> q.alloc]
  BY DEF LaneSet, Sound
<1> HIDE DEF q
<1>2. DOMAIN q.lanes = DOMAIN p.lanes
  BY <1>1
<1>3. HoldsLanes(q.lanes)
  BY <1>1 DEF Sound, HoldsLanes
<1>4. Sound(q)
  BY <1>1, <1>2, <1>3 DEF Sound
<1> QED BY <1>4 DEF q

\* A share is set only among two lanes or more.
LEMMA SharedIsSound ==
    ASSUME NEW p, Sound(p), NEW l \in DOMAIN p.lanes, p.enabled, NEW bps \in 0..Total
    PROVE  Sound(setAllocation(p, l, bps))
<1> DEFINE q == setAllocation(p, l, bps)
<1>1. /\ q.lanes = p.lanes /\ q.enabled = p.enabled
      /\ q = [lanes |-> q.lanes, enabled |-> q.enabled, alloc |-> q.alloc]
  <2>1. PICK shares : q = [p EXCEPT !.alloc = shares]
    BY DEF setAllocation
  <2>2. p = [lanes |-> p.lanes, enabled |-> p.enabled, alloc |-> p.alloc]
    BY DEF Sound
  <2> HIDE DEF q
  <2> QED BY <2>1, <2>2
<1>2. DOMAIN p.lanes \ {l} # {}
  <2>1. DOMAIN p.lanes \ {l} = {} => DOMAIN p.lanes = {l}
    OBVIOUS
  <2>2. Cardinality({l}) = 1
    BY FS_Singleton
  <2>3. Cardinality(DOMAIN p.lanes) >= 2
    BY Zenon DEF Sound
  <2> QED BY <2>1, <2>2, <2>3
<1>3. /\ DOMAIN p.lanes \in SUBSET LoopIds /\ p.alloc \in [DOMAIN p.lanes -> Nat]
      /\ p = [lanes |-> p.lanes, enabled |-> p.enabled, alloc |-> p.alloc]
  BY DEF Sound, HoldsLanes
<1>4. q.alloc \in [DOMAIN p.lanes -> Nat] /\ SumFunction(q.alloc) = Total
  BY <1>2, <1>3, SetShareCovers
<1> HIDE DEF q
<1>5. Sound(q)
  BY <1>1, <1>4 DEF Sound
<1> QED BY <1>5 DEF q

\* The first portfolio, and the one the New key starts.
LEMMA InitialIsSound == Sound(InitialPortfolio)
<1>1. EmptyPortfolio.lanes = <<>> /\ EmptyPortfolio.alloc = <<>>
  BY DEF EmptyPortfolio
<1>2. newLoopId(DOMAIN EmptyPortfolio.lanes) = 1
  <2>1. {0} \cup DOMAIN EmptyPortfolio.lanes = {0}
    BY <1>1
  <2>2. Max({0}) = 0
    BY DEF Max
  <2> QED BY <2>1, <2>2 DEF newLoopId
<1>3. 1 \in LoopIds
  BY CanvasAssumption DEF LoopIds
<1> QED BY <1>1, <1>2, <1>3, AddedIsSound DEF InitialPortfolio

\* A lane with a module more, a module less, or a market seated is a lane.
LEMMA EditedIsLane ==
    ASSUME NEW lane, IsLane(lane)
    PROVE  /\ \A key : IsLane(With(lane, key)) /\ IsLane(Without(lane, key))
           /\ \A m \in Rows : IsLane(seatMarket(lane, m))
<1>1. ASSUME NEW key PROVE IsLane(With(lane, key)) /\ IsLane(Without(lane, key))
  BY DEF IsLane, With, Without
<1>2. ASSUME NEW m \in Rows PROVE IsLane(seatMarket(lane, m))
  <2> DEFINE seated == [keys |-> lane.keys \cup {"liquidity-source"}, market |-> m]
  <2>1. seatMarket(lane, m) = [seated EXCEPT !.keys = @ \ modulesRuledOutByMarket(seated)]
    BY DEF seatMarket
  <2> QED BY <2>1 DEF IsLane
<1> QED BY <1>1, <1>2

-----------------------------------------------------------------------------
(* The portfolio, and the ones to go back to                               *)

UndoSound == \E T : undoStack \in Seq(T) /\ \A p \in T : Sound(p)

CanvasInv == Sound(portfolio) /\ UndoSound

\* A handler that commits a sound portfolio leaves one.
LEMMA CommitIsSound ==
    ASSUME NEW p, Sound(p), NEW dropped, Commits(p, dropped)
    PROVE  Sound(portfolio')
  BY DEF Commits

\* An add that lands seats its module on the lane, if the lane is there.
LEMMA AddLandsSound ==
    ASSUME CanvasInv, NEW l, NEW key, NEW dropped, NEW writes, AddLands(l, key, dropped, writes)
    PROVE  Sound(portfolio')
<1>1. CASE l \in Ids /\ (key \notin lanes[l].keys \/ writes)
  <2>1. Commits(LaneSet(portfolio, l, With(lanes[l], key)), dropped)
    BY <1>1 DEF AddLands
  <2>2. l \in DOMAIN portfolio.lanes /\ IsLane(portfolio.lanes[l])
    BY <1>1 DEF CanvasInv, Sound, HoldsLanes, Ids, lanes
  <2>3. Sound(LaneSet(portfolio, l, With(lanes[l], key)))
    BY <2>2, EditedIsLane, LaneSetIsSound DEF CanvasInv, lanes
  <2> QED BY <2>1, <2>3, CommitIsSound
<1>2. CASE ~(l \in Ids /\ (key \notin lanes[l].keys \/ writes))
  BY <1>2 DEF AddLands, DropsQuotes, CanvasInv
<1> QED BY <1>1, <1>2

\* The stack of a press holds what was on it and the portfolio of before.
LEMMA PushedIsSound ==
    ASSUME CanvasInv, pushUndo PROVE UndoSound'
<1>1. PICK T : undoStack \in Seq(T) /\ \A p \in T : Sound(p)
  BY DEF CanvasInv, UndoSound
<1> DEFINE U == T \cup {portfolio}
           stack == Append(undoStack, portfolio)
<1>2. undoStack \in Seq(U) /\ portfolio \in U /\ \A p \in U : Sound(p)
  BY <1>1, SeqDef DEF CanvasInv
<1> HIDE DEF U
<1>3. stack \in Seq(U) /\ stack # <<>>
  BY <1>2
<1> HIDE DEF stack
<1>4. undoStack' \in Seq(U)
  BY <1>3 DEF pushUndo, stack
<1> QED BY <1>2, <1>4 DEF UndoSound

\* Every action leaves a sound portfolio and sound ones to go back to.
LEMMA CanvasStep == ASSUME CanvasInv, [Next]_vars PROVE CanvasInv'
<1>1. Sound(portfolio) /\ UndoSound
  BY DEF CanvasInv
<1>2. ASSUME NEW l \in Ids PROVE l \in DOMAIN portfolio.lanes /\ IsLane(lanes[l])
  BY <1>1 DEF Ids, lanes, Sound, HoldsLanes
<1>3. ASSUME UNCHANGED undoStack PROVE UndoSound'
  BY <1>1, <1>3 DEF UndoSound
<1>4. ASSUME UNCHANGED portfolio PROVE Sound(portfolio')
  BY <1>1, <1>4
<1>5. CASE AddLane
  <2>1. Sound(addLoop(portfolio))
    BY <1>1, <1>5, AddedIsSound DEF AddLane, Ids, lanes
  <2> QED BY <1>3, <1>5, <2>1, CommitIsSound DEF AddLane, CanvasInv
<1>6. CASE undo
  <2>1. PICK T : undoStack \in Seq(T) /\ \A p \in T : Sound(p)
    BY <1>1 DEF UndoSound
  <2>2. undoStack # <<>> /\ undoStack' = Front(undoStack) /\ Commits(Last(undoStack), {})
    BY <1>6 DEF undo
  <2>3. Len(undoStack) \in Nat /\ Len(undoStack) > 0
    BY <2>1, <2>2
  <2>4. Last(undoStack) \in T
    BY <2>1, <2>3 DEF Last
  <2>5. Front(undoStack) \in Seq(T)
    BY <2>1, <2>3 DEF Front
  <2>6. UndoSound'
    BY <2>1, <2>2, <2>5 DEF UndoSound
  <2> QED BY <2>1, <2>2, <2>4, <2>6, CommitIsSound DEF CanvasInv
<1>7. CASE composeAnother
  BY <1>1, <1>7, PushedIsSound, InitialIsSound, CommitIsSound DEF composeAnother, CanvasInv
<1>8. ASSUME NEW l \in LoopIds, RemoveLane(l) PROVE CanvasInv'
  <2>1. l \in DOMAIN portfolio.lanes /\ Cardinality(DOMAIN portfolio.lanes) > 1
    BY <1>8 DEF RemoveLane, Ids, lanes
  <2>2. Sound(removeLoop(portfolio, l))
    BY <1>1, <2>1, RemovedIsSound
  <2> QED BY <1>8, <2>2, PushedIsSound, CommitIsSound DEF RemoveLane, CanvasInv
<1>9. ASSUME NEW l \in LoopIds, installDefaults(l) PROVE CanvasInv'
  BY <1>4, <1>9, PushedIsSound DEF installDefaults, CanvasInv
<1>10. ASSUME NEW l \in LoopIds, Requote(l) PROVE CanvasInv'
  BY <1>3, <1>4, <1>10 DEF Requote, DropsQuotes, CanvasInv
<1>11. ASSUME NEW l \in LoopIds, NEW m \in Rows, onSelectMarket(l, m) PROVE CanvasInv'
  <2>1. l \in Ids
    BY <1>11 DEF onSelectMarket
  <2>2. Sound(LaneSet(portfolio, l, seatMarket(lanes[l], m)))
    BY <1>1, <1>2, <2>1, EditedIsLane, LaneSetIsSound
  <2>3. Commits(LaneSet(portfolio, l, seatMarket(lanes[l], m)), {l})
    BY <1>11 DEF onSelectMarket
  <2>4. UndoSound'
    <3>1. UNCHANGED undoStack \/ pushUndo
      BY <1>11 DEF onSelectMarket
    <3> QED BY <1>3, <3>1, PushedIsSound
  <2> QED BY <2>2, <2>3, <2>4, CommitIsSound DEF CanvasInv
<1>12. ASSUME NEW l \in LoopIds, NEW key \in Keys, composeAdd(l, key) PROVE CanvasInv'
  BY <1>3, <1>4, <1>12 DEF composeAdd, CanvasInv
<1>13. ASSUME NEW l \in LoopIds, NEW key \in Keys, onAddModule(l, key) PROVE CanvasInv'
  <2>1. l \in Ids
    BY <1>13 DEF onAddModule
  <2>2. Sound(LaneSet(portfolio, l, With(lanes[l], key)))
    BY <1>1, <1>2, <2>1, EditedIsLane, LaneSetIsSound
  <2> QED BY <1>3, <1>13, <2>2, CommitIsSound DEF onAddModule, CanvasInv
<1>14. ASSUME NEW l \in LoopIds, NEW key \in Keys, composeEject(l, key) PROVE CanvasInv'
  BY <1>4, <1>14, PushedIsSound DEF composeEject, CanvasInv
<1>15. ASSUME NEW l \in LoopIds, NEW bps \in Shares, AllocationSet(l, bps) PROVE CanvasInv'
  <2>1. l \in Ids /\ portfolio.enabled
    BY <1>15 DEF AllocationSet
  <2>2. Sound(setAllocation(portfolio, l, bps))
    BY <1>1, <1>2, <2>1, SharedIsSound, CanvasAssumption
  <2> QED BY <1>3, <1>15, <2>2, CommitIsSound DEF AllocationSet, CanvasInv
<1>16. CASE BeatAdds
  BY <1>3, <1>16, AddLandsSound DEF BeatAdds, CanvasInv
<1>17. CASE BeatEjects
  <2>1. Sound(portfolio')
    <3>1. CASE beat.loopId \in Ids
      <4>1. Sound(LaneSet(portfolio, beat.loopId, Without(lanes[beat.loopId], beat.key)))
        BY <1>1, <1>2, <3>1, EditedIsLane, LaneSetIsSound
      <4> QED BY <1>17, <3>1, <4>1, CommitIsSound DEF BeatEjects
    <3>2. CASE beat.loopId \notin Ids
      BY <1>4, <1>17, <3>2 DEF BeatEjects, DropsQuotes
    <3> QED BY <3>1, <3>2
  <2> QED BY <1>3, <1>17, <2>1 DEF BeatEjects, CanvasInv
<1>18. CASE InstallLands
  BY <1>3, <1>18, AddLandsSound DEF InstallLands, CanvasInv
<1>19. ASSUME NEW l \in LoopIds, TimerFires(l) PROVE CanvasInv'
  BY <1>3, <1>4, <1>19 DEF TimerFires, CanvasInv
<1>20. ASSUME NEW l \in LoopIds, NEW terms \in AllTerms, Answered(l, terms) PROVE CanvasInv'
  BY <1>3, <1>4, <1>20 DEF Answered, CanvasInv
<1>21. CASE UNCHANGED vars
  BY <1>3, <1>4, <1>21 DEF vars, CanvasInv
<1>22. CASE User
  BY <1>5, <1>6, <1>7, <1>8, <1>9, <1>10, <1>11, <1>12, <1>13, <1>14, <1>15, <1>22 DEF User
<1>23. CASE Timers
  BY <1>16, <1>17, <1>18, <1>19, <1>20, <1>23 DEF Timers
<1> QED BY <1>21, <1>22, <1>23 DEF Next

\* Nothing on the stack at first.
LEMMA CanvasStart == Init => CanvasInv
<1>1. <<>> \in Seq({})
  OBVIOUS
<1> QED BY <1>1, InitialIsSound DEF Init, CanvasInv, UndoSound

\* The canvas keeps its portfolios sound.
LEMMA CanvasInvariance == Spec => []CanvasInv
  BY CanvasStart, CanvasStep, PTL DEF Spec

(***************************************************************************)
(* The orchestrator is in place exactly from the second lane on, and its   *)
(* shares cover the lanes and make a whole, whatever lanes are added and   *)
(* removed, shares set and steps undone: what normalizeAllocations,        *)
(* setAllocation and largestRemainder of graph-ops.ts round is never lost. *)
(***************************************************************************)
THEOREM SharesStayWhole == Spec => []AllocationsCover
<1>1. ASSUME CanvasInv PROVE AllocationsCover
  <2>1. portfolio.enabled <=> Cardinality(Ids) >= 2
    BY <1>1, Zenon DEF CanvasInv, Sound, Ids, lanes
  <2>2. DOMAIN portfolio.alloc = Ids /\ portfolio.alloc \in [Ids -> Nat]
    BY <1>1 DEF CanvasInv, Sound, Ids, lanes
  <2>3. Restrict(portfolio.alloc, Ids) = portfolio.alloc
    BY <2>2 DEF Restrict
  <2>4. SumOver(portfolio.alloc, Ids) = Total
    BY <1>1, <2>3 DEF CanvasInv, Sound, SumOver
  <2> QED BY <2>1, <2>2, <2>4 DEF AllocationsCover
<1> QED BY <1>1, CanvasInvariance, PTL

-----------------------------------------------------------------------------
(* Quotes                                                                  *)

QuoteFunctions ==
    /\ repriceSigs = [l \in LoopIds |-> repriceSigs[l]]
    /\ repriceTimers = [l \in LoopIds |-> repriceTimers[l]]
    /\ reprices = [l \in LoopIds |-> reprices[l]]

QuoteInv == QuoteFunctions /\ QuoteIsComing

\* What an action does to the quotes.
QuoteStep ==
    \/ \E p, dropped : Commits(p, dropped)
    \/ \E dropped : DropsQuotes(dropped)
    \/ \E l \in LoopIds : TimerFires(l) \/ \E terms \in AllTerms : Answered(l, terms)
    \/ UNCHANGED quoteVars

\* Every action is one of these to the quotes.
LEMMA StepsOfQuotes == [Next]_vars => QuoteStep
<1>1. ASSUME NEW l, NEW key, NEW dropped, NEW writes, AddLands(l, key, dropped, writes) PROVE QuoteStep
  BY <1>1 DEF AddLands, QuoteStep
<1>2. AddLane \/ undo \/ composeAnother => QuoteStep
  BY DEF AddLane, undo, composeAnother, QuoteStep
<1>3. ASSUME NEW l PROVE RemoveLane(l) \/ installDefaults(l) \/ Requote(l) => QuoteStep
  BY DEF RemoveLane, installDefaults, Requote, QuoteStep
<1>4. ASSUME NEW l, NEW m PROVE onSelectMarket(l, m) => QuoteStep
  BY DEF onSelectMarket, QuoteStep
<1>5. ASSUME NEW l, NEW key PROVE composeAdd(l, key) \/ onAddModule(l, key) \/ composeEject(l, key) => QuoteStep
  BY DEF composeAdd, onAddModule, composeEject, QuoteStep
<1>6. ASSUME NEW l, NEW bps PROVE AllocationSet(l, bps) => QuoteStep
  BY DEF AllocationSet, QuoteStep
<1>7. BeatAdds \/ InstallLands => QuoteStep
  BY <1>1 DEF BeatAdds, InstallLands
<1>8. BeatEjects => QuoteStep
  BY DEF BeatEjects, QuoteStep
<1>9. UNCHANGED vars => QuoteStep
  BY DEF vars, QuoteStep
<1>10. User => QuoteStep
  BY <1>2, <1>3, <1>4, <1>5, <1>6 DEF User
<1>11. Timers => QuoteStep
  BY <1>7, <1>8 DEF Timers, QuoteStep
<1> QED BY <1>9, <1>10, <1>11 DEF Next

\* Quotes dropped are no longer waited for.
LEMMA DropKeepsQuotes ==
    ASSUME QuoteInv, NEW dropped, DropsQuotes(dropped) PROVE QuoteInv'
<1>1. ASSUME NEW l \in LoopIds
      PROVE  /\ repriceSigs'[l] = SigOf(l, dropped) /\ repriceTimers'[l] = TimerOf(l, dropped)
             /\ reprices'[l] = ShownOf(l, dropped)
  BY DEF DropsQuotes
<1>2. asked' = asked /\ QuoteFunctions'
  BY DEF DropsQuotes, QuoteFunctions
<1>3. QuoteIsComing'
  <2>1. SUFFICES ASSUME NEW l \in LoopIds, repriceSigs'[l] # NoTerms
                 PROVE  \/ repriceTimers'[l] = repriceSigs'[l]
                        \/ [loopId |-> l, terms |-> repriceSigs'[l]] \in asked'
                        \/ reprices'[l] # NoQuote
    BY DEF QuoteIsComing
  <2>2. l \notin dropped
    BY <1>1, <2>1 DEF SigOf
  <2>3. /\ repriceSigs'[l] = repriceSigs[l] /\ repriceTimers'[l] = repriceTimers[l]
        /\ reprices'[l] = reprices[l]
    BY <1>1, <2>2 DEF SigOf, TimerOf, ShownOf
  <2> QED BY <1>2, <2>1, <2>3 DEF QuoteInv, QuoteIsComing
<1> QED BY <1>2, <1>3 DEF QuoteInv

\* A commit asks for the quotes of the portfolio that are missing.
LEMMA CommitKeepsQuotes ==
    ASSUME QuoteInv, NEW p, NEW dropped, Commits(p, dropped) PROVE QuoteInv'
<1>1. asked' = asked /\ QuoteFunctions'
  BY DEF Commits, QuoteFunctions
<1>2. QuoteIsComing'
  <2>1. SUFFICES ASSUME NEW l \in LoopIds, repriceSigs'[l] # NoTerms
                 PROVE  \/ repriceTimers'[l] = repriceSigs'[l]
                        \/ [loopId |-> l, terms |-> repriceSigs'[l]] \in asked'
                        \/ reprices'[l] # NoQuote
    BY DEF QuoteIsComing
  <2>2. repriceSigs'[l] = Quoted(p, l)
    BY DEF Commits
  <2>3. CASE Quoted(p, l) # SigOf(l, dropped)
    <3>1. Quoted(p, l) \notin {NoTerms, SigOf(l, dropped)}
      BY <2>1, <2>2, <2>3
    <3>2. repriceTimers'[l] =
              CASE Quoted(p, l) \notin {NoTerms, SigOf(l, dropped)} -> Quoted(p, l)
                [] l \notin DOMAIN p.lanes /\ SigOf(l, dropped) # NoTerms -> NoTerms
                [] OTHER -> TimerOf(l, dropped)
      BY DEF Commits
    <3>3. l \in DOMAIN p.lanes
      BY <3>1 DEF Quoted
    <3>4. repriceTimers'[l] = Quoted(p, l)
      BY <3>1, <3>2, <3>3
    <3> QED BY <2>2, <3>4
  <2>4. CASE Quoted(p, l) = SigOf(l, dropped)
    <3>1. l \notin dropped /\ repriceSigs[l] = Quoted(p, l)
      BY <2>1, <2>2, <2>4 DEF SigOf
    <3>2. l \in DOMAIN p.lanes
      BY <2>1, <2>2 DEF Quoted
    <3>3. repriceTimers'[l] = repriceTimers[l] /\ reprices'[l] = reprices[l]
      BY <2>1, <2>2, <2>4, <3>1, <3>2 DEF Commits, TimerOf, ShownOf
    <3> QED BY <1>1, <2>1, <2>2, <3>1, <3>3 DEF QuoteInv, QuoteIsComing
  <2> QED BY <2>3, <2>4
<1> QED BY <1>1, <1>2 DEF QuoteInv

\* A request that goes out is in flight.
LEMMA FiringKeepsQuotes ==
    ASSUME QuoteInv, NEW l \in LoopIds, TimerFires(l) PROVE QuoteInv'
<1>1. /\ asked' = asked \cup {[loopId |-> l, terms |-> repriceTimers[l]]}
      /\ repriceTimers' = [repriceTimers EXCEPT ![l] = NoTerms]
      /\ repriceSigs' = repriceSigs /\ reprices' = reprices
  BY DEF TimerFires
<1>2. QuoteFunctions'
  BY <1>1 DEF QuoteInv, QuoteFunctions
<1>3. QuoteIsComing'
  <2>1. SUFFICES ASSUME NEW k \in LoopIds, repriceSigs[k] # NoTerms
                 PROVE  \/ repriceTimers'[k] = repriceSigs[k]
                        \/ [loopId |-> k, terms |-> repriceSigs[k]] \in asked'
                        \/ reprices[k] # NoQuote
    BY <1>1 DEF QuoteIsComing
  <2>2. k # l => repriceTimers'[k] = repriceTimers[k]
    BY <1>1 DEF QuoteInv, QuoteFunctions
  <2> QED BY <1>1, <2>1, <2>2 DEF QuoteInv, QuoteIsComing
<1> QED BY <1>2, <1>3 DEF QuoteInv

\* An answer, whatever it says, is shown.
LEMMA AnswerKeepsQuotes ==
    ASSUME QuoteInv, NEW l \in LoopIds, NEW terms \in AllTerms, Answered(l, terms) PROVE QuoteInv'
<1>1. PICK ok \in BOOLEAN : reprices' = [reprices EXCEPT ![l] = [terms |-> terms, ok |-> ok]]
  BY DEF Answered
<1>2. /\ asked' = asked \ {[loopId |-> l, terms |-> terms]}
      /\ repriceSigs' = repriceSigs /\ repriceTimers' = repriceTimers
  BY DEF Answered
<1>3. QuoteFunctions'
  BY <1>1, <1>2 DEF QuoteInv, QuoteFunctions
<1>4. terms # NoTerms
  <2>1. PICK m \in Rows, levered \in BOOLEAN : terms = Terms(m, levered)
    BY DEF AllTerms
  <2> QED BY <2>1, LaneGraphAssumption DEF Terms, NoTerms
<1>5. QuoteIsComing'
  <2>1. SUFFICES ASSUME NEW k \in LoopIds, repriceSigs[k] # NoTerms
                 PROVE  \/ repriceTimers[k] = repriceSigs[k]
                        \/ [loopId |-> k, terms |-> repriceSigs[k]] \in asked'
                        \/ reprices'[k] # NoQuote
    BY <1>2 DEF QuoteIsComing
  <2>2. CASE k = l
    <3>1. reprices'[k] = [terms |-> terms, ok |-> ok]
      BY <1>1, <2>2 DEF QuoteInv, QuoteFunctions
    <3>2. reprices'[k].terms # NoTerms
      BY <1>4, <3>1
    <3> QED BY <3>2 DEF NoQuote
  <2>3. CASE k # l
    <3>1. reprices'[k] = reprices[k]
      BY <1>1, <2>3 DEF QuoteInv, QuoteFunctions
    <3>2. [loopId |-> k, terms |-> repriceSigs[k]] # [loopId |-> l, terms |-> terms]
      <4>1. [loopId |-> k, terms |-> repriceSigs[k]].loopId # [loopId |-> l, terms |-> terms].loopId
        BY <2>3
      <4> QED BY <4>1
    <3> QED BY <1>2, <2>1, <3>1, <3>2 DEF QuoteInv, QuoteIsComing
  <2> QED BY <2>2, <2>3
<1> QED BY <1>3, <1>5 DEF QuoteInv

(***************************************************************************)
(* A lane whose signature says a quote was asked for shows one or has one  *)
(* coming on those terms: the signatures, debounce timers, answers and     *)
(* dropped quotes of RackCanvas.tsx agree, in whatever order they land.    *)
(***************************************************************************)
THEOREM NoLaneWaitsInVain == Spec => []QuoteIsComing
<1>1. Init => QuoteInv
  BY DEF Init, QuoteInv, QuoteFunctions, QuoteIsComing
<1>2. ASSUME QuoteInv, [Next]_vars PROVE QuoteInv'
  <2>1. CASE UNCHANGED quoteVars
    BY <1>2, <2>1 DEF quoteVars, QuoteInv, QuoteFunctions, QuoteIsComing
  <2>2. QuoteStep
    BY <1>2, StepsOfQuotes
  <2> QED BY <1>2, <2>1, <2>2, DropKeepsQuotes, CommitKeepsQuotes, FiringKeepsQuotes,
             AnswerKeepsQuotes DEF QuoteStep
<1>3. QuoteInv => QuoteIsComing
  BY DEF QuoteInv
<1> QED BY <1>1, <1>2, <1>3, PTL DEF Spec

-----------------------------------------------------------------------------
(* Products                                                                *)

\* What a lane is when its modules allow its market's family and no other evidence is needed.
LEMMA MarketCommits ==
    ASSUME NEW lane, lane.market \in Rows, LaunchShaped(lane)
    PROVE  committedFamilies(lane) = {Row[lane.market].family}
<1> DEFINE row == Row[lane.market]
           fams == laneFamilies(lane.keys)
<1>1. Pinned(lane) /\ row \in RowType
  BY LaneGraphAssumption DEF Pinned
<1>2. Issues(lane) = {}
  BY DEF LaunchShaped
<1>3. fams # {} => row.family \in fams
  <2>1. Code("market-family-mismatch",
             Pinned(lane) /\ fams # {} /\ row.family \notin fams) = {}
    BY <1>2 DEF Issues
  <2> QED BY <1>1, <2>1 DEF Code
<1>4. fams # {}
  <2>1. ASSUME fams = {} PROVE FALSE
    <3> DEFINE f == laneFamily(lane.keys)
    <3>1. f \in Families
      BY DEF laneFamily, Families, Chain
    <3>2. committedFamilies(lane) = {}
      BY <2>1 DEF committedFamilies
    <3>3. Surviving(lane) = {f}
      BY <3>2 DEF Surviving
    <3>4. Bound(lane)
      BY <3>3, FS_Singleton DEF Bound
    <3>5. lane.keys \ (OverlayKeys \cup Chain[f]) = {}
      <4>1. UNION {Chain[g] : g \in Surviving(lane)} = Chain[f]
        BY <3>3
      <4>2. IssuesOfModules(lane) = {}
        BY <1>2 DEF Issues
      <4> DEFINE strangers == IF Bound(lane)
                              THEN lane.keys \ (OverlayKeys \cup UNION {Chain[g] : g \in Surviving(lane)})
                              ELSE {}
      <4>3. {<<"family-mismatch", k>> : k \in strangers} = {}
        BY <4>2 DEF IssuesOfModules
      <4>4. strangers = {}
        BY <4>3
      <4> QED BY <3>4, <4>1, <4>4
    <3>6. f \in fams
      <4> HIDE DEF f
      <4> QED BY <3>1, <3>5 DEF laneFamilies
    <3> QED BY <2>1, <3>6
  <2> QED BY <2>1
<1>5. {g \in fams : Pinned(lane) => row.family = g} = {row.family}
  BY <1>1, <1>3, <1>4
<1> QED BY <1>5 DEF committedFamilies

\* A lane that may be published is the product of its market, or, levered on a funding row, none.
LEMMA LaunchShapedIsOneProduct ==
    ASSUME NEW lane, lane.market \in Rows, LaunchShaped(lane)
    PROVE  laneStrategies(lane) =
               IF Row[lane.market].funding
               THEN IF "safety-buffer" \in lane.keys THEN {} ELSE {"funding"}
               ELSE {Row[lane.market].family}
<1> DEFINE row == Row[lane.market]
           of(f) == IF f = "loop" THEN {"loop", "funding"} ELSE {f}
<1>1. committedFamilies(lane) = {row.family}
  BY MarketCommits
<1>2. Pinned(lane) /\ row \in RowType /\ (row.funding => row.family = "loop")
  BY LaneGraphAssumption DEF Pinned
<1>3. row.family \in Families /\ row.funding \in BOOLEAN
  BY <1>2 DEF RowType
<1>4. "funding" \notin Families
  BY DEF Families, Chain
<1>5. UNION {of(f) : f \in committedFamilies(lane)} = of(row.family)
  BY <1>1
<1>6. laneStrategies(lane) =
          {s \in of(row.family) :
              ~ (\/ s = "loop" /\ row.funding
                 \/ s = "funding" /\ ("safety-buffer" \in lane.keys \/ ~row.funding))}
  BY <1>2, <1>5, Zenon DEF laneStrategies
<1> QED BY <1>2, <1>3, <1>4, <1>6

\* What of the strategies of a lane on its market's row is left, whatever the row.
OnlyItsProduct ==
    \A l \in Ids :
        LaunchShaped(lanes[l]) /\ Pinned(lanes[l]) =>
            LET row == Row[lanes[l].market]
            IN  /\ laneStrategies(lanes[l]) \subseteq
                       {IF row.funding THEN "funding" ELSE row.family}
                /\ laneStrategies(lanes[l]) = {} =>
                       row.funding /\ "safety-buffer" \in lanes[l].keys

(***************************************************************************)
(* Over any catalog, a lane that may be published and holds a market is    *)
(* never another product than the one its market is priced as, and it is   *)
(* none at all only on a funding row with leverage: the checks of          *)
(* validateGraph (graph-ops.ts) leave no other case.                       *)
(***************************************************************************)
THEOREM NoOtherProductIsPublished == Spec => []OnlyItsProduct
<1>1. ASSUME CanvasInv PROVE OnlyItsProduct
  <2>1. SUFFICES ASSUME NEW l \in Ids, LaunchShaped(lanes[l]), Pinned(lanes[l])
                 PROVE  LET row == Row[lanes[l].market]
                        IN  /\ laneStrategies(lanes[l]) \subseteq
                                   {IF row.funding THEN "funding" ELSE row.family}
                            /\ laneStrategies(lanes[l]) = {} =>
                                   row.funding /\ "safety-buffer" \in lanes[l].keys
    BY DEF OnlyItsProduct
  <2>2. lanes[l].market \in Rows
    BY <1>1, <2>1 DEF CanvasInv, Sound, HoldsLanes, IsLane, Ids, lanes, Pinned
  <2> QED BY <2>1, <2>2, LaunchShapedIsOneProduct
<1> QED BY <1>1, CanvasInvariance, PTL

(***************************************************************************)
(* Where no row of the catalog is a funding row, as among the markets the  *)
(* demo opens (liveMarketIds of demo-scope.ts), a lane that may be         *)
(* published and holds a market is exactly the product its market is       *)
(* priced as.                                                              *)
(***************************************************************************)
THEOREM OneProductIsPublished ==
    ASSUME \A m \in Rows : ~Row[m].funding
    PROVE  Spec => []PublishesOneProduct
<1>1. ASSUME CanvasInv, OnlyItsProduct PROVE PublishesOneProduct
  <2>1. SUFFICES ASSUME NEW l \in Ids, LaunchShaped(lanes[l]), Pinned(lanes[l])
                 PROVE  LET row == Row[lanes[l].market]
                        IN  laneStrategies(lanes[l]) = {IF row.funding THEN "funding" ELSE row.family}
    BY DEF PublishesOneProduct
  <2>2. lanes[l].market \in Rows
    BY <1>1, <2>1 DEF CanvasInv, Sound, HoldsLanes, IsLane, Ids, lanes, Pinned
  <2> QED BY <1>1, <2>1, <2>2 DEF OnlyItsProduct
<1> QED BY <1>1, CanvasInvariance, NoOtherProductIsPublished, PTL

=============================================================================
