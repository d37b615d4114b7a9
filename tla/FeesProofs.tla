------------------------------- MODULE FeesProofs -------------------------------
(***************************************************************************)
(* What Fees publishes, for every value of the constants: tiers in order,  *)
(* positions and tips that are inverses, and replacements that outbid.     *)
(***************************************************************************)
EXTENDS Fees, FiniteSetTheorems, WellFoundedInduction, TLAPS

-----------------------------------------------------------------------------
\* The least member of a set of naturals, and what stands for induction.

LEMMA HasLeast ==
  ASSUME NEW T \in SUBSET Nat, T # {}
  PROVE  \E x \in T : \A y \in T : x <= y
<1>1. OpToRel(<, Nat) = {p \in Nat \X Nat : p[1] < p[2]}
  BY DEF OpToRel
<1>2. PICK x \in T : \A y \in T : ~(<<y, x>> \in {p \in Nat \X Nat : p[1] < p[2]})
  BY <1>1, WFMin, NatLessThanWellFounded
<1>3. \A y \in T : ~(y < x)
  BY <1>2
<1> QED
  BY <1>3

\* A set that holds 0, and i + 1 whenever it holds i below n, holds 0..n.
LEMMA Ascends ==
  ASSUME NEW n \in Nat, NEW T \in SUBSET (0..n),
         0 \in T, \A i \in 0..(n - 1) : i \in T => i + 1 \in T
  PROVE  T = 0..n
<1> DEFINE Missing == (0..n) \ T
<1> SUFFICES ASSUME Missing # {} PROVE FALSE
  OBVIOUS
<1>0. Missing \in SUBSET Nat
  OBVIOUS
<1>1. PICK k \in Missing : \A i \in Missing : k <= i
  BY <1>0, HasLeast
<1>2. k - 1 \in 0..(n - 1) /\ k - 1 \in 0..n /\ (k - 1) + 1 = k /\ ~(k <= k - 1)
  BY <1>1
<1>3. k - 1 \notin Missing
  <2> HIDE DEF Missing
  <2> QED
    BY <1>1, <1>2
<1>4. k \in T
  BY <1>2, <1>3
<1> QED
  BY <1>1, <1>4

\* What holds at 0 and after every step holds up to n.
LEMMA Upward ==
  ASSUME NEW n \in Nat, NEW T, NEW f, f[0] \in T,
         \A k \in 1..n : f[k - 1] \in T => f[k] \in T
  PROVE  \A k \in 0..n : f[k] \in T
<1> DEFINE U == {k \in 0..n : f[k] \in T}
<1>1. U \in SUBSET (0..n) /\ 0 \in U
  OBVIOUS
<1>2. ASSUME NEW i \in 0..(n - 1), i \in U PROVE i + 1 \in U
  <2>1. i + 1 \in 1..n /\ (i + 1) - 1 = i
    OBVIOUS
  <2> QED
    BY <1>2, <2>1
<1>3. U = 0..n
  <2> HIDE DEF U
  <2> QED
    BY <1>1, <1>2, Ascends
<1> QED
  BY <1>3

\* g starts with base, and each value up to n is the step from the one before.
Iterates(g, n, T, base, step) ==
  g \in [0..n -> T] /\ g[0] = base /\ \A k \in 1..n : g[k] = step[<<k, g[k - 1]>>]

\* Every recursion over 0..n has a function that satisfies it.
LEMMA Recursion ==
  ASSUME NEW n \in Nat, NEW T, NEW base \in T, NEW step \in [(1..n) \X T -> T]
  PROVE  \E g : Iterates(g, n, T, base, step)
<1> DEFINE Good(g, m) == /\ g \in [0..m -> T] /\ g[0] = base
                         /\ \A k \in 1..m : g[k] = step[<<k, g[k - 1]>>]
           Built == {m \in 0..n : \E g : Good(g, m)}
<1>1. Built \in SUBSET (0..n)
  OBVIOUS
<1>2. 0 \in Built
  <2>1. Good([i \in 0..0 |-> base], 0)
    OBVIOUS
  <2> HIDE DEF Good
  <2> QED
    BY <2>1
<1>3. ASSUME NEW m \in 0..(n - 1), m \in Built PROVE m + 1 \in Built
  <2>1. PICK g : Good(g, m)
    BY <1>3
  <2> DEFINE h == [i \in 0..(m + 1) |-> IF i = m + 1 THEN step[<<m + 1, g[m]>>] ELSE g[i]]
  <2>2. step[<<m + 1, g[m]>>] \in T
    <3>1. <<m + 1, g[m]>> \in (1..n) \X T
      BY <2>1
    <3> QED
      BY <3>1
  <2>3. \A i \in 0..m : h[i] = g[i]
    BY <2>1
  <2>4. h \in [0..(m + 1) -> T] /\ h[m + 1] = step[<<m + 1, g[m]>>]
    BY <2>1, <2>2
  <2>5. ASSUME NEW k \in 1..(m + 1) PROVE h[k] = step[<<k, h[k - 1]>>]
    <3> HIDE DEF h
    <3>1. CASE k = m + 1
      <4>1. h[k - 1] = g[m]
        BY <2>3, <3>1
      <4> QED
        BY <2>4, <3>1, <4>1
    <3>2. CASE k # m + 1
      <4>1. k \in 1..m /\ k \in 0..m /\ k - 1 \in 0..m
        BY <3>2
      <4> QED
        BY <2>1, <2>3, <4>1
    <3> QED
      BY <3>1, <3>2
  <2>6. Good(h, m + 1)
    <3> HIDE DEF h
    <3> QED
      BY <2>1, <2>3, <2>4, <2>5
  <2> HIDE DEF Good, h
  <2> QED
    BY <2>6
<1>4. n \in Built
  <2> HIDE DEF Built
  <2> QED
    BY <1>1, <1>2, <1>3, Ascends
<1> QED
  BY <1>4 DEF Iterates

-----------------------------------------------------------------------------
\* filter, sort and sums.

\* What a filter keeps are elements of the sequence at these places.
LEMMA FilteredIs ==
  ASSUME NEW S, NEW s \in Seq(S), NEW places
  PROVE  Filtered(s, places) \in Seq({s[i] : i \in places \cap (1..Len(s))})
<1> DEFINE n == Len(s)
           T == Seq({s[i] : i \in places \cap (1..n)})
           Step(k, was) == IF k \in places THEN Append(was, s[k]) ELSE was
           Rounds(g) == g = [k \in 0..n |-> IF k = 0 THEN <<>> ELSE Step(k, g[k - 1])]
           step == [p \in (1..n) \X T |-> Step(p[1], p[2])]
           acc == CHOOSE g : Rounds(g)
<1>1. \A k \in 1..n, was \in T : Step(k, was) \in T
  OBVIOUS
<1>2. n \in Nat /\ <<>> \in T
  OBVIOUS
<1>3. Filtered(s, places) = acc[n]
  BY DEF Filtered
<1> HIDE DEF n, T, Step
<1>4. step \in [(1..n) \X T -> T]
  BY <1>1
<1>5. PICK g : Iterates(g, n, T, <<>>, step)
  <2> HIDE DEF step
  <2> QED
    BY <1>2, <1>4, Recursion
<1>6. ASSUME NEW k \in 1..n PROVE g[k] = Step(k, g[k - 1])
  <2>1. <<k, g[k - 1]>> \in (1..n) \X T
    BY <1>2, <1>5 DEF Iterates
  <2> QED
    BY <1>5, <2>1 DEF Iterates
<1>7. Rounds(g)
  <2>1. \A k \in 0..n : k # 0 => k \in 1..n
    BY <1>2
  <2> QED
    BY <1>5, <1>6, <2>1 DEF Iterates
<1>8. Rounds(acc)
  <2> HIDE DEF Rounds
  <2> QED
    BY <1>7, Zenon
<1>9. \A k \in 0..n : acc[k] \in T
  <2> HIDE DEF acc
  <2>1. acc[0] = <<>> /\ \A k \in 1..n : acc[k] = Step(k, acc[k - 1])
    BY <1>2, <1>8
  <2> QED
    BY <1>1, <1>2, <2>1, Upward
<1> QED
  BY <1>2, <1>3, <1>9 DEF n, T

LEMMA GasIs ==
  ASSUME NEW samples \in Seq(TipSample), NEW k \in 1..Len(samples)
  PROVE  samples[k].gas \in Nat /\ samples[k].tip \in Nat
<1>1. samples[k] \in TipSample
  OBVIOUS
<1> QED
  BY <1>1 DEF TipSample

\* The gas of the first samples: nothing at first, then each sample's gas on top.
LEMMA SumIs ==
  ASSUME NEW samples \in Seq(TipSample)
  PROVE  /\ \A k \in 0..Len(samples) : GasUpTo(samples, k) \in Nat
         /\ GasUpTo(samples, 0) = 0
         /\ \A k \in 1..Len(samples) :
              GasUpTo(samples, k) = GasUpTo(samples, k - 1) + samples[k].gas
<1> DEFINE n == Len(samples)
           Step(k, was) == was + samples[k].gas
           Rounds(g) == g = [k \in 0..n |-> IF k = 0 THEN 0 ELSE g[k - 1] + samples[k].gas]
           step == [p \in (1..n) \X Nat |-> Step(p[1], p[2])]
           acc == CHOOSE g : Rounds(g)
<1>1. \A k \in 1..n : samples[k].gas \in Nat
  BY GasIs
<1>2. n \in Nat /\ 0 \in Nat
  OBVIOUS
<1>3. \A k : GasUpTo(samples, k) = acc[k]
  BY DEF GasUpTo
<1> HIDE DEF n
<1>4. step \in [(1..n) \X Nat -> Nat]
  BY <1>1
<1>5. PICK g : Iterates(g, n, Nat, 0, step)
  <2> HIDE DEF step
  <2> QED
    BY <1>2, <1>4, Recursion
<1>6. ASSUME NEW k \in 1..n PROVE g[k] = g[k - 1] + samples[k].gas
  <2>1. <<k, g[k - 1]>> \in (1..n) \X Nat
    BY <1>2, <1>5 DEF Iterates
  <2> QED
    BY <1>5, <2>1 DEF Iterates
<1>7. Rounds(g)
  <2>1. \A k \in 0..n : k # 0 => k \in 1..n
    BY <1>2
  <2> QED
    BY <1>5, <1>6, <2>1 DEF Iterates
<1>8. Rounds(acc)
  <2> HIDE DEF Rounds
  <2> QED
    BY <1>7, Zenon
<1>9. acc[0] = 0 /\ \A k \in 1..n : acc[k] = acc[k - 1] + samples[k].gas
  <2> HIDE DEF acc
  <2> QED
    BY <1>2, <1>8
<1>10. \A k \in 0..n : acc[k] \in Nat
  <2> HIDE DEF acc
  <2>1. \A k \in 1..n : acc[k - 1] \in Nat => acc[k] \in Nat
    BY <1>1, <1>9
  <2> QED
    BY <1>2, <1>9, <2>1, Upward
<1> QED
  <2> HIDE DEF acc
  <2> QED
    BY <1>3, <1>9, <1>10 DEF n

\* The more samples, the more gas.
LEMMA SumGrows ==
  ASSUME NEW samples \in Seq(TipSample)
  PROVE  \A j \in 0..Len(samples) : \A i \in 0..j : GasUpTo(samples, i) <= GasUpTo(samples, j)
<1> DEFINE n == Len(samples)
           Sum(k) == GasUpTo(samples, k)
           T == {j \in 0..n : \A i \in 0..j : Sum(i) <= Sum(j)}
<1>1. \A k \in 1..n : samples[k].gas \in Nat
  BY GasIs
<1>2. n \in Nat
  OBVIOUS
<1>3. /\ \A k \in 0..n : Sum(k) \in Nat
      /\ \A k \in 1..n : Sum(k) = Sum(k - 1) + samples[k].gas
  BY SumIs
<1> HIDE DEF n, Sum
<1>4. T \in SUBSET (0..n) /\ 0 \in T
  BY <1>2, <1>3
<1>5. ASSUME NEW j \in 0..(n - 1), j \in T PROVE j + 1 \in T
  <2>1. j + 1 \in 1..n /\ (j + 1) - 1 = j /\ j \in 0..n /\ j + 1 \in 0..n
    BY <1>2
  <2>2. Sum(j) <= Sum(j + 1) /\ Sum(j) \in Nat /\ Sum(j + 1) \in Nat
    BY <1>1, <1>3, <2>1
  <2>3. ASSUME NEW i \in 0..(j + 1) PROVE Sum(i) <= Sum(j + 1)
    <3>1. CASE i \in 0..j
      <4>1. Sum(i) <= Sum(j)
        BY <1>5, <3>1
      <4>2. i \in 0..n
        BY <1>2, <2>1, <3>1
      <4>3. Sum(i) \in Nat
        BY <1>3, <4>2
      <4> QED
        BY <2>2, <4>1, <4>3
    <3>2. CASE i = j + 1
      BY <2>2, <3>2
    <3> QED
      BY <2>1, <3>1, <3>2
  <2> QED
    BY <2>1, <2>3
<1>6. T = 0..n
  <2> HIDE DEF T
  <2> QED
    BY <1>2, <1>4, <1>5, Ascends
<1> QED
  BY <1>6 DEF n, Sum

\* A transaction tips a natural number, and so what is sampled of a block or pool
\* are samples.
LEMMA TipIs ==
  ASSUME NEW tx \in Transactions, NEW baseFee \in Nat
  PROVE  EffectiveTip(tx, baseFee) \in Nat
  BY NoneIsNoNumber DEF EffectiveTip, Transactions, Optional, Larger, Smaller

LEMMA SamplesAre ==
  ASSUME NEW txs \in Seq(Transactions), NEW baseFee \in Nat
  PROVE  Samples(txs, baseFee) \in Seq(TipSample)
<1> DEFINE places == {i \in DOMAIN txs : txs[i].gas # None}
           weighed == Filtered(txs, places)
           Weighed == {txs[i] : i \in places \cap (1..Len(txs))}
<1>1. weighed \in Seq(Weighed)
  BY FilteredIs
<1>2. \A tx \in Weighed : tx \in Transactions /\ tx.gas # None
  OBVIOUS
<1>3. \A tx \in Weighed : Sample(tx, baseFee) \in TipSample
  BY <1>2, TipIs DEF Sample, TipSample, Transactions, Optional
<1> HIDE DEF weighed, Weighed
<1>4. [i \in DOMAIN weighed |-> Sample(weighed[i], baseFee)] \in Seq(TipSample)
  BY <1>1, <1>3
<1> QED
  BY <1>4 DEF Samples, weighed, places

LEMMA PayingAre ==
  ASSUME NEW samples \in Seq(TipSample)
  PROVE  PayingLane(samples) \in Seq(TipSample)
<1> DEFINE places == {i \in DOMAIN samples : IsPayingLane(samples[i])}
           Paying == {samples[i] : i \in places \cap (1..Len(samples))}
<1>1. PayingLane(samples) \in Seq(Paying)
  BY FilteredIs DEF PayingLane
<1>2. Paying \subseteq TipSample
  OBVIOUS
<1> QED
  <2> HIDE DEF Paying
  <2> QED
    BY <1>1, <1>2

\* Where a sort puts the elements: each in a place of its own, low keys before high.
Places(place, samples, key, sorted) ==
  /\ place \in Bijection(1..Len(samples), 1..Len(samples))
  /\ Len(sorted) = Len(samples)
  /\ \A i \in 1..Len(samples) : sorted[place[i]] = samples[i]
  /\ \A i, j \in 1..Len(samples) : key[i] < key[j] => place[i] < place[j]

LEMMA SortedIs ==
  ASSUME NEW S, NEW samples \in Seq(S), NEW key \in [DOMAIN samples -> Int]
  PROVE  /\ Sorted(samples, key) \in Seq(S)
         /\ \E place : Places(place, samples, key, Sorted(samples, key))
<1> DEFINE n == Len(samples)
           Before(j, i) == key[j] < key[i] \/ (key[j] = key[i] /\ j <= i)
           upTo(i) == {j \in DOMAIN samples : Before(j, i)}
           place == [i \in 1..n |-> Cardinality(upTo(i))]
           at(k) == CHOOSE i \in DOMAIN samples : Cardinality(upTo(i)) = k
           sorted == SubSeq([k \in DOMAIN samples |-> samples[at(k)]], 1, Len(samples))
<1>0. Sorted(samples, key) = sorted
  BY DEF Sorted
<1> HIDE DEF sorted, at
<1>1. n \in Nat /\ DOMAIN samples = 1..n /\ \A i \in 1..n : key[i] \in Int
  OBVIOUS
<1>2. IsFiniteSet(1..n) /\ Cardinality(1..n) = n
  <2> HIDE DEF n
  <2>1. IsFiniteSet(1..n) /\ Cardinality(1..n) = IF 1 > n THEN 0 ELSE n - 1 + 1
    BY <1>1, FS_Interval
  <2> QED
    BY <1>1, <2>1
<1>3. ASSUME NEW i \in 1..n PROVE IsFiniteSet(upTo(i)) /\ place[i] \in 1..n
  <2>1. IsFiniteSet(upTo(i)) /\ Cardinality(upTo(i)) <= n
    BY <1>2, FS_Subset
  <2>2. i \in upTo(i)
    BY <1>1
  <2>3. Cardinality(upTo(i)) \in Nat /\ Cardinality(upTo(i)) # 0
    BY <2>1, <2>2, FS_EmptySet, FS_CardinalityType
  <2> QED
    BY <1>1, <2>1, <2>3
<1>4. ASSUME NEW i \in 1..n, NEW j \in 1..n, i # j, Before(i, j) PROVE place[i] < place[j]
  <2>1. upTo(i) \subseteq upTo(j)
    BY <1>1, <1>4
  <2>2. j \in upTo(j) /\ j \notin upTo(i)
    BY <1>1, <1>4
  <2>3. Cardinality(upTo(i)) <= Cardinality(upTo(j)) /\ Cardinality(upTo(i)) # Cardinality(upTo(j))
    BY <1>3, <2>1, <2>2, FS_Subset
  <2>4. place[i] = Cardinality(upTo(i)) /\ place[j] = Cardinality(upTo(j))
    OBVIOUS
  <2> HIDE DEF place, upTo
  <2> QED
    BY <1>3, <2>3, <2>4
<1>5. \A i, j \in 1..n : Before(i, j) \/ Before(j, i)
  BY <1>1
<1>6. \A i, j \in 1..n : key[i] < key[j] => place[i] < place[j]
  <2> SUFFICES ASSUME NEW i \in 1..n, NEW j \in 1..n, key[i] < key[j] PROVE place[i] < place[j]
    OBVIOUS
  <2>1. Before(i, j) /\ i # j
    BY <1>1
  <2> QED
    BY <1>4, <2>1
<1> HIDE DEF upTo, Before, place, n
<1>7. \A i, j \in 1..n : place[i] = place[j] => i = j
  <2> SUFFICES ASSUME NEW i \in 1..n, NEW j \in 1..n, place[i] = place[j], i # j PROVE FALSE
    OBVIOUS
  <2>1. place[i] < place[j] \/ place[j] < place[i]
    BY <1>4, <1>5
  <2>2. place[i] \in Int /\ place[j] \in Int
    BY <1>1, <1>3
  <2> QED
    BY <2>1, <2>2
<1>8. place \in Bijection(1..n, 1..n)
  <2>1. place \in [1..n -> 1..n] /\ DOMAIN place = 1..n
    BY <1>3 DEF place
  <2>2. place \in Injection(1..n, 1..n)
    BY <1>7, <2>1 DEF Injection, IsInjective
  <2>3. place \in Surjection(1..n, 1..n)
    BY <1>2, <2>2, FS_Injection
  <2> QED
    BY <2>2, <2>3 DEF Bijection
<1>9. \A i \in 1..n : at(place[i]) = i
  <2> SUFFICES ASSUME NEW i \in 1..n PROVE at(place[i]) = i
    OBVIOUS
  <2>1. \A j \in 1..n : Cardinality(upTo(j)) = place[j]
    BY DEF place
  <2>2. at(place[i]) \in 1..n /\ Cardinality(upTo(at(place[i]))) = place[i]
    BY <1>1, <2>1 DEF at
  <2> QED
    BY <1>7, <2>1, <2>2
<1>10. \A k \in 1..n : at(k) \in 1..n
  <2>1. \A k \in 1..n : \E i \in 1..n : place[i] = k
    BY <1>8 DEF Bijection, Surjection
  <2> QED
    BY <1>9, <2>1
<1>11. sorted \in Seq(S) /\ Len(sorted) = n /\ \A k \in 1..n : sorted[k] = samples[at(k)]
  BY <1>1, <1>10 DEF sorted, n
<1>12. \A i \in 1..n : sorted[place[i]] = samples[i]
  BY <1>3, <1>9, <1>11
<1>13. Places(place, samples, key, sorted)
  BY <1>6, <1>8, <1>11, <1>12 DEF Places, n
<1> QED
  BY <1>0, <1>11, <1>13

\* The elements that the places k and l of a sorted sequence hold: the first has the
\* lower key.
Holders(i, j, k, l, samples, key) ==
  /\ i \in 1..Len(samples) /\ j \in 1..Len(samples)
  /\ Sorted(samples, key)[k] = samples[i] /\ Sorted(samples, key)[l] = samples[j]
  /\ key[i] <= key[j]

LEMMA InOrder ==
  ASSUME NEW S, NEW samples \in Seq(S), NEW key \in [DOMAIN samples -> Int],
         NEW k \in 1..Len(samples), NEW l \in 1..Len(samples), k <= l
  PROVE  \E i, j : Holders(i, j, k, l, samples, key)
<1> DEFINE n == Len(samples)
           sorted == Sorted(samples, key)
<1>1. PICK place : Places(place, samples, key, sorted)
  BY SortedIs
<1>2. place \in [1..n -> 1..n] /\ \A m \in 1..n : \E i \in 1..n : place[i] = m
  BY <1>1 DEF Places, Bijection, Surjection
<1>3. PICK i, j \in 1..n : place[i] = k /\ place[j] = l
  BY <1>2
<1>4. key[i] \in Int /\ key[j] \in Int
  OBVIOUS
<1>5. ~(key[j] < key[i])
  <2>1. key[j] < key[i] => place[j] < place[i]
    BY <1>1 DEF Places
  <2> QED
    BY <1>3, <2>1
<1>6. sorted[k] = samples[i] /\ sorted[l] = samples[j]
  BY <1>1, <1>3 DEF Places
<1> QED
  <2>1. key[i] <= key[j]
    BY <1>4, <1>5
  <2>2. Holders(i, j, k, l, samples, key)
    BY <1>6, <2>1 DEF Holders
  <2> QED
    BY <2>2

\* The samples sorted by tip, either way.
LEMMA TipsInOrder ==
  ASSUME NEW samples \in Seq(TipSample)
  PROVE  LET low  == Sorted(samples, [i \in DOMAIN samples |-> samples[i].tip])
             high == ByTip(samples)
         IN /\ low \in Seq(TipSample) /\ Len(low) = Len(samples)
            /\ high \in Seq(TipSample) /\ Len(high) = Len(samples)
            /\ \A k, l \in 1..Len(samples) :
                 k <= l => low[k].tip <= low[l].tip /\ high[l].tip <= high[k].tip
<1> DEFINE n == Len(samples)
           up == [i \in DOMAIN samples |-> samples[i].tip]
           down == [i \in DOMAIN samples |-> -samples[i].tip]
           low == Sorted(samples, up)
           high == Sorted(samples, down)
<1>1. \A i \in 1..n : samples[i].tip \in Nat
  BY GasIs
<1>2. up \in [DOMAIN samples -> Int] /\ down \in [DOMAIN samples -> Int]
  BY <1>1
<1>3. \A i \in 1..n : up[i] = samples[i].tip /\ down[i] = -samples[i].tip
  OBVIOUS
<1> HIDE DEF up, down
<1>4. low \in Seq(TipSample) /\ Len(low) = n
  BY <1>2, SortedIs DEF Places
<1>5. high \in Seq(TipSample) /\ Len(high) = n
  BY <1>2, SortedIs DEF Places
<1>6. ASSUME NEW k \in 1..n, NEW l \in 1..n, k <= l
      PROVE  low[k].tip <= low[l].tip /\ high[l].tip <= high[k].tip
  <2>1. PICK i, j : Holders(i, j, k, l, samples, up)
    BY <1>2, <1>6, InOrder
  <2>2. PICK c, d : Holders(c, d, k, l, samples, down)
    BY <1>2, <1>6, InOrder
  <2>3. samples[i].tip <= samples[j].tip
    BY <1>3, <2>1 DEF Holders
  <2>4. samples[d].tip <= samples[c].tip
    <3>1. samples[c].tip \in Nat /\ samples[d].tip \in Nat
      BY <1>1, <2>2 DEF Holders
    <3>2. -samples[c].tip <= -samples[d].tip
      BY <1>3, <2>2 DEF Holders
    <3> QED
      BY <3>1, <3>2
  <2> QED
    BY <2>1, <2>2, <2>3, <2>4 DEF Holders
<1> QED
  BY <1>4, <1>5, <1>6 DEF ByTip, up, down

-----------------------------------------------------------------------------
\* Tiers.

LEMMA MinIs ==
  ASSUME NEW T \in SUBSET Nat, T # {}
  PROVE  Min(T) \in T /\ \A y \in T : Min(T) <= y
<1>1. \E x \in T : \A y \in T : x =< y
  BY HasLeast
<1> QED
  BY <1>1 DEF Min

\* A share of a number of gas grows with the percentage, up to all of it.
LEMMA Shares ==
  ASSUME NEW gas \in Nat, NEW p \in 0..100, NEW q \in 0..100, p <= q
  PROVE  /\ (gas * p) \div 100 \in Nat
         /\ (gas * p) \div 100 <= (gas * q) \div 100
         /\ (gas * q) \div 100 <= gas
<1>1. gas * p \in Nat /\ gas * q \in Nat /\ gas * p <= gas * q /\ gas * q <= gas * 100
  OBVIOUS
<1> DEFINE x == gas * p
           y == gas * q
<1> HIDE DEF x, y
<1>2. x \in Nat /\ y \in Nat /\ x <= y /\ y <= gas * 100
  BY <1>1 DEF x, y
<1>3. x \div 100 \in Nat /\ x \div 100 <= y \div 100 /\ y \div 100 <= gas
  BY <1>2
<1> QED
  BY <1>3 DEF x, y

\* A percentile of the tips is a tip, and the higher percentile the higher tip.
LEMMA PercentilesAscend ==
  ASSUME NEW samples \in Seq(TipSample), NEW p \in 0..100, NEW q \in 0..100, p <= q
  PROVE  /\ GasWeightedPercentile(samples, p) \in Nat
         /\ GasWeightedPercentile(samples, p) <= GasWeightedPercentile(samples, q)
<1> DEFINE sorted == Sorted(samples, [i \in DOMAIN samples |-> samples[i].tip])
           gas == GasOf(sorted)
           Target(r) == (gas * r) \div 100
           Crossed(r) == {i \in DOMAIN sorted : GasUpTo(sorted, i) >= Target(r)}
           n == Len(sorted)
<1>1. sorted \in Seq(TipSample)
  BY TipsInOrder
<1>2. \A k, l \in 1..n : k <= l => sorted[k].tip <= sorted[l].tip
  BY TipsInOrder
<1>3. \A r : GasWeightedPercentile(samples, r) = IF gas = 0 THEN 0 ELSE sorted[Min(Crossed(r))].tip
  BY DEF GasWeightedPercentile
<1> HIDE DEF sorted
<1>4. n \in Nat /\ DOMAIN sorted = 1..n
  BY <1>1
<1>5. \A i \in 1..n : sorted[i].tip \in Nat
  BY <1>1, GasIs
<1>6. CASE gas = 0
  BY <1>3, <1>6
<1>7. CASE gas # 0
  <2>1. /\ gas = GasUpTo(sorted, n) /\ GasUpTo(sorted, 0) = 0
        /\ \A i \in 0..n : GasUpTo(sorted, i) \in Nat
    BY <1>1, SumIs DEF GasOf
  <2>2. gas \in Nat /\ n # 0
    BY <1>4, <1>7, <2>1
  <2> HIDE DEF gas, n
  <2>3. /\ Target(p) <= Target(q) /\ Target(q) <= gas
        /\ Target(p) \in Nat /\ Target(q) \in Nat
    <3>1. q <= q
      OBVIOUS
    <3> QED
      BY <2>2, <3>1, Shares
  <2> HIDE DEF Target
  <2>4. n \in Crossed(q) /\ Crossed(q) \in SUBSET (1..n)
    BY <1>4, <2>1, <2>2, <2>3
  <2>5. Crossed(q) \subseteq Crossed(p) /\ Crossed(p) \in SUBSET (1..n)
    BY <1>4, <2>1, <2>3
  <2> HIDE DEF Crossed
  <2>6. \A T \in SUBSET (1..n) : T \in SUBSET Nat
    OBVIOUS
  <2>7. /\ Min(Crossed(q)) \in Crossed(q)
        /\ Min(Crossed(p)) \in Crossed(p) /\ \A y \in Crossed(p) : Min(Crossed(p)) <= y
    BY <2>4, <2>5, <2>6, MinIs
  <2>8. /\ Min(Crossed(p)) <= Min(Crossed(q))
        /\ Min(Crossed(p)) \in 1..n /\ Min(Crossed(q)) \in 1..n
    BY <2>4, <2>5, <2>7
  <2> QED
    BY <1>2, <1>3, <1>5, <1>7, <2>8
<1> QED
  BY <1>6, <1>7

\* A quotient is a natural number, and grows with the dividend.
LEMMA Quotients ==
  ASSUME NEW W \in Nat \ {0}, NEW x \in Nat, NEW y \in Nat, x <= y
  PROVE  x \div W \in Nat /\ y \div W \in Nat /\ x \div W <= y \div W
  OBVIOUS

LEMMA Products ==
  ASSUME NEW a \in Nat, NEW b \in Nat, NEW c \in Nat, a <= b
  PROVE  a * c \in Nat /\ b * c \in Nat /\ a * c <= b * c
  OBVIOUS

\* What decay leaves of Wad.
LEMMA RetainedIs ==
  ASSUME NEW n \in Nat, DecayCap # None
  PROVE  Retained(n) \in Nat
<1> DEFINE left == Wad - DecayCap
           Step(k, was) == (was * left) \div Wad
           Rounds(g) == g = [k \in 0..n |-> IF k = 0 THEN Wad ELSE Step(k, g[k - 1])]
           step == [p \in (1..n) \X Nat |-> Step(p[1], p[2])]
           acc == CHOOSE g : Rounds(g)
<1>1. Wad \in Nat \ {0} /\ left \in Nat
  BY FeeAssumption
<1>2. Retained(n) = acc[n]
  BY DEF Retained
<1> HIDE DEF left
<1>3. ASSUME NEW k, NEW was \in Nat PROVE Step(k, was) \in Nat
  <2> DEFINE x == was * left
  <2>1. x \in Nat
    BY <1>1, Products
  <2> HIDE DEF x
  <2>2. x \div Wad \in Nat
    BY <1>1, <2>1, Quotients
  <2> QED
    BY <2>2 DEF x
<1> HIDE DEF Step
<1>4. step \in [(1..n) \X Nat -> Nat]
  BY <1>3
<1>5. PICK g : Iterates(g, n, Nat, Wad, step)
  <2> HIDE DEF step
  <2> QED
    BY <1>1, <1>4, Recursion
<1>6. ASSUME NEW k \in 1..n PROVE g[k] = Step(k, g[k - 1])
  <2>1. <<k, g[k - 1]>> \in (1..n) \X Nat
    BY <1>5 DEF Iterates
  <2> QED
    BY <1>5, <2>1 DEF Iterates
<1>7. Rounds(g)
  <2>1. \A k \in 0..n : k # 0 => k \in 1..n
    OBVIOUS
  <2> QED
    BY <1>5, <1>6, <2>1 DEF Iterates
<1>8. Rounds(acc)
  <2> HIDE DEF Rounds
  <2> QED
    BY <1>7, Zenon
<1>9. \A k \in 0..n : acc[k] \in Nat
  <2> HIDE DEF acc
  <2>1. acc[0] = Wad /\ \A k \in 1..n : acc[k] = Step(k, acc[k - 1])
    BY <1>8
  <2>2. \A k \in 1..n : acc[k - 1] \in Nat => acc[k] \in Nat
    BY <1>3, <2>1
  <2> QED
    BY <1>1, <2>1, <2>2, Upward
<1> QED
  BY <1>2, <1>9

\* The anchor of the decay: the higher it and the raw tip, the higher the capped tip.
LEMMA CappedAscend ==
  ASSUME NEW raw \in Nat, NEW higher \in Nat, raw <= higher,
         NEW number \in Nat, NEW lastNumber \in Nat,
         NEW last \in Nat, NEW above \in Nat, last <= above
  PROVE  /\ CappedTip(raw, number, last, lastNumber) \in Nat
         /\ CappedTip(raw, number, last, lastNumber) <= CappedTip(higher, number, above, lastNumber)
<1>1. CASE DecayCap = None
  BY <1>1 DEF CappedTip
<1>2. CASE DecayCap # None /\ number <= lastNumber
  BY <1>2, NoneIsNoNumber DEF CappedTip, Larger
<1>3. CASE DecayCap # None /\ ~(number <= lastNumber)
  <2> DEFINE kept == Retained(number - lastNumber)
             x == last * kept
             y == above * kept
  <2>1. number - lastNumber \in Nat
    BY <1>3
  <2>2. kept \in Nat
    BY <1>3, <2>1, RetainedIs
  <2>3. x \in Nat /\ y \in Nat /\ x <= y
    BY <2>2, Products
  <2> HIDE DEF kept
  <2>4. /\ CappedTip(raw, number, last, lastNumber) = Larger(raw, x \div Wad)
        /\ CappedTip(higher, number, above, lastNumber) = Larger(higher, y \div Wad)
    BY <1>3, NoneIsNoNumber DEF CappedTip, kept
  <2> HIDE DEF x, y
  <2>5. x \div Wad \in Nat /\ y \div Wad \in Nat /\ x \div Wad <= y \div Wad
    BY <2>3, FeeAssumption, Quotients
  <2> QED
    BY <2>4, <2>5 DEF Larger
<1> QED
  BY <1>1, <1>2, <1>3

LEMMA PercentileIs ==
  /\ Percentile["slow"] = 10 /\ Percentile["standard"] = 50
  /\ Percentile["fast"] = 75 /\ Percentile["instant"] = 90
  /\ \A tier \in Tiers : Percentile[tier] \in 0..100 /\ Percentile[tier] <= Percentile[tier]
<1>1. /\ Percentile["slow"] = 10 /\ Percentile["standard"] = 50
      /\ Percentile["fast"] = 75 /\ Percentile["instant"] = 90
  BY DEF Percentile
<1>2. \A tier \in Tiers : tier = "slow" \/ tier = "standard" \/ tier = "fast" \/ tier = "instant"
  BY DEF Tiers
<1> QED
  BY <1>1, <1>2

\* What a tier would recommend of these samples, before decay.
LEMMA LaneAscends ==
  ASSUME NEW samples \in Seq(TipSample), NEW model, NEW tier \in Tiers, NEW faster \in Tiers,
         Percentile[tier] <= Percentile[faster],
         Lane(model, tier, samples) = Lane(model, faster, samples)
  PROVE  /\ GasWeightedPercentile(Lane(model, tier, samples), Percentile[tier]) \in Nat
         /\ GasWeightedPercentile(Lane(model, tier, samples), Percentile[tier])
              <= GasWeightedPercentile(Lane(model, faster, samples), Percentile[faster])
<1>1. Lane(model, tier, samples) \in Seq(TipSample)
  BY PayingAre DEF Lane
<1>2. Percentile[tier] \in 0..100 /\ Percentile[faster] \in 0..100
  BY PercentileIs
<1> QED
  BY <1>1, <1>2, PercentilesAscend

\* Tips in order: the paying tiers always, slow too when the lanes are one.
Ladders(tips, model) ==
  /\ tips \in [Tiers -> Nat]
  /\ tips["standard"] <= tips["fast"]
  /\ tips["fast"] <= tips["instant"]
  /\ model = "flat" => tips["slow"] <= tips["standard"]

\* Tiers computed from samples and anchored at tiers in order are in order.
LEMMA TipsAscend ==
  ASSUME NEW samples \in Seq(TipSample), NEW model, NEW number \in Nat, NEW lastNumber,
         NEW last, last = None \/ (Ladders(last, model) /\ lastNumber \in Nat)
  PROVE  Ladders(ComputeTips(model, samples, number, last, lastNumber), model)
<1> DEFINE raw(tier) == GasWeightedPercentile(Lane(model, tier, samples), Percentile[tier])
           anchor(tier) == IF last = None THEN None ELSE last[tier]
           capped(tier) == CappedTip(raw(tier), number, anchor(tier), lastNumber)
           tips == ComputeTips(model, samples, number, last, lastNumber)
<1>1. tips = [tier \in Tiers |-> capped(tier)]
  BY DEF ComputeTips
<1>2. ASSUME NEW tier \in Tiers, NEW faster \in Tiers, Percentile[tier] <= Percentile[faster],
             Lane(model, tier, samples) = Lane(model, faster, samples),
             last = None \/ last[tier] <= last[faster]
      PROVE  capped(tier) \in Nat /\ capped(tier) <= capped(faster)
  <2>1. raw(tier) \in Nat /\ raw(tier) <= raw(faster)
    BY <1>2, LaneAscends
  <2>2. raw(faster) \in Nat
    BY PercentileIs, LaneAscends
  <2> HIDE DEF raw
  <2>3. CASE last = None
    BY <2>1, <2>3 DEF CappedTip
  <2>4. CASE last # None
    <3>1. last[tier] \in Nat /\ last[faster] \in Nat /\ lastNumber \in Nat
      BY <2>4 DEF Ladders
    <3>2. last[tier] <= last[faster]
      BY <1>2, <2>4
    <3> QED
      BY <2>1, <2>2, <2>4, <3>1, <3>2, CappedAscend
  <2> QED
    BY <2>3, <2>4
<1>3. /\ Percentile["slow"] = 10 /\ Percentile["standard"] = 50
      /\ Percentile["fast"] = 75 /\ Percentile["instant"] = 90
  BY PercentileIs
<1>4. /\ Lane(model, "standard", samples) = Lane(model, "fast", samples)
      /\ Lane(model, "fast", samples) = Lane(model, "instant", samples)
      /\ model = "flat" => Lane(model, "slow", samples) = Lane(model, "standard", samples)
  BY DEF Lane
<1>5. \A tier \in Tiers : last = None \/ (last[tier] \in Nat /\ last[tier] <= last[tier])
  BY DEF Ladders
<1> HIDE DEF capped
<1>6. \A tier \in Tiers : capped(tier) \in Nat
  <2> SUFFICES ASSUME NEW tier \in Tiers PROVE capped(tier) \in Nat
    OBVIOUS
  <2>1. Percentile[tier] <= Percentile[tier]
    BY PercentileIs
  <2> QED
    BY <1>2, <1>5, <2>1
<1>7. capped("standard") <= capped("fast") /\ capped("fast") <= capped("instant")
  BY <1>2, <1>3, <1>4 DEF Ladders, Tiers
<1>8. model = "flat" => capped("slow") <= capped("standard")
  BY <1>2, <1>3, <1>4 DEF Ladders, Tiers
<1> QED
  BY <1>1, <1>6, <1>7, <1>8 DEF Ladders, Tiers

-----------------------------------------------------------------------------
\* What an oracle publishes.

\* The matched entry is one of the ring, or none.
LEMMA MatchIs ==
  ASSUME NEW ring \in Seq(Blocks), NEW b \in Blocks
  PROVE  MatchIndex(ring, b) \in 0..Len(ring)
<1> DEFINE n == Len(ring)
           Above(i) == \A j \in (i + 1)..n : Number(ring[j]) > Number(b)
           T == {i \in 0..n : Above(i)}
<1>1. n \in Nat /\ Number(b) \in Nat /\ \A i \in 1..n : Number(ring[i]) \in Nat
  BY FeesAssumption
<1> HIDE DEF n
<1>2. T \in SUBSET Nat /\ n \in T
  BY <1>1
<1>3. PICK k \in T : \A i \in T : k <= i
  BY <1>2, HasLeast
<1>4. k > 0 => Number(ring[k]) <= Number(b)
  <2> SUFFICES ASSUME k > 0, ~(Number(ring[k]) <= Number(b)) PROVE FALSE
    OBVIOUS
  <2>1. k - 1 \in 0..n /\ k \in 1..n
    BY <1>1, <1>3
  <2>2. Number(ring[k]) > Number(b)
    BY <1>1, <2>1
  <2>3. Above(k - 1)
    BY <1>1, <1>3, <2>1, <2>2
  <2>4. k - 1 \in T
    BY <2>1, <2>3
  <2>5. \A i \in T : k <= i
    BY <1>3
  <2> HIDE DEF T
  <2>6. k <= k - 1 /\ k \in Int
    BY <2>1, <2>4, <2>5
  <2> QED
    BY <2>6
<1>5. \E i \in 0..n : (i > 0 => Number(ring[i]) <= Number(b)) /\ Above(i)
  BY <1>3, <1>4
<1> QED
  BY <1>5 DEF MatchIndex, n

\* A ring stays a ring of blocks.
LEMMA IncorporateIs ==
  ASSUME NEW ring \in Seq(Blocks), NEW b \in Blocks
  PROVE  IncorporateBlock(ring, b, Window).ring \in Seq(Blocks)
<1> DEFINE m == MatchIndex(ring, b)
<1>1. m \in 0..Len(ring)
  BY MatchIs
<1> HIDE DEF m
<1>2. ASSUME NEW k \in 0..Len(ring) PROVE Graft(ring, k, b, Window).ring \in Seq(Blocks)
  <2>1. Append(SubSeq(ring, 1, k), b) \in Seq(Blocks)
    OBVIOUS
  <2>2. \A s \in Seq(Blocks) : CapTail(s, Window) \in Seq(Blocks)
    BY FeesAssumption DEF CapTail
  <2> QED
    BY <2>1, <2>2 DEF Graft, Mutation
<1>3. CASE m = 0
  BY <1>3 DEF IncorporateBlock, Mutation, m
<1>4. CASE m # 0
  <2>1. m \in 0..Len(ring) /\ m - 1 \in 0..Len(ring)
    BY <1>1, <1>4
  <2>2. Graft(ring, m, b, Window).ring \in Seq(Blocks) /\ Graft(ring, m - 1, b, Window).ring \in Seq(Blocks)
    BY <1>2, <2>1
  <2> QED
    BY <1>4, <2>2 DEF IncorporateBlock, Mutation, m
<1> QED
  BY <1>3, <1>4

LEMMA IncorporatedIs ==
  ASSUME NEW ring \in Seq(Blocks), NEW blocks \in Seq(Blocks)
  PROVE  Incorporated(ring, blocks) \in Seq(Blocks)
<1> DEFINE n == Len(blocks)
           T == Seq(Blocks)
           Step(k, was) == IncorporateBlock(was, blocks[k], Window).ring
           Rounds(g) == g = [k \in 0..n |-> IF k = 0 THEN ring ELSE Step(k, g[k - 1])]
           step == [p \in (1..n) \X T |-> Step(p[1], p[2])]
           acc == CHOOSE g : Rounds(g)
<1>1. n \in Nat /\ \A k \in 1..n : blocks[k] \in Blocks
  OBVIOUS
<1>2. ASSUME NEW k \in 1..n, NEW was \in T PROVE Step(k, was) \in T
  BY <1>1, IncorporateIs
<1>3. Incorporated(ring, blocks) = acc[n]
  BY DEF Incorporated
<1> HIDE DEF n, Step
<1>4. step \in [(1..n) \X T -> T]
  BY <1>2
<1>5. PICK g : Iterates(g, n, T, ring, step)
  <2> HIDE DEF step
  <2> QED
    BY <1>1, <1>4, Recursion
<1>6. ASSUME NEW k \in 1..n PROVE g[k] = Step(k, g[k - 1])
  <2>1. <<k, g[k - 1]>> \in (1..n) \X T
    BY <1>1, <1>5 DEF Iterates
  <2> QED
    BY <1>5, <2>1 DEF Iterates
<1>7. Rounds(g)
  <2>1. \A k \in 0..n : k # 0 => k \in 1..n
    BY <1>1
  <2> QED
    BY <1>5, <1>6, <2>1 DEF Iterates
<1>8. Rounds(acc)
  <2> HIDE DEF Rounds
  <2> QED
    BY <1>7, Zenon
<1>9. \A k \in 0..n : acc[k] \in T
  <2> HIDE DEF acc
  <2>1. acc[0] = ring /\ \A k \in 1..n : acc[k] = Step(k, acc[k - 1])
    BY <1>1, <1>8
  <2>2. \A k \in 1..n : acc[k - 1] \in T => acc[k] \in T
    BY <1>2, <2>1
  <2> HIDE DEF T
  <2> QED
    BY <1>1, <2>1, <2>2, Upward DEF T
<1> QED
  BY <1>1, <1>3, <1>9

\* Sequences of elements of S in a row are a sequence of elements of S.
LEMMA FlattenIs ==
  ASSUME NEW S, NEW seqs \in Seq(Seq(S))
  PROVE  FlattenSeq(seqs) \in Seq(S)
<1> DEFINE n == Len(seqs) - 1
           T == Seq(S)
           Step(k, was) == was \o seqs[k + 1]
           Rounds(f) == f = [i \in 1..Len(seqs) |-> IF i = 1 THEN seqs[i] ELSE f[i - 1] \o seqs[i]]
           step == [p \in (1..n) \X T |-> Step(p[1], p[2])]
           acc == CHOOSE f : Rounds(f)
<1>1. CASE Len(seqs) = 0
  BY <1>1 DEF FlattenSeq
<1>2. CASE Len(seqs) # 0
  <2>1. n \in Nat /\ Len(seqs) = n + 1 /\ \A i \in 1..(n + 1) : seqs[i] \in T
    BY <1>2
  <2>2. \A k \in 1..n, was \in T : Step(k, was) \in T
    BY <2>1
  <2>3. FlattenSeq(seqs) = acc[Len(seqs)]
    BY <1>2 DEF FlattenSeq
  <2> HIDE DEF n, T
  <2>4. step \in [(1..n) \X T -> T]
    BY <2>2
  <2>5. PICK g : Iterates(g, n, T, seqs[1], step)
    <3> HIDE DEF step
    <3>1. seqs[1] \in T
      BY <2>1
    <3> QED
      BY <2>1, <2>4, <3>1, Recursion
  <2>6. ASSUME NEW k \in 1..n PROVE g[k] = g[k - 1] \o seqs[k + 1]
    <3>1. <<k, g[k - 1]>> \in (1..n) \X T
      BY <2>1, <2>5 DEF Iterates
    <3> QED
      BY <2>5, <3>1 DEF Iterates
  <2> DEFINE f == [i \in 1..(n + 1) |-> g[i - 1]]
  <2>7. Rounds(f)
    <3>1. ASSUME NEW i \in 1..(n + 1) PROVE f[i] = IF i = 1 THEN seqs[i] ELSE f[i - 1] \o seqs[i]
      <4>1. CASE i = 1
        BY <2>5, <4>1 DEF Iterates
      <4>2. CASE i # 1
        <5>1. i - 1 \in 1..n /\ i - 1 \in 1..(n + 1) /\ (i - 1) + 1 = i
          BY <2>1, <4>2
        <5>2. g[i - 1] = g[(i - 1) - 1] \o seqs[i]
          BY <2>6, <5>1
        <5> QED
          BY <4>2, <5>1, <5>2
      <4> QED
        BY <4>1, <4>2
    <3>2. f = [i \in 1..(n + 1) |-> f[i]]
      OBVIOUS
    <3> HIDE DEF f
    <3> QED
      BY <2>1, <3>1, <3>2
  <2>8. Rounds(acc)
    <3> HIDE DEF Rounds, f
    <3> QED
      BY <2>7, Zenon
  <2> DEFINE h == [k \in 0..n |-> acc[k + 1]]
  <2>9. \A k \in 0..n : h[k] \in T
    <3> HIDE DEF acc
    <3>1. h[0] = seqs[1]
      BY <2>1, <2>8
    <3>2. ASSUME NEW k \in 1..n PROVE h[k] = h[k - 1] \o seqs[k + 1]
      <4>1. k + 1 \in 1..(n + 1) /\ k + 1 # 1 /\ (k + 1) - 1 = k /\ (k - 1) + 1 = k
            /\ k \in 0..n /\ k - 1 \in 0..n
        BY <2>1
      <4>2. acc[k + 1] = acc[k] \o seqs[k + 1]
        BY <2>1, <2>8, <4>1
      <4> QED
        BY <4>1, <4>2
    <3> HIDE DEF h
    <3>3. \A k \in 1..n : h[k - 1] \in T => h[k] \in T
      BY <2>2, <3>2
    <3>4. h[0] \in T
      BY <2>1, <3>1
    <3> QED
      BY <2>1, <3>3, <3>4, Upward
  <2> HIDE DEF acc
  <2>10. acc[n + 1] \in T
    BY <2>1, <2>9
  <2> QED
    BY <2>1, <2>3, <2>10 DEF T
<1> QED
  BY <1>1, <1>2

LEMMA RingSamplesAre ==
  ASSUME NEW ring \in Seq(Blocks)
  PROVE  RingSamples(ring) \in Seq(TipSample)
<1> DEFINE tips == [i \in DOMAIN ring |-> BlockSample(ring[i]).tips]
<1>1. \A b \in Blocks : BlockSample(b).tips \in Seq(TipSample)
  BY FeesAssumption, SamplesAre DEF BlockSample
<1>2. tips \in Seq(Seq(TipSample))
  BY <1>1
<1> HIDE DEF tips
<1>3. FlattenSeq(tips) \in Seq(TipSample)
  BY <1>2, FlattenIs
<1> QED
  BY <1>3 DEF RingSamples, tips

Trends == {"rising", "falling", "stable"}

LEMMA TrendIs == ASSUME NEW history PROVE DetectTrend(history) \in Trends
  BY DEF DetectTrend, Trends

\* What an oracle publishes: fees of a block, the samples it took, tips in order.
Published(s) ==
  /\ s.number \in Nat /\ s.baseFee \in Nat /\ s.trend \in Trends
  /\ s.ring \in Seq(Blocks) /\ s.mempoolSamples \in Seq(TipSample)
  /\ Ladders(s.tips, config.model)

FeesInv ==
  /\ config \in Configs
  /\ pool \in Pools \cup {None}
  /\ state # None => Published(state)

\* A poll reduces a block and a mempool to fees that may be published, whatever was
\* published before.
LEMMA ReducedIs ==
  ASSUME FeesInv, NEW b \in Blocks, NEW history, NEW txPool \in Pools \cup {None},
         NEW historical \in Bridges(b)
  PROVE  Published(Reduced(b, history, txPool, historical))
<1> DEFINE baseFee == BaseFeeOf[b]
           before == IF state = None THEN <<>> ELSE state.ring
           ring == Incorporated(before, Append(historical, b))
           pending == IF txPool = None THEN <<>> ELSE Samples(txPool, baseFee)
           samples == RingSamples(ring) \o pending
           reduced == Reduced(b, history, txPool, historical)
<1>1. baseFee \in Nat /\ Number(b) \in Nat
  BY FeesAssumption
<1>2. Append(historical, b) \in Seq(Blocks)
  <2>1. historical = <<>> \/ \E a \in Blocks : historical = <<a>>
    BY DEF Bridges
  <2>2. historical \in Seq(Blocks)
    <3>1. <<>> \in Seq(Blocks) /\ \A a \in Blocks : <<a>> \in Seq(Blocks)
      OBVIOUS
    <3> QED
      BY <2>1, <3>1, Zenon
  <2> QED
    BY <2>2
<1>3. before \in Seq(Blocks)
  BY DEF FeesInv, Published
<1>4. ring \in Seq(Blocks)
  BY <1>2, <1>3, IncorporatedIs
<1>5. pending \in Seq(TipSample)
  BY <1>1, FeesAssumption, SamplesAre
<1> HIDE DEF ring, pending
<1>6. samples \in Seq(TipSample)
  BY <1>4, <1>5, RingSamplesAre
<1> HIDE DEF samples, baseFee
<1> DEFINE tips == IF state = None THEN ComputeTips(config.model, samples, Number(b), None, None)
                   ELSE ComputeTips(config.model, samples, Number(b), state.tips, state.number)
<1>7. Ladders(tips, config.model)
  <2>1. CASE state = None
    BY <1>1, <1>6, <2>1, TipsAscend
  <2>2. CASE state # None
    <3>1. Ladders(state.tips, config.model) /\ state.number \in Nat
      BY <2>2 DEF FeesInv, Published
    <3> QED
      BY <1>1, <1>6, <2>2, <3>1, TipsAscend
  <2> QED
    BY <2>1, <2>2
<1> HIDE DEF tips
<1> DEFINE trend == DetectTrend(IF history = None THEN <<baseFee>> ELSE history)
<1>8. trend \in Trends
  BY TrendIs
<1> HIDE DEF trend
<1>9. reduced = [number |-> Number(b), baseFee |-> baseFee, trend |-> trend,
                 ring |-> ring, mempoolSamples |-> pending, tips |-> tips]
  BY DEF Reduced, baseFee, ring, pending, samples, tips, trend
<1> HIDE DEF reduced
<1> QED
  BY <1>1, <1>4, <1>5, <1>7, <1>8, <1>9 DEF Published, reduced

LEMMA PublishKeeps ==
  ASSUME FeesInv, NEW txPool \in Pools \cup {None}, Publish(txPool), config' = config
  PROVE  state' # None => Published(state)'
<1>0. PICK b \in Blocks, history \in FeeHistories :
        \E historical \in Bridges(b) : state' = Reduced(b, history, txPool, historical)
  BY DEF Publish
<1>1. PICK historical \in Bridges(b) : state' = Reduced(b, history, txPool, historical)
  BY <1>0
<1>2. Published(Reduced(b, history, txPool, historical))
  BY <1>1, ReducedIs
<1> DEFINE s == Reduced(b, history, txPool, historical)
<1> HIDE DEF s
<1>3. state' = s /\ Published(s)
  BY <1>1, <1>2 DEF s
<1> QED
  BY <1>3 DEF Published

LEMMA FeesInvHolds == Spec => []FeesInv
<1>1. Init => FeesInv
  BY DEF Init, FeesInv
<1>2. FeesInv /\ [Next]_vars => FeesInv'
  <2> SUFFICES ASSUME FeesInv, [Next]_vars PROVE FeesInv'
    OBVIOUS
  <2>1. config \in Configs /\ pool \in Pools \cup {None} /\ (state # None => Published(state))
    BY DEF FeesInv
  <2>2. ASSUME state' = state, config' = config PROVE state' # None => Published(state)'
    BY <2>1, <2>2 DEF Published
  <2>3. CASE HandleBlock
    <3>1. config' = config /\ pool' = pool /\ Publish(pool)
      BY <2>3 DEF HandleBlock
    <3>2. state' # None => Published(state)'
      BY <2>1, <3>1, PublishKeeps
    <3> QED
      BY <2>1, <3>1, <3>2 DEF FeesInv
  <2>4. CASE HandleMempool
    <3>1. config' = config /\ state' = state /\ pool' \in Pools
      BY <2>4 DEF HandleMempool
    <3> QED
      BY <2>1, <2>2, <3>1 DEF FeesInv
  <2>5. ASSUME PollOnce, config' = config PROVE FeesInv'
    <3>1. pool' \in Pools \cup {None} /\ Publish(pool')
      BY <2>5 DEF PollOnce
    <3>2. state' # None => Published(state)'
      BY <2>5, <3>1, PublishKeeps
    <3> QED
      BY <2>1, <2>5, <3>1, <3>2 DEF FeesInv
  <2>6. CASE ReadThroughActions
    <3>1. config' = config /\ (PollOnce \/ UNCHANGED <<pool, state>>)
      BY <2>6 DEF ReadThroughActions
    <3>2. CASE UNCHANGED <<pool, state>>
      <4>1. pool' = pool /\ state' = state
        BY <3>2
      <4> QED
        BY <2>1, <2>2, <3>1, <4>1 DEF FeesInv
    <3> QED
      BY <2>5, <3>1, <3>2
  <2>7. CASE ReadThroughTransport
    BY <2>5, <2>7 DEF ReadThroughTransport
  <2>8. CASE StopGasOracle
    BY <2>1, <2>8 DEF StopGasOracle, FeesInv
  <2>9. CASE UNCHANGED vars
    <3>1. config' = config /\ pool' = pool /\ state' = state
      BY <2>9 DEF vars
    <3> QED
      BY <2>1, <2>2, <3>1 DEF FeesInv
  <2> QED
    BY <2>3, <2>4, <2>6, <2>7, <2>8, <2>9 DEF Next
<1> QED
  BY <1>1, <1>2, PTL DEF Spec

\* A faster tier never recommends a lower tip (oracle.ts, reducePollInputs, and math.ts,
\* computeTiers and cappedTip): whatever blocks, forks, pools, gaps and restarts came
\* before.  The decay is monotone in its anchor, the percentiles are taken of one
\* sorted sample set, and so the order of one publication is handed to the next.
THEOREM TiersAlwaysAscend == Spec => []TiersAscend
<1>1. FeesInv => TiersAscend
  BY DEF FeesInv, Published, Ladders, TiersAscend
<1> QED
  BY <1>1, FeesInvHolds, PTL

-----------------------------------------------------------------------------
\* Positions.

\* Where classifyTip puts a tip: below all that tip more, above all that do not.
LEMMA RankIs ==
  ASSUME NEW samples \in Seq(TipSample), NEW tips, NEW tip \in Nat
  PROVE  LET sorted == ByTip(samples)
             placed == ClassifyTip(samples, tips, tip)
         IN /\ placed.rank \in 0..Len(samples)
            /\ \A i \in 1..Len(samples) : sorted[i].tip <= tip => placed.rank <= i - 1
            /\ \A i \in 1..Len(samples) : tip < sorted[i].tip => i <= placed.rank
            /\ placed.gasFromTop = GasUpTo(sorted, placed.rank)
            /\ placed.percentile =
                 IF samples = <<>> THEN 0
                 ELSE (placed.rank * 100 + Len(samples) \div 2) \div Len(samples)
<1> DEFINE sorted == ByTip(samples)
           n == Len(samples)
           placed == ClassifyTip(samples, tips, tip)
           at == {i \in DOMAIN sorted : sorted[i].tip <= tip}
           weaker == IF at = {} THEN 0 ELSE Min(at)
           rank == IF weaker = 0 THEN Len(sorted) ELSE weaker - 1
<1>1. sorted \in Seq(TipSample) /\ Len(sorted) = n
  BY TipsInOrder
<1>2. \A k, l \in 1..n : k <= l => sorted[l].tip <= sorted[k].tip
  BY TipsInOrder
<1>3. FirstIndex(sorted, LAMBDA s : s.tip <= tip) = weaker
  BY DEF FirstIndex
<1>4. placed.rank = rank
  BY <1>3 DEF ClassifyTip
<1>5. placed.gasFromTop = GasUpTo(sorted, rank)
  BY <1>3 DEF ClassifyTip
<1>6. placed.percentile = IF sorted = <<>> THEN 0
                          ELSE (rank * 100 + Len(sorted) \div 2) \div Len(sorted)
  BY <1>3 DEF ClassifyTip
<1>7. sorted = <<>> <=> samples = <<>>
  BY <1>1
<1> HIDE DEF sorted, placed
<1>8. n \in Nat /\ DOMAIN sorted = 1..n /\ \A i \in 1..n : sorted[i].tip \in Nat
  BY <1>1, GasIs
<1>9. at \in SUBSET Nat
  BY <1>8
<1>10. at # {} => weaker \in at /\ \A i \in at : weaker <= i
  <2> HIDE DEF at
  <2> QED
    BY <1>9, MinIs
<1> HIDE DEF weaker
<1>11. rank \in 0..n
  <2>1. CASE at = {}
    BY <1>1, <1>8, <2>1 DEF weaker
  <2>2. CASE at # {}
    BY <1>1, <1>8, <1>10, <2>2
  <2> QED
    BY <2>1, <2>2
<1>12. ASSUME NEW i \in 1..n, sorted[i].tip <= tip PROVE rank <= i - 1
  <2>1. i \in at
    BY <1>8, <1>12
  <2>2. weaker \in at /\ weaker <= i
    BY <1>10, <2>1
  <2> QED
    BY <1>8, <2>2
<1>13. ASSUME NEW i \in 1..n, tip < sorted[i].tip PROVE i <= rank
  <2>1. CASE at = {}
    BY <1>1, <1>8, <2>1 DEF weaker
  <2>2. CASE at # {}
    <3>1. weaker \in 1..n /\ sorted[weaker].tip <= tip
      BY <1>8, <1>10, <2>2
    <3>2. ~(weaker <= i)
      <4>1. weaker <= i => sorted[i].tip <= sorted[weaker].tip
        BY <1>2, <3>1
      <4> QED
        BY <1>8, <1>13, <3>1, <4>1
    <3> QED
      BY <1>8, <3>1, <3>2
  <2> QED
    BY <2>1, <2>2
<1> HIDE DEF rank
<1> QED
  BY <1>1, <1>4, <1>5, <1>6, <1>7, <1>11, <1>12, <1>13 DEF sorted, placed

\* The price of a place among the samples, and of a place below them all.
LEMMA PriceIs ==
  ASSUME NEW samples \in Seq(TipSample), NEW query
  PROVE  LET sorted == ByTip(samples)
             i      == Pivot(sorted, query)
             price  == TipForBlockPosition(samples, query)
         IN /\ price.requiredTip \in Nat
            /\ i \in 1..Len(samples) =>
                 /\ price.requiredTip = IF query.kind = "behind" THEN Larger(0, sorted[i].tip - 1)
                                        ELSE sorted[i].tip + 1
                 /\ price.pivot = sorted[i]
                 /\ price.rank = i - 1
            /\ i \notin 1..Len(samples) => price.requiredTip = 0 /\ price.pivot = None
<1> DEFINE sorted == ByTip(samples)
           n == Len(samples)
           i == Pivot(sorted, query)
           price == TipForBlockPosition(samples, query)
<1>1. sorted \in Seq(TipSample) /\ Len(sorted) = n
  BY TipsInOrder
<1> HIDE DEF sorted
<1>2. n \in Nat /\ DOMAIN sorted = 1..n /\ \A k \in 1..n : sorted[k].tip \in Nat
  BY <1>1, GasIs
<1>3. samples = <<>> <=> n = 0
  OBVIOUS
<1> HIDE DEF i, n
<1>4. CASE samples = <<>>
  <2>1. price = Position(0, None, 0, 0)
    BY <1>4 DEF TipForBlockPosition
  <2>2. i \notin 1..n
    BY <1>3, <1>4
  <2> QED
    BY <2>1, <2>2 DEF Position, sorted, i, n
<1>5. CASE samples # <<>> /\ i \notin 1..n
  <2>1. price = Position(0, None, Len(sorted), GasOf(sorted))
    BY <1>2, <1>5 DEF TipForBlockPosition, sorted, i
  <2> QED
    BY <1>5, <2>1 DEF Position, sorted, i, n
<1>6. CASE samples # <<>> /\ i \in 1..n
  <2> DEFINE tip == IF query.kind = "behind" THEN Larger(0, sorted[i].tip - 1) ELSE sorted[i].tip + 1
  <2>1. price = Position(tip, sorted[i], i - 1, GasUpTo(sorted, i - 1))
    BY <1>2, <1>6 DEF TipForBlockPosition, sorted, i
  <2>2. tip \in Nat
    BY <1>2, <1>6 DEF Larger
  <2> HIDE DEF tip, price
  <2>3. price.requiredTip = tip /\ price.pivot = sorted[i] /\ price.rank = i - 1
    BY <2>1 DEF Position
  <2> QED
    BY <1>6, <2>2, <2>3 DEF tip, price, sorted, i, n
<1> QED
  BY <1>4, <1>5, <1>6

\* A tip that outbids the place i lands there or above.
LEMMA LandsThere ==
  ASSUME NEW samples \in Seq(TipSample), NEW query, query.kind # "behind",
         Pivot(ByTip(samples), query) \in 1..Len(samples), NEW tips
  PROVE  ClassifyTip(samples, tips, TipForBlockPosition(samples, query).requiredTip).rank
           <= Pivot(ByTip(samples), query) - 1
<1> DEFINE i == Pivot(ByTip(samples), query)
           tip == TipForBlockPosition(samples, query).requiredTip
<1>1. tip = ByTip(samples)[i].tip + 1 /\ tip \in Nat
  BY PriceIs
<1>2. ByTip(samples) \in Seq(TipSample) /\ Len(ByTip(samples)) = Len(samples)
  BY TipsInOrder
<1>3. ByTip(samples)[i].tip \in Nat
  BY <1>2, GasIs
<1> HIDE DEF i, tip
<1>4. ByTip(samples)[i].tip <= tip
  BY <1>1, <1>3
<1> QED
  BY <1>1, <1>4, RankIs DEF i, tip

\* The first place that holds id, when a sample has it.
LEMMA RivalIs ==
  ASSUME NEW samples \in Seq(TipSample), NEW id, NEW kind, kind = "aheadOf" \/ kind = "behind"
  PROVE  LET sorted == ByTip(samples)
             i      == Pivot(sorted, [kind |-> kind, at |-> id])
         IN /\ i \in 0..Len(samples)
            /\ i = 0 <=> \A k \in 1..Len(samples) : samples[k].id # id
            /\ i # 0 => sorted[i].id = id
<1> DEFINE sorted == ByTip(samples)
           n == Len(samples)
           query == [kind |-> kind, at |-> id]
           down == [k \in DOMAIN samples |-> -samples[k].tip]
           at == {k \in DOMAIN sorted : sorted[k].id = id}
           i == Pivot(sorted, query)
<1>1. sorted \in Seq(TipSample) /\ Len(sorted) = n
  BY TipsInOrder
<1>2. \A k \in 1..n : samples[k].tip \in Nat
  BY GasIs
<1>3. PICK place : Places(place, samples, down, sorted)
  <2>1. down \in [DOMAIN samples -> Int]
    BY <1>2
  <2> HIDE DEF down
  <2> QED
    BY <2>1, SortedIs DEF ByTip, down
<1>4. /\ \A k \in 1..n : place[k] \in 1..n /\ sorted[place[k]] = samples[k]
      /\ \A l \in 1..n : \E k \in 1..n : place[k] = l
  BY <1>3 DEF Places, Bijection, Surjection
<1>5. i = FirstIndex(sorted, LAMBDA s : s.id = id)
  BY DEF Pivot
<1>6. i = IF at = {} THEN 0 ELSE Min(at)
  BY <1>5 DEF FirstIndex
<1> HIDE DEF sorted, i
<1>7. n \in Nat /\ DOMAIN sorted = 1..n /\ at \in SUBSET (1..n) /\ at \in SUBSET Nat
  BY <1>1
<1>8. at # {} => Min(at) \in at
  <2> HIDE DEF at
  <2> QED
    BY <1>7, MinIs
<1>9. at = {} <=> \A k \in 1..n : samples[k].id # id
  <2>1. \A k \in 1..n : samples[k].id = id => place[k] \in at
    BY <1>4, <1>7
  <2>2. ASSUME NEW l \in at PROVE \E k \in 1..n : samples[k].id = id
    <3>1. l \in 1..n /\ sorted[l].id = id
      BY <1>7
    <3>2. PICK k \in 1..n : place[k] = l
      BY <1>4, <3>1
    <3> QED
      BY <1>4, <3>1, <3>2
  <2> HIDE DEF at
  <2> QED
    BY <2>1, <2>2
<1>10. i # 0 => i \in at
  BY <1>6, <1>8
<1>11. i = 0 <=> at = {}
  BY <1>6, <1>7, <1>8
<1>12. i \in 0..n /\ (i # 0 => sorted[i].id = id)
  BY <1>6, <1>7, <1>10
<1> QED
  BY <1>9, <1>11, <1>12 DEF i, sorted

\* A tip for a rank ranks there or above.
LEMMA RankInverse ==
  ASSUME NEW samples \in Seq(TipSample), NEW tips, NEW r \in 0..Len(samples)
  PROVE  ClassifyTip(samples, tips,
           TipForBlockPosition(samples, [kind |-> "rank", at |-> r]).requiredTip).rank <= r
<1> DEFINE query == [kind |-> "rank", at |-> r]
           price == TipForBlockPosition(samples, query)
           placed == ClassifyTip(samples, tips, price.requiredTip)
<1>1. Pivot(ByTip(samples), query) = r + 1 /\ query.kind # "behind"
  BY DEF Pivot
<1>2. placed.rank \in 0..Len(samples)
  BY PriceIs, RankIs
<1> HIDE DEF query
<1>3. r + 1 \in 1..Len(samples) => placed.rank <= (r + 1) - 1
  BY <1>1, LandsThere
<1> HIDE DEF placed, price
<1>4. placed.rank <= r
  BY <1>2, <1>3
<1> QED
  BY <1>4 DEF placed, price, query

\* A tip for a gas offset leaves no more gas above it.
LEMMA GasInverse ==
  ASSUME NEW samples \in Seq(TipSample), NEW tips, NEW g \in Nat
  PROVE  ClassifyTip(samples, tips,
           TipForBlockPosition(samples, [kind |-> "gasFromTop", at |-> g]).requiredTip).gasFromTop <= g
<1> DEFINE query == [kind |-> "gasFromTop", at |-> g]
           sorted == ByTip(samples)
           n == Len(samples)
           over == {k \in DOMAIN sorted : GasUpTo(sorted, k) > g}
           i == Pivot(sorted, query)
           price == TipForBlockPosition(samples, query)
           placed == ClassifyTip(samples, tips, price.requiredTip)
<1>1. sorted \in Seq(TipSample) /\ Len(sorted) = n
  BY TipsInOrder
<1>2. /\ \A k \in 0..n : GasUpTo(sorted, k) \in Nat
      /\ GasUpTo(sorted, 0) = 0
      /\ \A l \in 0..n : \A k \in 0..l : GasUpTo(sorted, k) <= GasUpTo(sorted, l)
  BY <1>1, SumIs, SumGrows
<1>3. placed.rank \in 0..n /\ placed.gasFromTop = GasUpTo(sorted, placed.rank)
  BY PriceIs, RankIs
<1>4. i = IF g <= 0 THEN 1 ELSE IF over = {} THEN 0 ELSE Min(over)
  BY DEF Pivot, IndexAtGasOffset
<1>5. i \in 1..n => placed.rank <= i - 1
  <2>1. query.kind # "behind"
    OBVIOUS
  <2> HIDE DEF query
  <2> QED
    BY <2>1, LandsThere
<1> HIDE DEF sorted, i, placed, n
<1>6. n \in Nat /\ DOMAIN sorted = 1..n
  BY <1>1 DEF n
<1>7. over \in SUBSET (1..n) /\ over \in SUBSET Nat
  BY <1>6
<1>8. over # {} => Min(over) \in over /\ \A y \in over : Min(over) <= y
  <2> HIDE DEF over
  <2> QED
    BY <1>7, MinIs
<1>9. \A k \in 0..n : k \notin over => GasUpTo(sorted, k) <= g
  BY <1>2, <1>6
<1> HIDE DEF over
<1>10. CASE i \in 1..n
  <2>1. i - 1 \in 0..n /\ placed.rank \in 0..(i - 1)
    BY <1>3, <1>5, <1>6, <1>10
  <2>2. i - 1 \notin over
    BY <1>4, <1>6, <1>7, <1>8, <1>10
  <2>3. GasUpTo(sorted, placed.rank) <= GasUpTo(sorted, i - 1) /\ GasUpTo(sorted, i - 1) <= g
    BY <1>2, <1>9, <2>1, <2>2
  <2> QED
    BY <1>2, <1>3, <2>1, <2>3 DEF placed, price, query
<1>11. CASE i \notin 1..n
  <2>1. n = 0 \/ over = {}
    BY <1>4, <1>6, <1>7, <1>8, <1>11
  <2>2. placed.rank \notin over
    BY <1>3, <1>6, <1>7, <2>1
  <2>3. GasUpTo(sorted, placed.rank) <= g
    BY <1>3, <1>9, <2>2
  <2> QED
    BY <1>3, <2>3 DEF placed, price, query
<1> QED
  BY <1>10, <1>11

\* Rounding to a whole percentage, half up, never rounds a share above its percentage.
LEMMA RoundedShare ==
  ASSUME NEW n \in Nat \ {0}, NEW p \in 0..100, NEW rank \in Nat,
         rank <= (n * p) \div 100
  PROVE  (rank * 100 + n \div 2) \div n <= p
<1> DEFINE x == n * p
           y == rank * 100 + n \div 2
<1>1. x \in Nat /\ p * n = x /\ (p + 1) * n = x + n
  OBVIOUS
<1> HIDE DEF x
<1>2. rank * 100 <= x
  BY <1>1 DEF x
<1>3. y \in Nat /\ y < x + n
  BY <1>1, <1>2
<1> HIDE DEF y
<1>4. y < (p + 1) * n
  BY <1>1, <1>3
<1>5. ~(y \div n >= p + 1)
  <2> DEFINE q == y \div n
  <2>1. q \in Nat /\ q * n <= y
    BY <1>3
  <2> HIDE DEF q
  <2>2. q >= p + 1 => q * n >= (p + 1) * n
    BY <2>1, Products
  <2> QED
    BY <1>1, <1>3, <1>4, <2>1, <2>2 DEF q
<1>6. y \div n \in Nat
  BY <1>3
<1> QED
  BY <1>5, <1>6 DEF y

\* A tip for a percentile from the top is within it.
LEMMA PercentileInverse ==
  ASSUME NEW samples \in Seq(TipSample), NEW tips, NEW p \in 0..100
  PROVE  ClassifyTip(samples, tips,
           TipForBlockPosition(samples, [kind |-> "percentile", at |-> p]).requiredTip).percentile <= p
<1> DEFINE query == [kind |-> "percentile", at |-> p]
           sorted == ByTip(samples)
           n == Len(samples)
           i == Pivot(sorted, query)
           share == (n * p) \div 100
           price == TipForBlockPosition(samples, query)
           placed == ClassifyTip(samples, tips, price.requiredTip)
<1>1. Len(sorted) = n
  BY TipsInOrder
<1>2. /\ placed.rank \in 0..n
      /\ placed.percentile = IF samples = <<>> THEN 0 ELSE (placed.rank * 100 + n \div 2) \div n
  BY PriceIs, RankIs
<1>3. Larger(0, Smaller(p, 100)) = p
  BY DEF Larger, Smaller
<1>4. i = Smaller(n, share + 1)
  BY <1>1, <1>3 DEF Pivot
<1>5. i \in 1..n => placed.rank <= i - 1
  <2>1. query.kind # "behind"
    OBVIOUS
  <2> HIDE DEF query
  <2> QED
    BY <2>1, LandsThere
<1> HIDE DEF sorted, i, placed, price, query
<1>6. CASE samples = <<>>
  BY <1>2, <1>6 DEF placed, price, query
<1>7. CASE samples # <<>>
  <2>1. n \in Nat \ {0}
    BY <1>7
  <2>2. share \in Nat
    BY <2>1, Shares
  <2> HIDE DEF n, share
  <2>3. i \in 1..n /\ i <= share + 1
    BY <1>4, <2>1, <2>2 DEF Smaller
  <2>4. placed.rank \in Nat /\ placed.rank <= share
    BY <1>2, <1>5, <2>1, <2>2, <2>3
  <2>5. (placed.rank * 100 + n \div 2) \div n <= p
    BY <2>1, <2>4, RoundedShare DEF share
  <2> QED
    BY <1>2, <1>7, <2>5 DEF placed, price, query
<1> QED
  BY <1>6, <1>7

\* A tip ahead of a sample ranks at its place or above, one behind it ranks below.
LEMMA RivalInverse ==
  ASSUME NEW samples \in Seq(TipSample), NEW tips, NEW k \in 1..Len(samples)
  PROVE  LET ahead  == [kind |-> "aheadOf", at |-> samples[k].id]
             behind == [kind |-> "behind", at |-> samples[k].id]
             rival  == TipForBlockPosition(samples, ahead)
         IN /\ ClassifyTip(samples, tips, rival.requiredTip).rank <= rival.rank
            /\ rival.pivot.tip > 0 =>
                 ClassifyTip(samples, tips, TipForBlockPosition(samples, behind).requiredTip).rank
                   > rival.rank
<1> DEFINE sorted == ByTip(samples)
           n == Len(samples)
           id == samples[k].id
           ahead == [kind |-> "aheadOf", at |-> id]
           behind == [kind |-> "behind", at |-> id]
           rival == TipForBlockPosition(samples, ahead)
           i == Pivot(sorted, ahead)
           below == TipForBlockPosition(samples, behind)
           high == ClassifyTip(samples, tips, rival.requiredTip)
           low == ClassifyTip(samples, tips, below.requiredTip)
<1>1. sorted \in Seq(TipSample) /\ Len(sorted) = n
  BY TipsInOrder
<1>2. \A a, b \in 1..n : a <= b => sorted[b].tip <= sorted[a].tip
  BY TipsInOrder
<1>3. i \in 1..n
  <2>1. i \in 0..n /\ (i = 0 => \A c \in 1..n : samples[c].id # id)
    BY RivalIs
  <2> QED
    BY <2>1
<1>4. Pivot(sorted, behind) = i
  <2>1. /\ Pivot(sorted, ahead) = FirstIndex(sorted, LAMBDA s : s.id = id)
        /\ Pivot(sorted, behind) = FirstIndex(sorted, LAMBDA s : s.id = id)
    BY DEF Pivot
  <2> QED
    BY <2>1
<1>5. ahead.kind # "behind" /\ behind.kind = "behind"
  OBVIOUS
<1> HIDE DEF ahead, behind
<1>6. rival.rank = i - 1 /\ rival.pivot = sorted[i]
  BY <1>3, PriceIs
<1>7. high.rank <= i - 1
  BY <1>3, <1>5, LandsThere
<1>8. below.requiredTip = Larger(0, sorted[i].tip - 1) /\ below.requiredTip \in Nat
  BY <1>3, <1>4, <1>5, PriceIs
<1>9. \A c \in 1..n : below.requiredTip < sorted[c].tip => c <= low.rank
  BY <1>8, RankIs
<1>10. low.rank \in Nat
  BY <1>8, RankIs
<1> HIDE DEF sorted, i, rival, below, high, low
<1>11. ASSUME sorted[i].tip > 0 PROVE low.rank > i - 1
  <2>1. sorted[i].tip \in Nat
    BY <1>1, <1>3, GasIs
  <2>2. below.requiredTip < sorted[i].tip
    BY <1>8, <1>11, <2>1 DEF Larger
  <2>3. i <= low.rank
    BY <1>3, <1>9, <2>2
  <2> QED
    BY <1>1, <1>3, <1>10, <2>3
<1> QED
  BY <1>6, <1>7, <1>11 DEF rival, below, high, low, ahead, behind

\* classifyTip is the inverse of tipForBlockPosition (block-position.ts and
\* classify-tip.ts) over whatever blocks and mempool an oracle publishes.
THEOREM InverseRankAlways == Spec => []InverseRank
<1>1. ASSUME FeesInv, state # None PROVE Distribution \in Seq(TipSample)
  <2>1. state.ring \in Seq(Blocks) /\ state.mempoolSamples \in Seq(TipSample)
    BY <1>1 DEF FeesInv, Published
  <2> QED
    BY <2>1, RingSamplesAre DEF Distribution
<1>2. FeesInv => InverseRank
  <2> SUFFICES ASSUME FeesInv, state # None
               PROVE  /\ \A r \in 0..Len(Distribution) : Placed([kind |-> "rank", at |-> r]).rank <= r
                      /\ \A g \in 0..GasOf(Distribution) :
                           Placed([kind |-> "gasFromTop", at |-> g]).gasFromTop <= g
                      /\ \A p \in {0, 20, 50, 100} :
                           Placed([kind |-> "percentile", at |-> p]).percentile <= p
                      /\ \A i \in DOMAIN Distribution :
                           LET ahead  == [kind |-> "aheadOf", at |-> Distribution[i].id]
                               behind == [ahead EXCEPT !.kind = "behind"]
                               rival  == TipForBlockPosition(Distribution, ahead)
                           IN /\ Placed(ahead).rank <= rival.rank
                              /\ rival.pivot.tip > 0 => Placed(behind).rank > rival.rank
    BY DEF InverseRank
  <2>1. Distribution \in Seq(TipSample)
    BY <1>1
  <2>2. \A r \in 0..Len(Distribution) : Placed([kind |-> "rank", at |-> r]).rank <= r
    BY <2>1, RankInverse DEF Placed
  <2>3. \A g \in 0..GasOf(Distribution) : Placed([kind |-> "gasFromTop", at |-> g]).gasFromTop <= g
    <3>1. GasOf(Distribution) \in Nat
      BY <2>1, SumIs DEF GasOf
    <3>2. \A g \in 0..GasOf(Distribution) : g \in Nat
      BY <3>1
    <3> QED
      BY <2>1, <3>2, GasInverse DEF Placed
  <2>4. \A p \in {0, 20, 50, 100} : Placed([kind |-> "percentile", at |-> p]).percentile <= p
    <3> SUFFICES ASSUME NEW p \in {0, 20, 50, 100}
                 PROVE  Placed([kind |-> "percentile", at |-> p]).percentile <= p
      OBVIOUS
    <3>1. p \in 0..100
      OBVIOUS
    <3> QED
      BY <2>1, <3>1, PercentileInverse DEF Placed
  <2>5. ASSUME NEW i \in DOMAIN Distribution
        PROVE  LET ahead  == [kind |-> "aheadOf", at |-> Distribution[i].id]
                   behind == [ahead EXCEPT !.kind = "behind"]
                   rival  == TipForBlockPosition(Distribution, ahead)
               IN /\ Placed(ahead).rank <= rival.rank
                  /\ rival.pivot.tip > 0 => Placed(behind).rank > rival.rank
    <3> DEFINE id == Distribution[i].id
    <3>1. i \in 1..Len(Distribution)
      BY <2>1
    <3>2. [[kind |-> "aheadOf", at |-> id] EXCEPT !.kind = "behind"] = [kind |-> "behind", at |-> id]
      OBVIOUS
    <3> QED
      BY <2>1, <3>1, <3>2, RivalInverse DEF Placed
  <2> QED
    BY <2>2, <2>3, <2>4, <2>5
<1> QED
  BY <1>2, FeesInvHolds, PTL

-----------------------------------------------------------------------------
\* Replacements.

\* The powers of a base, one multiplication after another.
LEMMA PowerIs ==
  ASSUME NEW base \in Nat, NEW n \in Nat
  PROVE  \E f : /\ f[0] = 1 /\ \A k \in 1..n : f[k] = base * f[k - 1]
                /\ \A k \in 0..n : f[k] \in Nat
                /\ Power(base, n) = f[n]
<1> DEFINE Step(k, was) == base * was
           Rounds(g) == g = [k \in 0..n |-> IF k = 0 THEN 1 ELSE base * g[k - 1]]
           step == [p \in (1..n) \X Nat |-> Step(p[1], p[2])]
           acc == CHOOSE g : Rounds(g)
<1>1. Power(base, n) = acc[n]
  BY DEF Power
<1>2. \A was \in Nat : base * was \in Nat
  BY Products
<1>3. step \in [(1..n) \X Nat -> Nat]
  BY <1>2
<1>4. PICK g : Iterates(g, n, Nat, 1, step)
  <2> HIDE DEF step
  <2> QED
    BY <1>3, Recursion
<1>5. ASSUME NEW k \in 1..n PROVE g[k] = base * g[k - 1]
  <2>1. <<k, g[k - 1]>> \in (1..n) \X Nat
    BY <1>4 DEF Iterates
  <2> QED
    BY <1>4, <2>1 DEF Iterates
<1>6. Rounds(g)
  <2>1. \A k \in 0..n : k # 0 => k \in 1..n
    OBVIOUS
  <2> QED
    BY <1>4, <1>5, <2>1 DEF Iterates
<1>7. Rounds(acc)
  <2> HIDE DEF Rounds
  <2> QED
    BY <1>6, Zenon
<1>8. acc[0] = 1 /\ \A k \in 1..n : acc[k] = base * acc[k - 1]
  <2> HIDE DEF acc
  <2> QED
    BY <1>7
<1>9. \A k \in 0..n : acc[k] \in Nat
  <2> HIDE DEF acc
  <2>1. \A k \in 1..n : acc[k - 1] \in Nat => acc[k] \in Nat
    BY <1>2, <1>8
  <2>2. acc[0] \in Nat
    BY <1>8
  <2> QED
    BY <2>1, <2>2, Upward
<1> HIDE DEF acc
<1> QED
  BY <1>1, <1>8, <1>9

LEMMA NineAboveEight ==
  ASSUME NEW n \in Nat
  PROVE  Power(8, n) \in Nat \ {0} /\ Power(9, n) \in Nat /\ Power(8, n) <= Power(9, n)
<1>1. PICK e : /\ e[0] = 1 /\ \A k \in 1..n : e[k] = 8 * e[k - 1]
               /\ \A k \in 0..n : e[k] \in Nat
               /\ Power(8, n) = e[n]
  BY PowerIs
<1>2. PICK f : /\ f[0] = 1 /\ \A k \in 1..n : f[k] = 9 * f[k - 1]
               /\ \A k \in 0..n : f[k] \in Nat
               /\ Power(9, n) = f[n]
  BY PowerIs
<1> DEFINE T == {k \in 0..n : e[k] > 0 /\ e[k] <= f[k]}
<1>3. T \in SUBSET (0..n) /\ 0 \in T
  BY <1>1, <1>2
<1>4. ASSUME NEW k \in 0..(n - 1), k \in T PROVE k + 1 \in T
  <2>1. k + 1 \in 1..n /\ (k + 1) - 1 = k /\ k \in 0..n
    OBVIOUS
  <2>2. e[k + 1] = 8 * e[k] /\ f[k + 1] = 9 * f[k] /\ e[k] \in Nat /\ f[k] \in Nat
    BY <1>1, <1>2, <2>1
  <2>3. e[k] > 0 /\ e[k] <= f[k]
    BY <1>4
  <2> QED
    BY <2>1, <2>2, <2>3
<1>5. T = 0..n
  <2> HIDE DEF T
  <2> QED
    BY <1>3, <1>4, Ascends
<1>6. n \in T
  BY <1>5
<1> QED
  BY <1>1, <1>2, <1>6

LEMMA QuotientAbove ==
  ASSUME NEW W \in Nat \ {0}, NEW a \in Nat, NEW x \in Nat, a * W <= x
  PROVE  x \div W \in Nat /\ a <= x \div W
<1> DEFINE q == x \div W
<1>1. q \in Nat /\ x < q * W + W
  OBVIOUS
<1> HIDE DEF q
<1>2. q + 1 <= a => (q + 1) * W <= a * W
  BY <1>1, Products
<1>3. (q + 1) * W = q * W + W /\ q * W \in Nat /\ a * W \in Nat
  BY <1>1
<1>4. a <= q
  BY <1>1, <1>2, <1>3
<1> QED
  BY <1>1, <1>4 DEF q

\* The buffer never takes from the base fee.
LEMMA BufferedAbove ==
  ASSUME NEW baseFee \in Nat, NEW trend \in Trends
  PROVE  BufferedBase(baseFee, trend) \in Nat /\ baseFee <= BufferedBase(baseFee, trend)
<1> DEFINE num == Power(9, LivenessBlocks)
           den == Power(8, LivenessBlocks)
<1>1. den \in Nat \ {0} /\ num \in Nat /\ den <= num
  BY FeeAssumption, NineAboveEight
<1>2. /\ trend = "falling" => BufferedBase(baseFee, trend) = baseFee
      /\ trend = "rising"  => BufferedBase(baseFee, trend) = (baseFee * (num * 10)) \div (den * 9)
      /\ trend = "stable"  => BufferedBase(baseFee, trend) = (baseFee * num) \div den
  BY DEF BufferedBase
<1> HIDE DEF num, den
<1>3. den * 9 \in Nat \ {0} /\ num * 10 \in Nat /\ den * 9 <= num * 10
  BY <1>1
<1>4. ASSUME NEW W \in Nat \ {0}, NEW N \in Nat, W <= N
      PROVE  (baseFee * N) \div W \in Nat /\ baseFee <= (baseFee * N) \div W
  <2> DEFINE x == baseFee * N
  <2>1. x \in Nat /\ baseFee * W <= x
    BY <1>4
  <2> HIDE DEF x
  <2>2. x \div W \in Nat /\ baseFee <= x \div W
    BY <2>1, QuotientAbove
  <2> QED
    BY <2>2 DEF x
<1>5. trend = "falling" \/ trend = "rising" \/ trend = "stable"
  BY DEF Trends
<1> QED
  BY <1>1, <1>2, <1>3, <1>4, <1>5

LEMMA LadderIs ==
  /\ Ladder[1] = "slow" /\ Ladder[2] = "standard" /\ Ladder[3] = "fast" /\ Ladder[4] = "instant"
  /\ DOMAIN Ladder = 1..4
  /\ \A i \in 1..4 : Ladder[i] \in Tiers
<1>1. /\ Ladder[1] = "slow" /\ Ladder[2] = "standard" /\ Ladder[3] = "fast" /\ Ladder[4] = "instant"
      /\ DOMAIN Ladder = 1..4
  BY DEF Ladder
<1>2. \A i \in 1..4 : i = 1 \/ i = 2 \/ i = 3 \/ i = 4
  OBVIOUS
<1> QED
  BY <1>1, <1>2 DEF Tiers

\* The tier a bump is recommended to tips more than the floor: always by the first
\* strategy, and by all when the ladder ascends from end to end.
LEMMA TierAboveFloor ==
  ASSUME NEW samples, NEW tips, NEW model, Ladders(tips, model),
         NEW priority, NEW id, NEW strategy \in Strategies,
         strategy = "cheapestThatLands" \/ model = "flat",
         RecommendBumpTier(samples, tips, priority, id, strategy) # None,
         Larger(MinimumReplacementFee(priority), OutpaceFloor(samples, id)) \in Nat
  PROVE  LET tier == RecommendBumpTier(samples, tips, priority, id, strategy)
         IN tier \in Tiers
            /\ tips[tier] > Larger(MinimumReplacementFee(priority), OutpaceFloor(samples, id))
<1> DEFINE floor == Larger(MinimumReplacementFee(priority), OutpaceFloor(samples, id))
           at == {i \in DOMAIN Ladder : tips[Ladder[i]] > floor}
           cheapest == IF at = {} THEN 0 ELSE Min(at)
           tier == RecommendBumpTier(samples, tips, priority, id, strategy)
<1>2. tier = IF cheapest = 0 THEN None
             ELSE CASE strategy = "cheapestThatLands" -> Ladder[cheapest]
                    [] strategy = "instant" -> "instant"
                    [] strategy = "oneStepFasterThanRecommended" -> Ladder[Smaller(4, cheapest + 1)]
  BY DEF RecommendBumpTier, FirstIndex
<1> HIDE DEF floor, tier
<1>3. floor \in Nat /\ tier # None
  BY DEF floor, tier
<1>4. at \in SUBSET (1..4) /\ at \in SUBSET Nat
  BY LadderIs
<1>5. cheapest # 0
  BY <1>2, <1>3
<1>6. cheapest \in at
  <2> HIDE DEF at
  <2> QED
    BY <1>4, <1>5, MinIs
<1> HIDE DEF cheapest
<1>7. cheapest \in 1..4 /\ tips[Ladder[cheapest]] > floor
  BY <1>4, <1>6
<1>8. \A t \in Tiers : tips[t] \in Nat
  BY DEF Ladders
<1>9. CASE strategy = "cheapestThatLands"
  <2>1. tier = Ladder[cheapest]
    BY <1>2, <1>5, <1>9
  <2> QED
    BY <1>7, <2>1, LadderIs DEF floor, tier
<1>10. CASE strategy # "cheapestThatLands"
  <2>1. /\ tips["slow"] <= tips["standard"] /\ tips["standard"] <= tips["fast"]
        /\ tips["fast"] <= tips["instant"]
        /\ tips["slow"] \in Nat /\ tips["standard"] \in Nat
        /\ tips["fast"] \in Nat /\ tips["instant"] \in Nat
    BY <1>8, <1>10 DEF Ladders, Tiers
  <2>2. cheapest = 1 \/ cheapest = 2 \/ cheapest = 3 \/ cheapest = 4
    BY <1>7
  <2>3. CASE strategy = "instant"
    <3>1. tier = "instant"
      BY <1>2, <1>5, <2>3
    <3>2. tips["instant"] > floor
      BY <1>3, <1>7, <2>1, <2>2, LadderIs
    <3> QED
      BY <3>1, <3>2 DEF floor, tier, Tiers
  <2>4. CASE strategy = "oneStepFasterThanRecommended"
    <3> DEFINE next == Smaller(4, cheapest + 1)
    <3>1. tier = Ladder[next]
      BY <1>2, <1>5, <2>4
    <3>2. /\ cheapest = 1 => next = 2
          /\ cheapest = 2 => next = 3
          /\ cheapest = 3 => next = 4
          /\ cheapest = 4 => next = 4
      BY DEF Smaller
    <3> HIDE DEF next
    <3>3. tips[Ladder[next]] > floor
      BY <1>3, <1>7, <2>1, <2>2, <3>2, LadderIs
    <3>4. Ladder[next] \in Tiers
      BY <2>2, <3>2, LadderIs
    <3> QED
      BY <3>1, <3>3, <3>4 DEF floor, tier
  <2> QED
    BY <1>10, <2>3, <2>4 DEF Strategies
<1> QED
  BY <1>9, <1>10

\* A node takes what replaces a fee by the minimum or more.
LEMMA MinimumIs ==
  ASSUME NEW c \in Nat
  PROVE  /\ MinimumReplacementFee(c) \in Nat
         /\ MinimumReplacementFee(c) > c
         /\ 100 * MinimumReplacementFee(c) >= 110 * c
  BY DEF MinimumReplacementFee

LEMMA NodesTake ==
  ASSUME NEW priority \in Nat, NEW maxFee \in Nat, NEW tip \in Nat, NEW base \in Nat,
         NEW target, target.maxPriorityFeePerGas = tip, target.maxFeePerGas = base + tip,
         tip > MinimumReplacementFee(priority)
  PROVE  LET old == [maxPriorityFeePerGas |-> priority, maxFeePerGas |-> maxFee]
             new == BumpForReplacement(old, target)
         IN /\ Takes(old, new)
            /\ new.maxPriorityFeePerGas = tip
            /\ new.maxFeePerGas \in Nat /\ new.maxFeePerGas >= base + tip
<1> DEFINE old == [maxPriorityFeePerGas |-> priority, maxFeePerGas |-> maxFee]
           new == BumpForReplacement(old, target)
           low == MinimumReplacementFee(priority)
           high == MinimumReplacementFee(maxFee)
<1>1. /\ low \in Nat /\ low > priority /\ 100 * low >= 110 * priority
      /\ high \in Nat /\ high > maxFee /\ 100 * high >= 110 * maxFee
  BY MinimumIs
<1>2. /\ new.maxPriorityFeePerGas = Larger(tip, low)
      /\ new.maxFeePerGas = Larger(Larger(tip, low), Larger(base + tip, high))
  BY DEF BumpForReplacement
<1>3. tip > low
  OBVIOUS
<1> HIDE DEF new, low, high
<1>4. /\ new.maxPriorityFeePerGas = tip
      /\ new.maxFeePerGas \in Nat /\ new.maxFeePerGas >= base + tip /\ new.maxFeePerGas >= high
  BY <1>1, <1>2, <1>3 DEF Larger
<1>5. /\ new.maxPriorityFeePerGas > priority /\ 100 * new.maxPriorityFeePerGas >= 110 * priority
      /\ new.maxFeePerGas > maxFee /\ 100 * new.maxFeePerGas >= 110 * maxFee
  BY <1>1, <1>3, <1>4
<1>6. Takes(old, new)
  BY <1>5 DEF Takes
<1> QED
  BY <1>4, <1>6 DEF new

\* The floor to outpace: 0, or more than the tip of the sample just ahead.
LEMMA FloorIs ==
  ASSUME NEW samples \in Seq(TipSample), NEW id
  PROVE  LET sorted == ByTip(samples)
             stuck  == TipForBlockPosition(samples, [kind |-> "aheadOf", at |-> id])
         IN /\ OutpaceFloor(samples, id) \in Nat
            /\ stuck.pivot # None /\ stuck.rank > 0 =>
                 /\ stuck.rank \in 1..Len(samples)
                 /\ OutpaceFloor(samples, id) = sorted[stuck.rank].tip + 1
<1> DEFINE sorted == ByTip(samples)
           n == Len(samples)
           ahead == [kind |-> "aheadOf", at |-> id]
           i == Pivot(sorted, ahead)
           stuck == TipForBlockPosition(samples, ahead)
           query == [kind |-> "rank", at |-> stuck.rank - 1]
           price == TipForBlockPosition(samples, query)
<1>1. i \in 1..n => stuck.rank = i - 1
  BY PriceIs
<1>2. i \notin 1..n => stuck.pivot = None
  BY PriceIs
<1>3. price.requiredTip \in Nat
  BY PriceIs
<1>4. OutpaceFloor(samples, id) = IF stuck.pivot = None \/ stuck.rank = 0 THEN 0 ELSE price.requiredTip
  BY DEF OutpaceFloor
<1>5. query.kind # "behind" /\ Pivot(sorted, query) = (stuck.rank - 1) + 1
  BY DEF Pivot
<1> HIDE DEF i, stuck
<1>6. ASSUME stuck.pivot # None, stuck.rank > 0
      PROVE  /\ stuck.rank \in 1..n
             /\ price.requiredTip = sorted[stuck.rank].tip + 1
  <2>1. i \in 1..n /\ stuck.rank = i - 1
    BY <1>1, <1>2, <1>6
  <2>2. stuck.rank \in 1..n /\ (stuck.rank - 1) + 1 = stuck.rank
    BY <1>6, <2>1
  <2>3. Pivot(sorted, query) = stuck.rank
    BY <1>5, <2>2
  <2> HIDE DEF query
  <2> QED
    BY <1>5, <2>2, <2>3, PriceIs
<1>7. stuck.pivot # None /\ stuck.rank > 0 =>
        stuck.rank \in 1..n /\ OutpaceFloor(samples, id) = sorted[stuck.rank].tip + 1
  <2> SUFFICES ASSUME stuck.pivot # None, stuck.rank > 0
               PROVE  stuck.rank \in 1..n /\ OutpaceFloor(samples, id) = sorted[stuck.rank].tip + 1
    OBVIOUS
  <2>1. stuck.rank \in 1..n /\ price.requiredTip = sorted[stuck.rank].tip + 1
    BY <1>6
  <2>2. stuck.rank # 0
    BY <2>1
  <2> HIDE DEF price
  <2> QED
    BY <1>4, <2>1, <2>2
<1>8. OutpaceFloor(samples, id) \in Nat
  <2> HIDE DEF price
  <2> QED
    BY <1>3, <1>4
<1> QED
  BY <1>7, <1>8 DEF stuck

\* Fewer than r samples tip more than the one in place r.
LEMMA FewAbove ==
  ASSUME NEW samples \in Seq(TipSample), NEW r \in 1..Len(samples), NEW tip \in Nat,
         ByTip(samples)[r].tip < tip, NEW Some \in SUBSET (1..Len(samples)),
         \A k \in Some : samples[k].tip >= tip
  PROVE  Cardinality(Some) \in Nat /\ Cardinality(Some) < r
<1> DEFINE sorted == ByTip(samples)
           n == Len(samples)
           down == [k \in DOMAIN samples |-> -samples[k].tip]
<1>1. sorted \in Seq(TipSample) /\ Len(sorted) = n
  BY TipsInOrder
<1>2. \A a, b \in 1..n : a <= b => sorted[b].tip <= sorted[a].tip
  BY TipsInOrder
<1>3. \A k \in 1..n : samples[k].tip \in Nat
  BY GasIs
<1>4. PICK place : Places(place, samples, down, sorted)
  <2>1. down \in [DOMAIN samples -> Int]
    BY <1>3
  <2> HIDE DEF down
  <2> QED
    BY <2>1, SortedIs DEF ByTip, down
<1>5. /\ \A k \in 1..n : place[k] \in 1..n /\ sorted[place[k]] = samples[k]
      /\ \A k, l \in 1..n : place[k] = place[l] => k = l
  BY <1>4 DEF Places, Bijection, Injection, IsInjective
<1>6. sorted[r].tip < tip
  OBVIOUS
<1> HIDE DEF sorted
<1>7. n \in Nat /\ r \in 1..n /\ r - 1 \in Nat /\ \A l \in 1..n : sorted[l].tip \in Nat
  BY <1>1, GasIs
<1>8. ASSUME NEW k \in Some PROVE place[k] \in 1..(r - 1)
  <2>1. k \in 1..n /\ samples[k].tip >= tip
    OBVIOUS
  <2>2. place[k] \in 1..n /\ sorted[place[k]].tip >= tip
    BY <1>5, <2>1
  <2>3. ~(r <= place[k])
    <3>1. r <= place[k] => sorted[place[k]].tip <= sorted[r].tip
      BY <1>2, <1>7, <2>2
    <3> QED
      BY <1>6, <1>7, <2>2, <3>1
  <2> QED
    BY <1>7, <2>2, <2>3
<1> DEFINE f == [k \in Some |-> place[k]]
<1>9. f \in Injection(Some, 1..(r - 1))
  <2>1. f \in [Some -> 1..(r - 1)] /\ DOMAIN f = Some
    BY <1>8
  <2>2. \A k, l \in Some : f[k] = f[l] => k = l
    BY <1>5
  <2> HIDE DEF f
  <2> QED
    BY <2>1, <2>2 DEF Injection, IsInjective
<1>10. IsFiniteSet(1..(r - 1)) /\ Cardinality(1..(r - 1)) = r - 1
  <2> DEFINE m == r - 1
  <2>1. m \in Nat /\ 1 \in Int /\ m \in Int
    BY <1>7
  <2> HIDE DEF m
  <2>2. IsFiniteSet(1..m) /\ Cardinality(1..m) = IF 1 > m THEN 0 ELSE m - 1 + 1
    BY <2>1, FS_Interval
  <2>3. IsFiniteSet(1..m) /\ Cardinality(1..m) = m
    BY <2>1, <2>2
  <2> QED
    BY <2>3 DEF m
<1>11. IsFiniteSet(Some) /\ Cardinality(Some) <= r - 1
  BY <1>9, <1>10, FS_Injection
<1>12. Cardinality(Some) \in Nat
  BY <1>11, FS_CardinalityType
<1> QED
  BY <1>7, <1>11, <1>12

\* The replacement at a recommended tier is taken and outbids the one ahead.
LEMMA ReplacementOutbids ==
  ASSUME FeesInv, state # None, NEW tx \in Stuck, NEW strategy \in Strategies,
         strategy = "cheapestThatLands" \/ config.model = "flat"
  PROVE  Outbids(tx, strategy)
<1> DEFINE samples == state.mempoolSamples
           tier == RecommendBumpTier(samples, state.tips, tx.priority, tx.id, strategy)
           stuck == TipForBlockPosition(samples, [kind |-> "aheadOf", at |-> tx.id])
           low == MinimumReplacementFee(tx.priority)
           ahead == OutpaceFloor(samples, tx.id)
           tip == state.tips[tier]
           base == BufferedBase(state.baseFee, state.trend)
           new == Replacement(tx, tier)
<1>1. /\ samples \in Seq(TipSample) /\ Ladders(state.tips, config.model)
      /\ state.baseFee \in Nat /\ state.trend \in Trends
  BY DEF FeesInv, Published
<1>2. tx \in Transactions /\ tx.maxFee \in Nat /\ tx.priority \in Nat
  <2>1. PICK p \in Pools : tx \in ToSet(p)
    BY DEF Stuck
  <2>2. p \in Seq(Transactions)
    BY FeesAssumption
  <2>3. tx \in Transactions
    BY <2>1, <2>2 DEF ToSet
  <2>4. tx.maxFee # None /\ tx.priority # None
    BY DEF Stuck
  <2>5. tx.maxFee \in Optional /\ tx.priority \in Optional
    BY <2>3 DEF Transactions
  <2> QED
    BY <2>3, <2>4, <2>5 DEF Optional
<1>3. low \in Nat /\ ahead \in Nat
  BY <1>1, <1>2, MinimumIs, FloorIs
<1>4. base \in Nat /\ state.baseFee <= base
  BY <1>1, BufferedAbove
<1> SUFFICES ASSUME tier # None
             PROVE  /\ Takes(FeesOf(tx), new)
                    /\ stuck.pivot # None /\ stuck.rank > 0 => NotOutbid(tx, new) < stuck.rank
  BY DEF Outbids
<1>5. tier \in Tiers /\ tip > low /\ tip > ahead /\ tip \in Nat
  <2>1. Larger(low, ahead) \in Nat /\ Larger(low, ahead) >= low /\ Larger(low, ahead) >= ahead
    BY <1>3 DEF Larger
  <2>2. tier \in Tiers /\ tip > Larger(low, ahead)
    BY <1>1, <2>1, TierAboveFloor
  <2>3. tip \in Nat
    BY <1>1, <2>2 DEF Ladders
  <2> HIDE DEF low, ahead, tip, tier
  <2> QED
    BY <1>3, <2>1, <2>2, <2>3
<1>6. /\ Takes(FeesOf(tx), new)
      /\ new.maxPriorityFeePerGas = tip
      /\ new.maxFeePerGas \in Nat /\ new.maxFeePerGas >= base + tip
  <2> DEFINE target == Recommendation(tip, state.baseFee, state.trend)
  <2>1. target.maxPriorityFeePerGas = tip /\ target.maxFeePerGas = base + tip
    BY DEF Recommendation
  <2>2. new = BumpForReplacement(FeesOf(tx), target)
    BY DEF Replacement
  <2> DEFINE old == [maxPriorityFeePerGas |-> tx.priority, maxFeePerGas |-> tx.maxFee]
             bump == BumpForReplacement(old, target)
  <2>3. FeesOf(tx) = old
    BY DEF FeesOf
  <2>4. tip > MinimumReplacementFee(tx.priority)
    BY <1>5
  <2> HIDE DEF target, new, base, tip
  <2>5. /\ Takes(old, bump)
        /\ bump.maxPriorityFeePerGas = tip
        /\ bump.maxFeePerGas \in Nat /\ bump.maxFeePerGas >= base + tip
    BY <1>2, <1>4, <1>5, <2>1, <2>4, NodesTake
  <2> QED
    BY <2>2, <2>3, <2>5
<1>7. ASSUME stuck.pivot # None, stuck.rank > 0 PROVE NotOutbid(tx, new) < stuck.rank
  <2> DEFINE bumped == [tx EXCEPT !.priority = new.maxPriorityFeePerGas, !.maxFee = new.maxFeePerGas]
             Some == {k \in DOMAIN samples : samples[k].id # tx.id /\ samples[k].tip >= tip}
  <2>1. bumped.priority = new.maxPriorityFeePerGas /\ bumped.maxFee = new.maxFeePerGas
    BY <1>2 DEF Transactions
  <2>2. EffectiveTip(bumped, state.baseFee) = tip
    <3>1. bumped.priority # None /\ bumped.maxFee # None
      BY <1>5, <1>6, <2>1, NoneIsNoNumber
    <3>2. EffectiveTip(bumped, state.baseFee) =
            Larger(0, Smaller(bumped.priority, bumped.maxFee - state.baseFee))
      BY <3>1 DEF EffectiveTip
    <3> HIDE DEF bumped, new, tip, base
    <3>3. tip <= new.maxFeePerGas - state.baseFee
      BY <1>1, <1>4, <1>5, <1>6
    <3> QED
      BY <1>1, <1>5, <1>6, <2>1, <3>2, <3>3 DEF Larger, Smaller
  <2>3. NotOutbid(tx, new) = Cardinality(Some)
    <3> HIDE DEF tip, new
    <3> QED
      BY <2>2 DEF NotOutbid, Quantify
  <2>4. stuck.rank \in 1..Len(samples) /\ ahead = ByTip(samples)[stuck.rank].tip + 1
    BY <1>1, <1>7, FloorIs
  <2>5. ByTip(samples)[stuck.rank].tip \in Nat
    <3>1. ByTip(samples) \in Seq(TipSample) /\ Len(ByTip(samples)) = Len(samples)
      BY <1>1, TipsInOrder
    <3> QED
      BY <2>4, <3>1, GasIs
  <2> HIDE DEF tip, ahead, samples, stuck
  <2>6. ByTip(samples)[stuck.rank].tip < tip
    BY <1>5, <2>4, <2>5
  <2>7. Some \in SUBSET (1..Len(samples)) /\ \A k \in Some : samples[k].tip >= tip
    BY <1>1
  <2>8. Cardinality(Some) < stuck.rank
    <3> HIDE DEF Some
    <3> QED
      BY <1>1, <1>5, <2>4, <2>6, <2>7, FewAbove
  <2> QED
    BY <2>3, <2>8
<1> QED
  BY <1>6, <1>7

\* Replacing a stuck transaction at the recommended tier works (replacement.ts): a node
\* takes the fees, and they outbid the one that was just ahead.  It takes the floor of
\* the recommendation, the buffered base fee, which leaves the whole tip to the
\* producer, and, for the strategies that go above the cheapest tier, the order of the
\* tiers.
THEOREM BumpsAlwaysOutbid == Spec => []BumpOutbids
<1>1. FeesInv => BumpOutbids
  BY ReplacementOutbids DEF BumpOutbids
<1> QED
  BY <1>1, FeesInvHolds, PTL

-----------------------------------------------------------------------------
\* How long a recommendation lasts.

\* The base fees of the next blocks when every one of them is full: an eighth more, and
\* one at least (EIP-1559).
WorstClimb(baseFee) ==
  LET worst[k \in 0..LivenessBlocks] ==
        IF k = 0 THEN baseFee ELSE worst[k - 1] + Larger(1, worst[k - 1] \div 8)
  IN worst

\* A transaction at any tier pays its whole tip in each of the next baseFeeLivenessBlocks
\* blocks, however fast the base fee rises ("so the worst-case upper-bound trajectory over
\* N blocks is (9/8)^N", math.ts 227-246): the quotient of bigints, cut once at the end,
\* is not below the climb, cut in every block.  A falling market gets no headroom, and
\* below 8 wei the protocol's step of one is more than an eighth.
OffersLast ==
  state # None /\ state.trend # "falling" /\ state.baseFee >= 8 =>
    \A tier \in Tiers : \A n \in 0..LivenessBlocks :
      LET offer == Recommendation(state.tips[tier], state.baseFee, state.trend)
      IN offer.maxFeePerGas - WorstClimb(state.baseFee)[n] >= offer.maxPriorityFeePerGas

LEMMA ClimbIs ==
  ASSUME NEW b \in Nat
  PROVE  LET c == WorstClimb(b)
         IN /\ c[0] = b
            /\ \A k \in 1..LivenessBlocks : c[k] = c[k - 1] + Larger(1, c[k - 1] \div 8)
            /\ \A k \in 0..LivenessBlocks : c[k] \in Nat
<1> DEFINE n == LivenessBlocks
           Step(k, was) == was + Larger(1, was \div 8)
           Rounds(g) == g = [k \in 0..n |-> IF k = 0 THEN b ELSE g[k - 1] + Larger(1, g[k - 1] \div 8)]
           step == [p \in (1..n) \X Nat |-> Step(p[1], p[2])]
           acc == CHOOSE g : Rounds(g)
<1>1. WorstClimb(b) = acc /\ n \in Nat
  BY FeeAssumption DEF WorstClimb
<1>2. \A was \in Nat : was + Larger(1, was \div 8) \in Nat
  BY DEF Larger
<1>3. step \in [(1..n) \X Nat -> Nat]
  BY <1>2
<1>4. PICK g : Iterates(g, n, Nat, b, step)
  <2> HIDE DEF step, n
  <2> QED
    BY <1>1, <1>3, Recursion
<1>5. ASSUME NEW k \in 1..n PROVE g[k] = g[k - 1] + Larger(1, g[k - 1] \div 8)
  <2>1. <<k, g[k - 1]>> \in (1..n) \X Nat
    BY <1>1, <1>4 DEF Iterates
  <2> QED
    BY <1>4, <2>1 DEF Iterates
<1>6. Rounds(g)
  <2>1. \A k \in 0..n : k # 0 => k \in 1..n
    BY <1>1
  <2> QED
    BY <1>4, <1>5, <2>1 DEF Iterates
<1>7. Rounds(acc)
  <2> HIDE DEF Rounds
  <2> QED
    BY <1>6, Zenon
<1>8. acc[0] = b /\ \A k \in 1..n : acc[k] = acc[k - 1] + Larger(1, acc[k - 1] \div 8)
  <2> HIDE DEF acc
  <2>1. 0 \in 0..n /\ \A k \in 1..n : k \in 0..n /\ k # 0
    BY <1>1
  <2> QED
    BY <1>7, <2>1
<1>9. \A k \in 0..n : acc[k] \in Nat
  <2> HIDE DEF acc, n
  <2>1. \A k \in 1..n : acc[k - 1] \in Nat => acc[k] \in Nat
    BY <1>2, <1>8
  <2>2. acc[0] \in Nat
    BY <1>8
  <2> QED
    BY <1>1, <2>1, <2>2, Upward
<1> HIDE DEF acc
<1> QED
  BY <1>1, <1>8, <1>9

\* A number that is z grown by an eighth at most, against the powers of 8 and 9.
LEMMA GrowsBelow ==
  ASSUME NEW x \in Nat, NEW z \in Nat, NEW e \in Nat, NEW y \in Nat,
         z * e <= y, 8 * x <= 9 * z
  PROVE  x * (8 * e) <= 9 * y
<1> DEFINE p == z * e
           q == x * e
<1>1. (8 * x) * e <= (9 * z) * e
  BY Products
<1>2. (8 * x) * e = 8 * q /\ (9 * z) * e = 9 * p /\ x * (8 * e) = 8 * q
  OBVIOUS
<1>3. p \in Nat /\ q \in Nat /\ p <= y
  OBVIOUS
<1> HIDE DEF p, q
<1> QED
  BY <1>1, <1>2, <1>3

\* Every block multiplies the base fee by 9/8 at most.
LEMMA ClimbBelow ==
  ASSUME NEW b \in Nat, b >= 8, NEW j \in 0..LivenessBlocks
  PROVE  /\ WorstClimb(b)[j] \in Nat
         /\ WorstClimb(b)[j] * Power(8, LivenessBlocks) <= b * Power(9, LivenessBlocks)
<1> DEFINE n == LivenessBlocks
           c == WorstClimb(b)
<1>1. n \in Nat /\ j \in 0..n
  BY FeeAssumption
<1>2. /\ c[0] = b
      /\ \A k \in 1..n : c[k] = c[k - 1] + Larger(1, c[k - 1] \div 8)
      /\ \A k \in 0..n : c[k] \in Nat
  BY ClimbIs
<1> HIDE DEF c
<1>3. PICK e : /\ e[0] = 1 /\ \A k \in 1..n : e[k] = 8 * e[k - 1]
               /\ \A k \in 0..n : e[k] \in Nat
               /\ Power(8, n) = e[n]
  BY <1>1, PowerIs
<1>4. PICK f : /\ f[0] = 1 /\ \A k \in 1..n : f[k] = 9 * f[k - 1]
               /\ \A k \in 0..n : f[k] \in Nat
               /\ Power(9, n) = f[n]
  BY <1>1, PowerIs
<1> HIDE DEF n
<1> DEFINE T == {k \in 0..n : c[k] >= 8 /\ \A i \in 0..k : c[i] * e[k] <= b * f[k]}
<1>5. T \in SUBSET (0..n) /\ 0 \in T
  <2>1. \A i \in 0..0 : c[i] * e[0] <= b * f[0]
    BY <1>1, <1>2, <1>3, <1>4
  <2> QED
    BY <1>1, <1>2, <2>1
<1>6. ASSUME NEW k \in 0..(n - 1), k \in T PROVE k + 1 \in T
  <2>1. k + 1 \in 1..n /\ (k + 1) - 1 = k /\ k \in 0..n /\ k + 1 \in 0..n
    BY <1>1
  <2>2. e[k + 1] = 8 * e[k] /\ f[k + 1] = 9 * f[k] /\ e[k] \in Nat /\ f[k] \in Nat
    BY <1>3, <1>4, <2>1
  <2>3. c[k] \in Nat /\ c[k + 1] \in Nat /\ c[k + 1] = c[k] + Larger(1, c[k] \div 8)
    BY <1>2, <2>1
  <2>4. c[k] >= 8 /\ \A i \in 0..k : c[i] * e[k] <= b * f[k]
    BY <1>6
  <2>5. c[k + 1] >= 8 /\ 8 * c[k + 1] <= 9 * c[k]
    BY <2>3, <2>4 DEF Larger
  <2>6. b * f[k] \in Nat /\ b * f[k + 1] = 9 * (b * f[k])
    BY <2>2
  <2>7. \A x, z \in Nat : z * e[k] <= b * f[k] /\ 8 * x <= 9 * z => x * e[k + 1] <= b * f[k + 1]
    <3> DEFINE y == b * f[k]
    <3>1. y \in Nat /\ e[k] \in Nat
      BY <2>2, <2>6
    <3> HIDE DEF y
    <3>2. \A x, z \in Nat : z * e[k] <= y /\ 8 * x <= 9 * z => x * (8 * e[k]) <= 9 * y
      BY <3>1, GrowsBelow
    <3> QED
      BY <2>2, <2>6, <3>2 DEF y
  <2>8. ASSUME NEW i \in 0..k PROVE c[i] * e[k + 1] <= b * f[k + 1]
    <3>1. c[i] \in Nat /\ c[i] * e[k] <= b * f[k]
      BY <1>1, <1>2, <2>1, <2>4
    <3>2. 8 * c[i] <= 9 * c[i]
      BY <3>1
    <3> QED
      BY <2>7, <3>1, <3>2
  <2>9. c[k + 1] * e[k + 1] <= b * f[k + 1]
    <3>1. c[k] * e[k] <= b * f[k]
      BY <2>1, <2>4
    <3> QED
      BY <2>3, <2>5, <2>7, <3>1
  <2>10. \A i \in 0..(k + 1) : i \in 0..k \/ i = k + 1
    BY <2>1
  <2> QED
    BY <2>1, <2>5, <2>8, <2>9, <2>10
<1>7. T = 0..n
  <2> HIDE DEF T
  <2> QED
    BY <1>1, <1>5, <1>6, Ascends
<1>8. c[j] * e[n] <= b * f[n]
  BY <1>1, <1>7
<1> QED
  BY <1>1, <1>2, <1>3, <1>4, <1>8 DEF c, n

\* The buffered base fee is not below the climb: whole numbers under a quotient are
\* under the quotient cut off.
LEMMA BufferLasts ==
  ASSUME NEW b \in Nat, b >= 8, NEW trend \in Trends, trend # "falling",
         NEW j \in 0..LivenessBlocks
  PROVE  WorstClimb(b)[j] \in Nat /\ WorstClimb(b)[j] <= BufferedBase(b, trend)
<1> DEFINE num == Power(9, LivenessBlocks)
           den == Power(8, LivenessBlocks)
           w == WorstClimb(b)[j]
<1>1. den \in Nat \ {0} /\ num \in Nat
  BY FeeAssumption, NineAboveEight
<1>2. w \in Nat /\ w * den <= b * num
  BY ClimbBelow
<1>3. /\ trend = "rising"  => BufferedBase(b, trend) = (b * (num * 10)) \div (den * 9)
      /\ trend = "stable"  => BufferedBase(b, trend) = (b * num) \div den
  BY DEF BufferedBase
<1> HIDE DEF num, den, w
<1>4. w <= (b * num) \div den
  <2> DEFINE x == b * num
  <2>1. x \in Nat /\ w * den <= x
    BY <1>1, <1>2
  <2> HIDE DEF x
  <2> QED
    BY <1>1, <1>2, <2>1, QuotientAbove DEF x
<1>5. w <= (b * (num * 10)) \div (den * 9)
  <2> DEFINE x == b * (num * 10)
             W == den * 9
  <2>1. b * num \in Nat /\ w * den \in Nat /\ W \in Nat \ {0}
    BY <1>1, <1>2
  <2>2. x = 10 * (b * num) /\ w * W = 9 * (w * den)
    BY <1>1, <1>2
  <2>3. x \in Nat /\ w * W <= x
    BY <1>2, <2>1, <2>2
  <2> HIDE DEF x, W
  <2>4. w <= x \div W
    BY <1>2, <2>1, <2>3, QuotientAbove
  <2> QED
    BY <2>4 DEF x, W
<1>6. trend = "rising" \/ trend = "stable"
  BY DEF Trends
<1> QED
  BY <1>2, <1>3, <1>4, <1>5, <1>6 DEF w

\* What the oracle recommends at any tier outlasts every climb of the base fee over
\* baseFeeLivenessBlocks blocks, unless it calls the market falling
\* (baseFeeBufferMultiplier and computeTiers, math.ts 227-262 and 320-373).
THEOREM OffersAlwaysLast == Spec => []OffersLast
<1>1. FeesInv => OffersLast
  <2> SUFFICES ASSUME FeesInv, state # None, state.trend # "falling", state.baseFee >= 8,
                      NEW tier \in Tiers, NEW n \in 0..LivenessBlocks
               PROVE  LET offer == Recommendation(state.tips[tier], state.baseFee, state.trend)
                      IN offer.maxFeePerGas - WorstClimb(state.baseFee)[n] >= offer.maxPriorityFeePerGas
    BY DEF OffersLast
  <2> DEFINE w == WorstClimb(state.baseFee)[n]
             base == BufferedBase(state.baseFee, state.trend)
             tip == state.tips[tier]
  <2>1. state.baseFee \in Nat /\ state.trend \in Trends /\ tip \in Nat
    BY DEF FeesInv, Published, Ladders
  <2>2. w \in Nat /\ w <= base
    BY <2>1, BufferLasts
  <2>3. base \in Nat
    BY <2>1, BufferedAbove
  <2>4. /\ Recommendation(tip, state.baseFee, state.trend).maxFeePerGas = base + tip
        /\ Recommendation(tip, state.baseFee, state.trend).maxPriorityFeePerGas = tip
    BY DEF Recommendation
  <2> HIDE DEF w, base, tip
  <2>5. (base + tip) - w >= tip
    BY <2>1, <2>2, <2>3
  <2> QED
    BY <2>4, <2>5 DEF w, tip
<1> QED
  BY <1>1, FeesInvHolds, PTL
================================================================================
