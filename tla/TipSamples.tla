------------------------------ MODULE TipSamples ------------------------------
(***************************************************************************)
(* The arithmetic of @valve-tech/gas-oracle: what a transaction tips       *)
(* (samples.ts), which tip each tier recommends (math.ts), where a tip     *)
(* lands among samples (block-position.ts, classify-tip.ts), and how a     *)
(* stuck transaction is outbid (replacement.ts).                           *)
(*                                                                         *)
(* A transaction is [id, gas, type, maxFee, priority, gasPrice], the       *)
(* fields a node may leave out being None.  Integers are the code's        *)
(* bigints, which do not overflow.  Wad stands for 1e18.                   *)
(***************************************************************************)
EXTENDS Integers, Sequences, FiniteSetsExt

CONSTANTS
  None,            \* undefined, null
  Ids,             \* what identifies a transaction: its hash
  Wad,             \* the fixed-point scale
  DecayCap,        \* priorityFeeDecayCap against Wad
  LivenessBlocks   \* baseFeeLivenessBlocks

ASSUME FeeAssumption ==
  /\ Wad \in Nat \ {0} /\ (DecayCap = None \/ DecayCap \in 0..Wad)
  /\ LivenessBlocks \in Nat \ {0}
ASSUME NoneIsNoNumber == None \notin Nat

Larger(a, b) == IF a > b THEN a ELSE b
Smaller(a, b) == IF a < b THEN a ELSE b

\* sumGasUpTo: the gas of the first n samples.
GasUpTo(samples, n) ==
  LET sum[k \in 0..Len(samples)] == IF k = 0 THEN 0 ELSE sum[k - 1] + samples[k].gas
  IN sum[n]
GasOf(samples) == GasUpTo(samples, Len(samples))

\* filter: the elements of s at these places, in their order.
Filtered(s, places) ==
  LET kept[n \in 0..Len(s)] ==
        IF n = 0 THEN <<>> ELSE IF n \in places THEN Append(kept[n - 1], s[n]) ELSE kept[n - 1]
  IN kept[Len(s)]

\* sort: low keys first, and equal keys in their order.  (SubSeq takes the whole
\* sequence, which TLC then evaluates once.)
Sorted(samples, key) ==
  LET upTo(i) == {j \in DOMAIN samples : key[j] < key[i] \/ (key[j] = key[i] /\ j <= i)}
      nth(k)  == samples[CHOOSE i \in DOMAIN samples : Cardinality(upTo(i)) = k]
  IN SubSeq([k \in DOMAIN samples |-> nth(k)], 1, Len(samples))

-----------------------------------------------------------------------------
\* Samples.

Optional == Nat \cup {None}
Transactions ==
  [id : Ids, gas : Optional, type : Optional,
   maxFee : Optional, priority : Optional, gasPrice : Optional]
TipSample == [id : Ids, tip : Nat, gas : Nat, type : Optional]

\* effectiveTip: never below 0, which is also what a transaction without fees tips.
EffectiveTip(tx, baseFee) ==
  IF tx.maxFee # None /\ tx.priority # None
  THEN Larger(0, Smaller(tx.priority, tx.maxFee - baseFee))
  ELSE IF tx.gasPrice # None THEN Larger(0, tx.gasPrice - baseFee) ELSE 0

Sample(tx, baseFee) ==
  [id |-> tx.id, tip |-> EffectiveTip(tx, baseFee), gas |-> tx.gas, type |-> tx.type]

\* blockToSample and mempoolToSamples: a transaction without gas has no weight.
Samples(txs, baseFee) ==
  LET weighed == Filtered(txs, {i \in DOMAIN txs : txs[i].gas # None})
  IN [i \in DOMAIN weighed |-> Sample(weighed[i], baseFee)]

\* isPayingLaneSample: an unknown type does not pay.
IsPayingLane(s) == s.type # None /\ s.type >= 2
PayingLane(samples) == Filtered(samples, {i \in DOMAIN samples : IsPayingLane(samples[i])})

-----------------------------------------------------------------------------
\* Tiers.

Tiers == {"slow", "standard", "fast", "instant"}
Ladder == <<"slow", "standard", "fast", "instant">>
Percentile == [slow |-> 10, standard |-> 50, fast |-> 75, instant |-> 90]

\* gasWeightedPercentiles, for one percentile.
GasWeightedPercentile(samples, p) ==
  LET sorted == Sorted(samples, [i \in DOMAIN samples |-> samples[i].tip])
      target == (GasOf(sorted) * p) \div 100
  IN IF GasOf(sorted) = 0 THEN 0
     ELSE sorted[Min({i \in DOMAIN sorted : GasUpTo(sorted, i) >= target})].tip

\* What is left of Wad after n blocks, rounded down at every block.
Retained(n) ==
  LET factor[k \in 0..n] == IF k = 0 THEN Wad ELSE (factor[k - 1] * (Wad - DecayCap)) \div Wad
  IN factor[n]

\* cappedTip: a tip holds within a block and for a block below, decays above.
CappedTip(raw, number, last, lastNumber) ==
  IF DecayCap = None \/ last = None THEN raw
  ELSE Larger(raw, IF number <= lastNumber THEN last
                   ELSE (last * Retained(number - lastNumber)) \div Wad)

\* detectTrend, with the division of bigints, which truncates.
DetectTrend(history) ==
  LET first == Head(history)
      last  == history[Len(history)]
  IN IF Len(history) < 2 THEN "stable"
     ELSE IF first = 0 THEN (IF last > 0 THEN "rising" ELSE "stable")
     ELSE IF last > first /\ ((last - first) * 100) \div first > 10 THEN "rising"
     ELSE IF last < first /\ ((first - last) * 100) \div first > 10 THEN "falling"
     ELSE "stable"

Power(base, n) ==
  LET product[k \in 0..n] == IF k = 0 THEN 1 ELSE base * product[k - 1]
  IN product[n]

\* baseFeeBufferMultiplier, applied to the base fee.
BufferedBase(baseFee, trend) ==
  LET num == Power(9, LivenessBlocks)
      den == Power(8, LivenessBlocks)
  IN CASE trend = "falling" -> baseFee
       [] trend = "rising"  -> (baseFee * (num * 10)) \div (den * 9)
       [] trend = "stable"  -> (baseFee * num) \div den

\* Mutant: the paying lane leaves out instant as well.
LaneWithoutInstant(model, tier, samples) ==
  IF model = "eip1559" /\ tier \notin {"slow", "instant"} THEN PayingLane(samples) ELSE samples

\* Which samples a tier draws from: legacy transactions live in slow.
Lane(model, tier, samples) ==
  IF model = "eip1559" /\ tier # "slow" THEN PayingLane(samples) ELSE samples

\* computeTiers: the tips it publishes, and the fees that go with them.
ComputeTips(model, samples, number, tips, lastNumber) ==
  [tier \in Tiers |->
     CappedTip(GasWeightedPercentile(Lane(model, tier, samples), Percentile[tier]),
               number, IF tips = None THEN None ELSE tips[tier], lastNumber)]

Recommendation(tip, baseFee, trend) ==
  [maxPriorityFeePerGas |-> tip,
   maxFeePerGas |-> BufferedBase(baseFee, trend) + tip,
   gasPrice |-> baseFee + tip]

-----------------------------------------------------------------------------
\* Positions.

\* sortByTipDesc, which leaves the order of equal tips to the engine.
ByTip(samples) == Sorted(samples, [i \in DOMAIN samples |-> -samples[i].tip])

\* First index from 1 where P holds, 0 when there is none.
FirstIndex(s, P(_)) ==
  LET at == {i \in DOMAIN s : P(s[i])} IN IF at = {} THEN 0 ELSE Min(at)

\* Mutant: the position after the one that crosses the offset.
IndexAfterGasOffset(sorted, gas) ==
  LET over == {i \in DOMAIN sorted : GasUpTo(sorted, i) > gas}
  IN IF gas <= 0 THEN 1 ELSE IF over = {} THEN 0 ELSE (Min(over) + 1) % (Len(sorted) + 1)

\* indexAtGasOffset, from 1; 0 is below every sample.
IndexAtGasOffset(sorted, gas) ==
  LET over == {i \in DOMAIN sorted : GasUpTo(sorted, i) > gas}
  IN IF gas <= 0 THEN 1 ELSE IF over = {} THEN 0 ELSE Min(over)

\* Where a query points, from 1; a rank counts from 0.
Pivot(sorted, query) ==
  CASE query.kind = "rank" -> query.at + 1
    [] query.kind = "percentile" ->
         Smaller(Len(sorted), (Len(sorted) * Larger(0, Smaller(query.at, 100))) \div 100 + 1)
    [] query.kind = "gasFromTop" -> IndexAtGasOffset(sorted, query.at)
    [] query.kind \in {"aheadOf", "behind"} ->
         FirstIndex(sorted, LAMBDA s : s.id = query.at)

Position(tip, pivot, rank, gas) ==
  [requiredTip |-> tip, pivot |-> pivot, rank |-> rank, gasFromTop |-> gas]

\* tipForBlockPosition: outbid the pivot by 1, or undercut it by 1.
TipForBlockPosition(samples, query) ==
  LET sorted == ByTip(samples)
      i      == Pivot(sorted, query)
  IN IF samples = <<>> THEN Position(0, None, 0, 0)
     ELSE IF i \notin DOMAIN sorted
          THEN Position(0, None, Len(sorted), GasOf(sorted))
     ELSE Position(IF query.kind = "behind" THEN Larger(0, sorted[i].tip - 1)
                   ELSE sorted[i].tip + 1,
                   sorted[i], i - 1, GasUpTo(sorted, i - 1))

\* tierForTip: the highest rung whose tip is reached, 0 when none is.
Rung(tips, tip) ==
  LET reached == {i \in 1..4 : tip >= tips[Ladder[i]]}
  IN IF reached = {} THEN 0 ELSE Max(reached)

\* classifyTip.
ClassifyTip(samples, tips, tip) ==
  LET sorted == ByTip(samples)
      weaker == FirstIndex(sorted, LAMBDA s : s.tip <= tip)
      rank   == IF weaker = 0 THEN Len(sorted) ELSE weaker - 1
      rung   == Rung(tips, tip)
  IN [tier |-> IF rung = 0 THEN None ELSE Ladder[rung],
      requiredForNextTier |-> IF rung = 4 THEN None ELSE tips[Ladder[rung + 1]],
      percentile |-> IF sorted = <<>> THEN 0
                     ELSE (rank * 100 + Len(sorted) \div 2) \div Len(sorted),
      rank |-> rank,
      gasFromTop |-> GasUpTo(sorted, rank)]

-----------------------------------------------------------------------------
\* Replacement.

\* minimumReplacementFee of a 1559 transaction.
MinimumReplacementFee(current) == (current * 110) \div 100 + 1

\* Mutant: maxFeePerGas follows the target alone.
BumpTipOnly(current, target) ==
  LET tip == Larger(target.maxPriorityFeePerGas, MinimumReplacementFee(current.maxPriorityFeePerGas))
  IN [maxPriorityFeePerGas |-> tip, maxFeePerGas |-> Larger(target.maxFeePerGas, tip)]

\* bumpForReplacement.
BumpForReplacement(current, target) ==
  LET tip == Larger(target.maxPriorityFeePerGas, MinimumReplacementFee(current.maxPriorityFeePerGas))
  IN [maxPriorityFeePerGas |-> tip,
      maxFeePerGas |-> Larger(tip, Larger(target.maxFeePerGas,
                                          MinimumReplacementFee(current.maxFeePerGas)))]

\* Mutant: the stuck transaction itself is outbid, not the one ahead of it.
OutpaceItself(samples, id) ==
  LET stuck == TipForBlockPosition(samples, [kind |-> "aheadOf", at |-> id])
  IN IF stuck.pivot = None \/ stuck.rank = 0 THEN 0 ELSE stuck.requiredTip

\* The tip that outbids the sample just ahead of id, 0 when there is none.
OutpaceFloor(samples, id) ==
  LET stuck == TipForBlockPosition(samples, [kind |-> "aheadOf", at |-> id])
  IN IF stuck.pivot = None \/ stuck.rank = 0 THEN 0
     ELSE TipForBlockPosition(samples, [kind |-> "rank", at |-> stuck.rank - 1]).requiredTip

Strategies == {"cheapestThatLands", "oneStepFasterThanRecommended", "instant"}

\* recommendBumpTier.
RecommendBumpTier(samples, tips, priorityTip, id, strategy) ==
  LET floor    == Larger(MinimumReplacementFee(priorityTip), OutpaceFloor(samples, id))
      cheapest == FirstIndex(Ladder, LAMBDA tier : tips[tier] > floor)
  IN IF cheapest = 0 THEN None
     ELSE CASE strategy = "cheapestThatLands" -> Ladder[cheapest]
            [] strategy = "instant" -> "instant"
            [] strategy = "oneStepFasterThanRecommended" -> Ladder[Smaller(4, cheapest + 1)]
===============================================================================
