----------------------------- MODULE MCChainSource -----------------------------
(* Instances of ChainSource for TLC; the cfgs give the other constants. *)
EXTENDS ChainSource, TLC

Adapting == [adaptive |-> TRUE, mempool |-> FALSE]
AdaptingWithMempool == [adaptive |-> TRUE, mempool |-> TRUE]
AtIntervals == [adaptive |-> FALSE, mempool |-> FALSE]
AtIntervalsWithMempool == [adaptive |-> FALSE, mempool |-> TRUE]

EveryAdapting == {Adapting, AdaptingWithMempool}
OnlyAdapting == {Adapting}
NoMempool == {Adapting, AtIntervals}
EveryInterval == {AtIntervals, AtIntervalsWithMempool}
EveryPush == {Adapting, AdaptingWithMempool, AtIntervals}

\* pollOnce() on top of setInterval only, or never.
PollsAtIntervals == [o \in Options |-> IF o.adaptive THEN 0 ELSE 1]
NoPolls == [o \in Options |-> 0]

\* Blocks with an unreadable number are not interchangeable with the others.
Symmetry ==
  UNION {Permutations(S) : S \in {Slots, TimerIds, Forks \ GarbledForks}}
================================================================================
