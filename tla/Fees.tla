---------------------------------- MODULE Fees ----------------------------------
(***************************************************************************)
(* What an oracle of @valve-tech/gas-oracle publishes and what its viem    *)
(* surfaces read: reducePollInputs of oracle.ts over the ring (GasRing)    *)
(* and the mempool, anchored at the tips published before, and the read    *)
(* paths of viem-actions.ts and viem-transport.ts.                         *)
(*                                                                         *)
(* The blocks may be handed over in any order and on any fork; which of    *)
(* them really are is GasOracle's subject, and so are the awaits of        *)
(* handleBlock: here a block and its fetches are one step.  Blob fees and  *)
(* the counts of mempool statistics are left out.                          *)
(***************************************************************************)
EXTENDS TipSamples, GasRing, SequencesExt

CONSTANTS
  Blocks,         \* the blocks of the chain and its forks, see GasRing
  BaseFeeOf,      \* their base fees
  TxsOf,          \* their transactions
  Pools,          \* what the mempool may hold: sequences of transactions
  FeeHistories,   \* the base fees eth_feeHistory may answer, or None
  Window,         \* ringWindowBlocks
  Configs         \* how the oracle is configured

ConfigSet ==
  [model : {"flat", "eip1559"}, surface : {"actions", "transport"},
   lifecycle : {"eager", "lazy"}]

ASSUME FeesAssumption ==
  /\ Configs \subseteq ConfigSet
  /\ Window \in Nat
  /\ \A b \in Blocks : Number(b) \in Nat
  /\ BaseFeeOf \in [Blocks -> Nat] /\ TxsOf \in [Blocks -> Seq(Transactions)]
  /\ Pools \subseteq Seq(Transactions)

VARIABLES
  config,      \* the configuration, set for good
  started,     \* `started` of the surface: it called oracle.start()
  listening,   \* the oracle is attached to its source
  pool,        \* `latestMempool`
  state        \* `state`

vars == <<config, started, listening, pool, state>>

-----------------------------------------------------------------------------
\* reducePollInputs.

BlockSample(b) == [block |-> b, tips |-> Samples(TxsOf[b], BaseFeeOf[b])]

RingSamples(ring) == FlattenSeq([i \in DOMAIN ring |-> BlockSample(ring[i]).tips])

Incorporated(ring, blocks) ==
  LET after[n \in 0..Len(blocks)] ==
        IF n = 0 THEN ring ELSE IncorporateBlock(after[n - 1], blocks[n], Window).ring
  IN after[Len(blocks)]

Reduced(b, history, txPool, historical) ==
  LET baseFee == BaseFeeOf[b]
      ring    == Incorporated(IF state = None THEN <<>> ELSE state.ring, Append(historical, b))
      pending == IF txPool = None THEN <<>> ELSE Samples(txPool, baseFee)
  IN [number |-> Number(b), baseFee |-> baseFee,
      trend |-> DetectTrend(IF history = None THEN <<baseFee>> ELSE history),
      ring |-> ring, mempoolSamples |-> pending,
      tips |-> IF state = None
               THEN ComputeTips(config.model, RingSamples(ring) \o pending, Number(b), None, None)
               ELSE ComputeTips(config.model, RingSamples(ring) \o pending, Number(b),
                                state.tips, state.number)]

\* bridgeGap: nothing is missing, or a fetch failed, or the parent was fetched.
Bridges(b) == {<<>>} \cup {<<a>> : a \in {Parent(b)} \cap Blocks}

Publish(txPool) ==
  \E b \in Blocks, history \in FeeHistories : \E historical \in Bridges(b) :
    state' = Reduced(b, history, txPool, historical)

-----------------------------------------------------------------------------
Init ==
  /\ config \in Configs
  /\ started = (config.lifecycle = "eager")
  /\ listening = started
  /\ pool = None
  /\ state = None

\* handleBlock of an attached oracle.
HandleBlock ==
  /\ listening
  /\ Publish(pool)
  /\ UNCHANGED <<config, started, listening, pool>>

\* handleMempool.
HandleMempool ==
  /\ listening
  /\ pool' \in Pools
  /\ UNCHANGED <<config, started, listening, state>>

\* pollOnce: the oracle need not be started; a mempool that fails is null.
PollOnce ==
  /\ pool' \in Pools \cup {None}
  /\ Publish(pool')

\* ensureState of viem-actions, when there is no state to serve: the first read
\* of a lazy client starts the oracle.
ReadThroughActions ==
  /\ config.surface = "actions" /\ state = None
  /\ started' = TRUE
  /\ listening' = (listening \/ ~started)
  /\ \/ PollOnce
     \/ UNCHANGED <<pool, state>>     \* no block: the read throws
  /\ UNCHANGED config

\* dispatchIntercept of viem-transport, when there is no state to serve.
ReadThroughTransport ==
  /\ config.surface = "transport" /\ state = None
  /\ PollOnce                         \* no block: the request passes through
  /\ UNCHANGED <<config, started, listening>>

\* stopGasOracle.
StopGasOracle ==
  /\ listening' = FALSE
  /\ pool' = None
  /\ state' = None
  /\ UNCHANGED <<config, started>>

Next == HandleBlock \/ HandleMempool \/ ReadThroughActions \/ ReadThroughTransport \/ StopGasOracle

Spec == Init /\ [][Next]_vars

-----------------------------------------------------------------------------
\* Properties.

Distribution == RingSamples(state.ring) \o state.mempoolSamples

\* A faster tier never recommends a lower tip, whatever blocks, forks, pools and
\* gaps came before: the decay anchors of the tiers never let one sink below a
\* slower one (cappedTip, math.ts 130-153).  Slow draws from other samples than the
\* rest under eip1559, and is only below them when the model is flat.
TiersAscend ==
  state # None =>
    /\ state.tips["standard"] <= state.tips["fast"]
    /\ state.tips["fast"] <= state.tips["instant"]
    /\ config.model = "flat" => state.tips["slow"] <= state.tips["standard"]

Placed(query) ==
  ClassifyTip(Distribution, state.tips, TipForBlockPosition(Distribution, query).requiredTip)

\* classifyTip is the inverse of tipForBlockPosition (classify-tip.ts 1-8): a tip
\* priced for a rank, a gas offset or a rival lands there or above, and one priced
\* behind a transaction that tips lands below it.
InverseRank ==
  state # None =>
    /\ \A r \in 0..Len(Distribution) : Placed([kind |-> "rank", at |-> r]).rank <= r
    /\ \A g \in 0..GasOf(Distribution) : Placed([kind |-> "gasFromTop", at |-> g]).gasFromTop <= g
    /\ \A p \in {0, 20, 50, 100} :
         Placed([kind |-> "percentile", at |-> p]).percentile <= p
    /\ \A i \in DOMAIN Distribution :
         LET ahead  == [kind |-> "aheadOf", at |-> Distribution[i].id]
             behind == [ahead EXCEPT !.kind = "behind"]
             rival  == TipForBlockPosition(Distribution, ahead)
         IN /\ Placed(ahead).rank <= rival.rank
            /\ rival.pivot.tip > 0 => Placed(behind).rank > rival.rank

Stuck ==
  {tx \in UNION {ToSet(p) : p \in Pools} :
     tx.type = 2 /\ tx.maxFee # None /\ tx.priority # None}

FeesOf(tx) == [maxPriorityFeePerGas |-> tx.priority, maxFeePerGas |-> tx.maxFee]

\* The fees a replacement of tx at this tier is sent with.
Replacement(tx, tier) ==
  BumpForReplacement(FeesOf(tx), Recommendation(state.tips[tier], state.baseFee, state.trend))

\* A node's pool takes the replacement: 10% more, and more, in both fields.
Takes(old, new) ==
  \A f \in {"maxPriorityFeePerGas", "maxFeePerGas"} : new[f] > old[f] /\ 100 * new[f] >= 110 * old[f]

\* How many of the pool, tx aside, tip at least what tx would with these fees.
NotOutbid(tx, fees) ==
  LET tip == EffectiveTip([tx EXCEPT !.priority = fees.maxPriorityFeePerGas,
                                     !.maxFee = fees.maxFeePerGas], state.baseFee)
  IN Quantify(DOMAIN state.mempoolSamples,
              LAMBDA i : state.mempoolSamples[i].id # tx.id /\ state.mempoolSamples[i].tip >= tip)

Outbids(tx, strategy) ==
  LET tier  == RecommendBumpTier(state.mempoolSamples, state.tips, tx.priority, tx.id, strategy)
      stuck == TipForBlockPosition(state.mempoolSamples, [kind |-> "aheadOf", at |-> tx.id])
  IN tier # None =>
       /\ Takes(FeesOf(tx), Replacement(tx, tier))
       /\ stuck.pivot # None /\ stuck.rank > 0 => NotOutbid(tx, Replacement(tx, tier)) < stuck.rank

\* Replacing a stuck transaction at the recommended tier works: nodes take it, and it
\* overtakes the transaction that was just ahead of it (replacement.ts 97-153), even
\* though tiers are published against other blocks than the pool is read at.  With
\* the other strategies that takes a ladder that ascends.
BumpOutbids ==
  state # None =>
    \A tx \in Stuck : \A strategy \in Strategies :
      strategy = "cheapestThatLands" \/ config.model = "flat" => Outbids(tx, strategy)

-----------------------------------------------------------------------------
\* What the documentation says of these surfaces and the code does not do.

\* "'lazy' waits for the first intercepted RPC" before the oracle polls
\* (viem-transport.ts 68-73): a client that served a read listens.
LazyPolls == state # None => listening

\* "After stop, subsequent reads will throw" (viem-actions.ts): none of them polls.
StopIsFinal == started /\ ~listening => state = None

\* The rungs of TIER_LADDER ascend (types.ts: "Ordering is load-bearing").
LadderAscends == state # None => state.tips["slow"] <= state.tips["standard"]

\* Every strategy outbids the transaction ahead (replacement.ts 97-113).
StrategiesOutbid ==
  state # None => \A tx \in Stuck : \A strategy \in Strategies : Outbids(tx, strategy)

\* The replacement is "ranked strictly above every tx currently ahead" of the stuck
\* one (replacement.ts).
OutpacesAll ==
  state # None =>
    \A tx \in Stuck :
      LET tier == RecommendBumpTier(state.mempoolSamples, state.tips, tx.priority, tx.id, "cheapestThatLands")
      IN tier # None => NotOutbid(tx, Replacement(tx, tier)) = 0
=================================================================================
