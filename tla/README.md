# A verification development for evm-toolkit

TLA+ models of the packages of `valve-tech/evm-toolkit`, the TLC runs that
check them on small instances, and the theorems TLAPS proves about them for
every instance. Paths below are relative to the repository (`packages/...` is
`src/packages/...` in PROJECT.json's map).

Every package is TypeScript for one JavaScript runtime: one callback runs at a
time and nothing preempts it, so the stretch of code between two `await`s is one
atomic step and the interleavings are those of timers, RPC answers, socket
notifications and consumer calls between such stretches. That is the granularity
of every module here.

## Inventory

### chain-source (`packages/chain-source/src`)

*State.* The closure of `createChainSource`: `started`, one timer handle,
`retryAttempts`, the dedup key `lastEmittedBlockHash`, the gate
`lastSeenBlockNumber`, the cached capabilities and one handle for each of the
two `eth_subscribe` streams.

*Operations.* `start`, `stop`, `pollOnce`; a poll cycle (`tick`) driven by a
self-rescheduling `setTimeout` (adaptive) or a `setInterval`; the startup probe
of the transport; the opening of a stream, which may be refused; two push
handlers, each of which fetches before it emits.

*Interactions.* It is the package that talks to the node by itself. gas-oracle
and tx-tracker subscribe to its blocks and mempool snapshots and read its
capabilities; both may be given a shared source.

*Hard.* Every poll cycle and push handler suspends twice and may resume after
`stop()`, or in the next session; push and poll answers overtake each other;
`subscribe` may resolve after `stop()`.

*Correct when.* No consumer is handed a block twice running; the gate never
hides a height nobody has seen; one scheduler chain and at most one stream of a
kind live per session; all of them end after `stop()`; a source left running
reaches the node's head whatever failed on the way.

### tx-tracker: observation (`tracker.ts`, `observations.ts`, `reorg.ts`, `events.ts`)

*State.* For each tracked hash a record (inclusion and its confirmation count,
first, last and terminal block numbers, the unseen streak, mempool presence and
bucket, the replacement, poll counters), the ring of recent blocks, the tip, the
capability ranks last seen.

*Operations.* `onBlock` (reorg detection, capability changes, a prefetch of
receipts that suspends it, the decision for each record, retention, dispatch of
three polls), `onMempool`, and the three polls (receipt fallback, mined probe,
status poll), each sent by a block and resumed whenever the node answers;
`subscribe` and the last unsubscribe.

*Interactions.* Blocks and snapshots come from a chain-source; events go to
subscribers, the status is read by `getTxStatus`, both are written to a store.

*Hard.* Four writers of a record (block, snapshot, poll, reorg) whose answers
come in any order, over records that may be dropped and tracked again; reorgs
seen through a bounded window.

*Correct when.* The event stream and the status tell one story; a terminal state
is told once and anchors retention; nothing follows `stopped`; a displaced block
costs its transactions their inclusion; a streak fires its threshold.

### tx-tracker: registry, durability, bulk selectors (`tracker.ts`, `store.ts`, `local-storage-store.ts`, `selectors.ts`)

*State.* The tracked map, callbacks per record and globally, bulk subscriptions
with the hashes they auto-track, the queue of every async iterator, and a store
with a record and an event log per durable hash.

*Operations.* `subscribe`, `track`, the three bulk calls, unsubscribe and stop
handles, `start` with rehydration, `stop`; underneath them `emit` (persist, then
tell), `cleanupRecord` and retention.

*Hard.* Handles that outlive their record; `subscribe` before, during and after
rehydration; receipts and polls that resume after `stop()`; a crash between the
append, the put and the status patch; a store that an earlier version filled.

*Correct when.* A consumer that has not left is either served or was told
`stopped`; all streams of one hash tell the same; a durable record outlives
whoever asked for it; the log misses nothing and the status beside it is at most
one step behind.

### tx-tracker: groups and waiting helpers (`group.ts`, `wait-for-*.ts`, `watch-transaction.ts`)

*State.* A group counts its confirmed members; a helper holds a promise and a
tracker of its own. *Hard.* They wait for a transition of somebody else's record:
one that is skipped, was over before they joined or is undone by a reorg leaves
them waiting. *Correct when.* Each reports one outcome, and does report it once
what it waits for stays true.

### gas-oracle (`oracle.ts`, `ring.ts`, `math.ts`, `samples.ts`, `block-position.ts`, `replacement.ts`, `viem-*.ts`)

*State.* The ring of recent blocks, the published state with its four tiers and
the tips they were anchored at, the pool, attachment to the source, a stale
timer. *Operations.* `handleBlock` and `pollOnce` with their bridging fetches,
the reduction, subscribers and tab visibility, two viem surfaces that start it or
read through it, and pure lookups over what was published. *Hard.* `handleBlock`
awaits and then reduces over whatever the state has become; detach timers race
new subscribers; tiers are anchored at earlier ones, of another fork or height.
*Correct when.* The ring is dense and within its window, an oracle listens while
and only while it is wanted, tiers ascend where they are percentiles of one
distribution, a position and the tip at that position agree, and a bump is taken
by the pool.

### tx-flight-react and wallet-adapter

*State.* One store per provider id (entries, watchers), shared by everybody
mounted with that id, loaded from and saved to an adapter; closures (hooks of the
wallet, a pending `addByHash`) that keep the store they were made with.
*Operations.* mount, unmount, Strict Mode's remount, reload, add by hash, by
wallet, by hand, remove, clear, evict, replace, and each lifecycle hook of
`sendTransactionWithHooks` and `awaitReceiptWithHooks`. *Hard.* Load and save race
mount and unmount; a watcher is attached after an await; a wallet answers long
after. *Correct when.* Watchers belong to entries, what was taken off stays off,
what was saved is not lost, and settled entries are evicted first.

### unchained-reader

*State.* Queries with one task per chunk, two lanes of a limiter, a cache.
*Hard.* Retries, aborts, failing and malformed answers at each of a task's six
suspensions, several queries over the same lanes. *Correct when.* An answer that
reports no failure holds every appearance, no lane idles while a request waits,
every query ends.

### siwe-store, siwe-store-redis, wallet-key-session, encrypted-vault

*State.* Nonces and sessions with lifetimes, in memory or in Redis; one cached
key promise; the page and the note file of the example that joins them. *Hard.* A
request sent twice, expiry, a server restart, sign-out and a change of the
wallet's account, all while a sign-in or a note is half done. *Correct when.* A
message opens at most one session, and a stored note opens under a key that its
owner can derive.

### The rest

`rpc-collector`, `trueblocks-sdk`, `viem-errors`, `wallet-crypto` and
`agent-skills` are pure functions, a stateless HTTP client, and a command run by
hand: not modelled. The other `examples/`, `docs/` and `scripts/` are not library
code.

## Modules

| module | models |
| --- | --- |
| `BlockFeed` | what `subscribeBlocks` promises: some past head, never the same block twice running |
| `ChainSource` | `createChainSource`: lifecycle, both schedulers, the probe, both streams |
| `ReorgRing` | `reorg.ts`: the bounded ring and its comparison with a canonical block |
| `TxObservation` | `observations.ts` and the merge rule of the polls: pure decisions |
| `TxObserver` | the tracker's handlers over the records, built from the two above |
| `TxConsumers` | a group or a waiting helper on top of `TxObserver`, whose actions it composes with theirs |
| `EventIterator` | the queue and the parked calls behind every async iterator of tx-tracker |
| `TxRegistry` | subscriptions, records' lives, bulk selectors, the store, sessions and crashes of a tracker |
| `GasRing` | `ring.ts`: what the oracle's ring becomes with one more block |
| `GasOracle` | `createGasOracle`: when it listens, the bridge over a gap, blocks in flight |
| `TipSamples` | samples, percentiles, tiers, positions and replacement fees: pure |
| `Fees` | what the oracle publishes from them, and the two viem surfaces that read it |
| `FlightStore` | `reducers.ts`: the operations of the entry store, pure |
| `Flight` | providers, storage, watchers, wallet hooks and replacements over `FlightStore` |
| `ChunkFile` | what bloom and index files answer, with the binary search |
| `UnchainedReader` | `getAppearances` over the fetcher's lanes, retries and cache |
| `LoginLedger` | what a sign-in promises: one claim of a message, one session of a claim |
| `Vault` | the stores, the key session and the two programs of the encrypted-vault example |
| `ChainSourceProofs`, `TxObserverProofs`, `TxRegistryProofs`, `GasOracleProofs`, `FlightProofs`, `UnchainedReaderProofs`, `VaultProofs`, `FeesProofs` | theorems |
| `MC...` | instances for TLC |

**ChainSource.** Each poll cycle or push handler in flight is a *task* in a slot,
with the phase it is suspended in. An RPC is three steps: sent (the end of the
step before), answered by the node from its state at that moment, used by the
code when it resumes. A `setTimeout` or `setInterval` is a handle in `armed`;
`timer` is the one handle the source keeps, so a displaced timer stays in `armed`
with nobody to clear it. `history` is the sequence of heads the node went
through, and `feed` the positions of it that were handed out since the last
reset, which is what `BlockFeed` has as its state. The delay of a timer is
abstracted: a timer fires at any later moment, which covers every delay.

**TxObserver.** A block's hash commits to its ancestry, so a block *is* its
chain: the sequence of the contents of its ancestors; its number is the length,
an ancestor a prefix. The node holds a head, `past` the heads it has had, and the
source hands out any of them but the one it handed out last: what `NoRepeat`
guarantees and no more, since a push and a poll may overtake each other. `onBlock`
is cut in two only where the code awaits receipts. A poll is dispatched by a
block, answered from the node's chain, and resumed. `told` folds the events a
subscriber has received and `quiet` counts the blocks without a sight of the
transaction: both are bookkeeping of the properties, and no guard reads them.

**TxConsumers.** Every action is an action of `TxObserver` conjoined with what
the group's or the helper's handler makes of the events it tells, in the order
they are told. The first outcome stops the system, as it stops the helper's own
tracker; for a group it is where the group stops listening.

**TxRegistry.** Observations are abstracted to steps `1..Final` of a record's
status (what they say is TxObserver's subject), because what matters here is who
is told and in which order status, event, append and put happen: a block patches
and then emits, a poll emits and then patches. A record is a hash and a *life*;
handles and polls keep the life they were made for. The store applies a call when
it is made and outlives `Crash` and `Stop`; `Legacy` is what an earlier session or
version may have left in it. `Patient`, `Prompt` and `Tidy` say how the
application behaves (it awaits `ready()`, the store answers before the next block,
a handle is dropped after `stopped`).

**GasOracle.** `attached` stands for the two unsubscribe handles, which are set
and cleared together; `staleTimer` for an armed timeout of any length. A
`handleBlock` or `pollOnce` in flight is a task that holds what `bridgeGap` read
before its first `await` (`seen`, `tip`) and the blocks fetched so far; each fetch
is one step. The merge (`reducePollInputs`, over `GasRing`) happens when the task
resumes, on the state there is *then*. A source of its own forgets its dedup key
when the oracle stops it; a shared one goes on. Consumers may keep and reuse an
unsubscribe function.

**Fees.** The same reduction, seen from its numbers: blocks in any order on any
fork with their bridges in one step (their awaits are GasOracle's subject), a pool
that may be older than the block, and the tips of the previous publication as
anchor. `TipSamples` is a translation of the arithmetic with `Wad` for 1e18, so
that rounding of the decay cap and of percentiles happens at small numbers too. Its
loops are recursive functions and its sort says where each element comes to stand,
because the provers can expand both; the code's sort by tip leaves the order of
equal tips open, and no proof depends on it.

**Flight.** Stores are numbered in the order the page creates them, and every
closure that outlives a render keeps the number of the one it was made with.
`Reload` ends the page; a wallet request it leaves behind can still be answered
(`OrphanSigned`). `AnswersFirst` says that the adapter answers `load()` in a
microtask, as the localStorage adapter does.

**UnchainedReader.** A query's chunks are tasks that run side by side; a task is at
its cache lookup, in a lane's queue, fetching, storing, or settled, first for the
bloom file and on a hit for the index file. What the gateway answers is a member of
`Answers`; a retry is a failed attempt that keeps its lane.

**Vault.** One tab, a server with slots for requests in flight, and a client that
may send a signed message again. Each `await` of the server is a step: with the
`redis` backend a command takes effect before its answer comes, or the answer is
lost. Time is a counter against which nonces and sessions expire.

## Runs

Twelve runs; every property of each has a mutant of the code it must, and does,
find.

| run | asks |
| --- | --- |
| `ChainSource_push` | one session, adaptive or at intervals with `pollOnce`, polls and both pushes overlapping, subscribes that fail, block numbers that do not decode: `NoRepeat`, `GateSound`, `OneChain`, `NoLeakedStream`, `FallbackReal`, refinement of `BlockFeed` |
| `ChainSource_restart` | two sessions, `stop` and `start` at any moment, both schedulers: `Quiesces`, `CatchesUp` |
| `TxObserver_blocks` | blocks only, reorgs, out-of-order delivery, a restarted source, the probe's late answer: `ConfirmedOnce`, `SeenInRing`, `VanishedNamesSeen` |
| `TxObserver_polls` | all polls failing or late, awaited receipts, records dropped and tracked again: `ViewsAgree`, `StoppedIsFinal` |
| `TxObserver_mempool` | a transaction and its replacement in and out of the two buckets: `TerminalTold`, `ThresholdFires`, `UnseenHonest`, `TerminalAnchored` |
| `TxConsumers_live` | a group, `waitForTransaction`, `watchTransaction`, `waitForPending` over a feed that skips blocks: `Settles` |
| `TxRegistry_session` | two consumers and a bulk selector on a hash over stop, start and crash: `ServedOrTold`, `OneStream`, `DurableKept`, `LogWhole` |
| `GasOracle_session` | two consumers, a tab, four configurations, a reorganising node, failing fetches: the lifecycle and the ring |
| `Fees_published` | two forks in any order, three pools, both fee models, both surfaces: `TiersAscend`, `InverseRank`, `BumpOutbids` |
| `Flight_page` | an entry sent through a wallet and one watched by hash, on a page that mounts, remounts and reloads: `WatchersOwned`, `RemovedStays`, `SavedKept`, `EvictsSettledFirst` |
| `UnchainedReader_scan` | two queries over shared lanes with retries, bad answers and an abort: `Complete`, `LanesBusy`, `QueryEnds` |
| `Vault_session` | the example over both backends: refinement of `LoginLedger`, `StoredReadable` |

**Bounds.** They are constants of the modules, each guarding the one action that
would run for ever. ChainSource: two slots let any two handlers overlap, which is
what a race needs; two heights with two forks give a block on top, a skip back
and a same-height reorg; two timer ids let a displaced timer live beside the kept
one; two starts give an old session beside a new one; `RetryCap` 2 lets the
backoff saturate. TxObserver: a chain of three or four blocks, reorg depth two
and a ring of four let a block leave both the depth and the ring; threshold two
and two confirmations make both counters pass an interior value; two records let
an answer meet the successor of the record it was sent for. TxConsumers: two
members, one of which somebody else already tracks, and one confirmation more than
inclusion for the group. TxRegistry: two lives let a kept handle and a poll meet
the successor of their record; two steps of status separate the last event from
the one before; two consumers tell the last unsubscribe from another. GasOracle:
two consumers, likewise; a window of two is passed by chains of three, so
`CapTail` cuts and a walk back is exhausted; two slots let a block publish under
another one's bridge; the four configurations give every option both its values.
Fees: `Wad` 8 with a cap of a half makes retention round; a window of two makes
blocks leave the ring; the pools are empty, of plain bids, and of bids mixed with
a legacy transaction and one that some base fees leave no tip. Flight: one visible entry makes each of two evict the other; two
stores let a closure meet the successor of its store; three pieces of work in a
page reach add, settle, remove. UnchainedReader: one slot in each lane makes every
second request wait; one retry separates a failed attempt from a failed fetch; two
manifests have tables with the address behind another, alone, and not at all, the
last behind a bloom filter that says yes. Vault: two messages and two sessions let a resent request
race a new sign-in; one tick separates what expired from what did not; two
derivations let a note meet a key of another account.

**Symmetry** is used in `ChainSource_push` (slots, timer ids and forks, not the
garbled ones), `GasOracle_session` (slots and consumers) and `Vault_session`
(accounts and slots). Their properties are invariants, action properties and
safety refinements, and none names a member of those sets. Runs of liveness
properties have none.

**Deadlock** is not checked: every run stops when its bounded actions are spent,
and a stopped source with a still node, a settled promise or an answered query
really has nothing to do.

**Fairness.** `ChainSource!FairSpec`: the runtime runs a callback that is due
(weak fairness on a task's answer and resumption, on the probe and on streams),
a timer fires (strong, because it needs a slot, a bound of the model that the
code does not have), and the endpoint does not fail for ever (strong fairness on
`FetchOk`; without it `CatchesUp` is false of any client). No fairness is
assumed of the node's head, of `start`, `stop`, `pollOnce` or notifications.
`TxConsumers!FairSpec`: the feed hands out the head (what `CatchesUp` shows of
the source), awaited receipts and polls come back, with whatever answer.
`UnchainedReader!FairSpec`: a lookup, a store and a manifest come back, with an
answer or an error, and an attempt that is neither answered nor refused is ended
by its timeout (fetcher.ts:124-141); no fairness is assumed of the gateway, nor
that a lane is ever given to somebody: `QueryEnds` needs no more because the
release hands it over.

**Refinements.** `ChainSource` implements `BlockFeed` (`FeedSpec`, also proved):
the feed is the dedup key and the heads handed out since the last reset. `Vault`
implements `LoginLedger` (`LedgerSpec`): a message is claimed when a request
consumes its nonce and its checks pass, and the session issued for it is the worth
of the claim; expiry, failed checks and restarts are the ledger's forgetting.
Also proved.

## Proofs

`ChainSourceProofs`. `TypeInv` is `TypeOK` with two facts it does not follow
from: a held handle is a stream the node serves (`HandleServed`: else `stop()`
could close a stream twice and `live` leave the naturals), and a fetched answer
is a position of the node's history (`AnswersKnown`: else a block could not be
read from it). On top of it, `FeedInv` says that the dedup key is the last block
of the feed, that no two neighbours of the feed are the same block, and that the
gate's height was handed out. Proved of `Spec` for every value of the constants:
`TypeCorrect`, `HandlesServed`, `NeverTwiceRunning`, `GateAlwaysSound`,
`FallbackAlwaysReal`, and `ImplementsFeed`, the refinement of `BlockFeed`.

Two more hold within a session (`MaxStarts <= 1`): over two they are refuted
(below), because a cycle or a subscribe of the first is still in flight in the
second. `ChainInv` says that the scheduler chain is asleep in one timer or runs in
one slot and never both, that a cycle which returned is the chain's (`pollOnce`
arms no timer) and that before the first start there is none; `OneChain` only
counts them. `StreamInv` says that the streams of a kind that are served, being
opened or awaited are no more than the starts so far: what makes the handle that a
late answer sets the only one. Proved for every number of slots, timers, heads and
every configuration: `OneChainASession`, `NoLeakASession`.

`TxObserverProofs`. `IInv` is `TypeOK` and, for each record, agreement of record
and subscriber: what `ViewsAgree`, `TerminalTold` and `ConfirmedOnce` say,
strengthened where a step needs more: a confirmed-terminal told means the record
has ended (or a second one could fire), and a record that knows its replacement
is terminal (or a replacement could be told of without ending it). Each pure
decision has a lemma "the record keeps its type, and hearing the events keeps
agreement"; each action's step lemma lifts it to `[Tracked -> ...]`. Proved for
every value of the constants: `TypeCorrect`, `ViewsAlwaysAgree`,
`TerminalAlwaysTold`, `ConfirmedAtMostOnce`, and the action properties
`TerminalStaysAnchored` and `NothingAfterStopped`.

The ring has an invariant of its own, `RingInv`: its blocks have different numbers
(`Ranked`) and are at most `2 * ReorgDepth`. Blocks of different numbers between
two of them are no more than the numbers between them (`HighestFew`), hence what
the ring lets go lies deeper than the reorg depth (`CutIsDeep`): a ring of twice
the depth is enough, in whatever order blocks of whatever forks are delivered.
`RingAlwaysBounded` states the invariant, with no premise.

The others of this module hold under premises, each of which is needed, as TLC
finds them violated without it (below). `ThresholdAlwaysFires`: the subscriptions
of a hash ask for one threshold (`OneThreshold`; a threshold lowered under the
streak is passed over). It is inductive with `IInv`, by a lemma on every step:
`Streaks`, that a streak is kept, over, or one longer, and that the event comes
with the step onto the threshold; receipts and polls may do what they like.
`InclusionsInRing` and `VanishedAlwaysSeen`: the tracker is driven by blocks and
snapshots (`BlocksAndPools`: no receipts are awaited, no polls are sent, as in
`TxObserver_blocks`), with every reorg, redelivery and skipped block the feed
allows. `Anchors` says that a record's inclusion is the ring's block of its number
or deeper than the depth; the reorg handler compares exactly these
(`ReorgedAnchors`) before the ring changes. A receipt that suspends the block
between the two, or a poll that finds an inclusion the ring has not seen, breaks
it. `UnseenAlwaysHonest`: of such a tracker, over a feed that hands out the head
only (`InOrder`), whatever forks it takes. `Quiet` says that no record was last
seen above the tip, so that no block is stale to it, and that a streak counts no
more blocks than have gone by without a sight; a sight in a block that is stale to
the record leaves its streak as it is.

`GasOracleProofs`. `Lifecycle` joins the two properties it implies,
`ListensWhenWanted` and `QuietWhenUnwanted`, with the facts that make them
inductive: the visibility listener is set exactly while an oracle that heeds the
tab is started, and a stale timer is armed only if `staleAfter` is positive.
`IInv` is `TypeOK`, `RingWhole` and `ReorgReal` together: `RingWhole` is what
makes a published ring non-empty, so that `bridgeGap` has a tip to read.
Lemmas show of `IncorporateBlock` that it keeps a ring whole, holds the
new block, drops no ancestor of it, and keeps a linked ring linked when it holds
the block's parent; `MergedKeeps` and `MergedJoins` carry that through the loop of
`reducePollInputs`. The loop is a recursive function, whose existence (`MergedIs`)
and invariants are shown with `Ascends`: a set of naturals up to
n that holds 0 and every successor is all of them. Proved of `Spec` for every
value of the constants: `AlwaysListensWhenWanted`, `AlwaysQuietWhenUnwanted`,
`TypeCorrect`, `RingAlwaysWhole`, `ReorgsAlwaysReal`, `BridgesAlwaysJoin`.

`TxRegistryProofs`. Its theorems have a premise, `Careful`: consumers await
`ready()`, pass callbacks of their own and drop a handle after `stopped`, and the
store answers before the next block. Without any one of these they are refuted
(`TxRegistry_careless`, below). `IInv` joins five parts. `SessionInv`: nothing is
tracked until the store has been read back, and until then it is as it was listed,
which is what makes rehydration meet an empty map. `Served`: a subscription that
goes on is one of the tracked record. `Forgotten`: a record nobody refers to is as
new, so that a life can be used again. `StoreInv`: a durable record fits what is
persisted of it, the log being at its status or, after a crash inside `emit`, one
ahead (`Fits`), while a record that is not durable has nothing persisted, which
lets `cleanupRecord` drop it. `Rebuilt` puts `IInv'` together from what a step
says of the records before `Kept` forgets the dropped ones; `AnnounceIs` and
`PersistIs` say what the two halves of `emit` do, and every step lemma comes down
to these. Proved for every value of the constants: `StaysServed`,
`HearsTheStream`, `DurableStays`, `LogHasNoGap`.

`VaultProofs`. For the refinement, `LoginInv` says where a nonce is: in the store,
at the one request that consumed it, or granted a session, and in one of these at
most (`Placed`: else it could open a second session); and that requests, the tab's
sign-in and every session know the account their nonce's message names. Then each
action is a step of `LoginLedger` or leaves its variables alone. For
`StoredReadable`, `NoteInv` follows the key: the tab's session is its account's,
the key session it keeps was made for that account, a cached promise is one of its
own, and a note being added is sealed with the key of the session it was begun in
until it is among the stored notes. Proved for every value of the constants:
`ImplementsLedger`, `AlwaysReadable`.

`FlightProofs`. `PageInv` is `TypeOK`, `WatchersOwned` and `Created`: stores that
were not made yet are empty, an entry under way to a store (`adding`) is in none
and under way once, and the entries used so far are finite in number. Each reducer
has a lemma that it keeps a store fit (`Fits`); `SetState` and `TakeOff` move the
watchers with the entries; the actions follow. `LoadInv` adds, for an adapter that
answers `load()` before anything else runs (`AnswersFirst`), that nothing is taken
off or saved of a store that is not loaded and that a loaded store has all that is
to be kept (`LoadedFirst`). An adapter that answers later refutes both properties
that rest on it (below). Proved for every number of stores, entries and pieces of
work, every cap and retention: `WatchersAlwaysOwned`, `EvictsAlwaysSettledFirst`
(no entry that goes is after one that stays by `Before`, and none goes below
the cap), and, for such an adapter, `RemovedAlwaysStays` and `SavedAlwaysKept`.

`UnchainedReaderProofs`. `LanesInv` joins types and `LanesBusy` with: each waiting
task is in its lane's queue once and nowhere else, `active` counts the tasks that
fetch, and a scan that starts finds its tasks idle. Every step lemma says what it
does to one lane; `Release` hands the slot to the head of the queue, and `Arrived`
may queue the same task for the other lane in the same step. `ResultsInv` says that
a task which is done, of a query that was not aborted, is reported or has handed
in what its chunk holds of the address in the range; it needs that a search
by halves in an ascending table finds the record there is (`SearchHalves`,
`FindIs`): the recursive function is shown to be the definite `Where` by induction
on the length of the interval (`Ascends`). Proved for any number
of queries, chunks, slots and retries, tables and files of any length:
`LanesAlwaysBusy` and `AnswersComplete`. The latter's premise, `WholeAnswers`, is
that what the gateway sends is the file or something that does not parse: a file
cut at a record's end refutes it (`NeverLooksComplete`, below), since the code
checks no hash. The attempt found a fault of the model: the arms of `Arrived`
overlapped for a garbled bloom filter, where TLA+ leaves the choice open and
TLC takes the first.

`FeesProofs`. The invariant, `FeesInv`, says of what is published that the ring is
of blocks, the samples are samples, and the tips are in order (`Ladders`), which
is what the next publication is anchored at. First the operators: every loop is a
recursive function that exists (`Recursion`), keeps its type and grows (`Upward`,
`SumGrows`); a sort is a bijection of places that puts low keys before high
(`SortedIs`: the place of an element is the number of elements up to it, different
for each, so none is left over), and hence ordered (`TipsInOrder`). Then
`TiersAlwaysAscend`: a higher percentile crosses its share of gas no earlier in the
one sorted sequence (`PercentilesAscend`), the decay is monotone in its anchor
(`CappedAscend`, for any `Wad`, cap and number of blocks gone by), so each
publication is a ladder if the one before was (`TipsAscend`). `InverseRankAlways`
needs of the invariant only what kind of thing is published: `RankIs` says that
`classifyTip` puts a tip below all that tip more and above all that do not,
`PriceIs` what `tipForBlockPosition` asks for a place, and there is one lemma for
each kind of query; `RoundedShare` shows that rounding half up does not leave the
percentile. `BumpsAlwaysOutbid`: the tier tips more than the floor
(`TierAboveFloor`; the strategies above the cheapest tier need the ladder to ascend
from `slow` on, hence a flat model), the buffered base fee is no less than the base
fee (`BufferedAbove`, of powers of 9 and 8), so the replacement's effective tip is
all of the tier's; and the samples that tip as much have places before the rival's,
of which there are fewer than its rank (`FewAbove`, by the injection into places).
`OffersAlwaysLast` is about `baseFeeLivenessBlocks` (`math.ts` 227-246 calls its
(9/8)^N the exact worst case): unless the market is called falling, a tier's fee cap
leaves its whole tip in each of the next N blocks when all of them are full. The
climb `WorstClimb`, which EIP-1559 rounds down in every block, stays under the
buffer, which the code rounds down once: 8^k times any fee of the first k blocks is
at most 9^k times the base fee (`ClimbBelow`), and a whole number below a fraction is
below what is left of it (`QuotientAbove`). It starts at 8 wei: under that the
protocol still adds one, which is more than an eighth, and the buffer falls short.
Proved for every set of blocks, forks, transactions, pools and fee histories, any
window, decay cap and buffer.

The assumptions are the named ASSUMEs of the modules (`ConstantsAssumption`,
`FeeAssumption`, `FeesAssumption`, that fees and gas are natural numbers or absent;
`RegistryAssumption`, `VaultAssumption`, `FlightAssumption`, `ReaderAssumption`;
`IndexAssumption`, that chunks are published as the index specifies them: sorted
tables, slices within the file, and a filter with the bits of every address; and
those that say that `None` is no record). TLC evaluates all of them.

Only model-checked: everything temporal with fairness (`Quiesces`, `CatchesUp`,
`Settles`, `QueryEnds`), which is out of the prover's reach. Every other property of
every run is stated by a theorem.

## Disagreements

What a comment, a document or a type of the repository says and TLC refutes. None
is a listed run; every one is a `.cfg` of this directory, or a listed one with the
constants of the last column (`MCTxObserver`'s defaults are those of
`TxObserver_blocks.cfg` with `MaxHeight = 3`, `MaxAdopts = 2`, `MaxHandOuts = 3`,
`MaxRestarts = 0`, `CapsChanges <- NoChanges`, `InOrder = TRUE`; `MCGasOracle`'s
those of `GasOracle_remount.cfg` with `Options <- AlwaysOn`; `MCChainSource`'s
those of `ChainSource_resume.cfg`). A configuration with several properties shows
them one at a time, or with `-continue`.

| property | what the repository says | what happens | instance |
| --- | --- | --- | --- |
| `ResumeDelivers` | source.ts:706-708, "a consumer that paused and resumed should get a current snapshot on first re-tick" | a cycle that ends after `stop()` sets the dedup key and the gate again; the next session hands out nothing until the chain moves | `ChainSource_resume` |
| `OneChain` | source.ts:595-598, bailing prevents "a new setTimeout chain that races stop()'s cleared timer" | `stop` and `start` while a cycle is in flight leave two chains | `Spec`, `MaxHeads = 3` |
| `NoLeakedStream` | source.ts:374-377, no idempotency flag is needed | a subscribe in flight over `stop` and `start` displaces a handle | `Spec`, `MaxHeads = 3`, `Shapes = {"subscription"}` |
| `ReorgSurfaces` | source.ts:322-324, a same-height reorg surfaces as a fresh observation | over HTTP polling the gate compares numbers | `MaxHeight = 1`, `Forks = {f1, f2}`, `MaxHeads = 2`, one slot, timer and start |
| `NoSecondDelivery` | source.ts:385-386, the race of pushes and polls is handled | an older answer is handed out after a newer, and the newer again | `Spec`, `MaxHeads = 3`, `MaxStarts = 1`, `Shapes = {"subscription"}` |
| `SnapshotFull` | skills/chain-source-integration/SKILL.md:121-122, a snapshot is the full pool | a pushed transaction is a snapshot of one | `Spec`, `EveryAdapting`, `Txs = {a, b}`, `Resident = {a}`, `MaxStarts = 1`, `Shapes = {"subscription"}` |
| `ConfirmationsHonest` | events.ts:106-107, "blocks observed since this inclusion inclusive of the inclusion block itself" | an inclusion found by a poll ahead of the feed is bumped by the blocks up to it | `TxObserver_confirmations` |
| `InclusionOnChain` | docs/tx-tracker-spec.md:1082-1084 | a reorg of two blocks at once displaces one height | `MaxHeight = 4`, `MaxAdopts = 3` |
| `SeenInRing` | tracker.ts:1360-1364 | a reorg during the prefetch is resumed over; a poll finds an inclusion the ring has not seen | `WithReceipts = {o}`; `StatusPoll`, `MaxInFlight = 1` |
| `VanishedNamesSeen` | events.ts:128-131 | the record's block came from a poll, the event names the ring's | `StatusPoll`, `MaxInFlight = 1`, `MaxAdopts = 3`, `Forks = {0, 1}` |
| `VanishedIsGone` | events.ts:128-131 | the replacing block holds the transaction too | `Forks = {0, 1}` |
| `UnseenHonest` | events.ts:159-160 | the status poll that finds it pending does not reset the streak; neither does a block older than the last sight | `StatusPoll`, `MaxInFlight = 1`, `Reorgs = FALSE`, the bounds of `blocks`; the constants of `mempool` with `InOrder = FALSE` |
| `ThresholdFires` | tracker.ts:1742-1744 | a threshold lowered under the streak is passed over by `===` | `Thresholds = {1, 3}`, `AllPools`, `Reorgs = FALSE` |
| `InclusionReported` | tracker.ts:1360-1364 | a snapshot during the prefetch makes the block look stale | `WithReceipts = {o}`, `AllPools`, `Reorgs = FALSE` |
| `RecoveredAfterDegraded` | events.ts:202-203 | the first probe's answer reads as a recovery | `CapsChanges <- Negotiation`, `Reorgs = FALSE` |
| `FirstBlockKeeps` | docs/tx-tracker-spec.md:933-934 | `0n` stands for "no block yet", so the first block evicts what ended before it | the constants of `mempool`, `MinHeight = 2`, `Reorgs = FALSE` |
| `CompleteIsIncluded`, `FailedIsLost` | group-events.ts:37-40, "none have been replaced or reorged" | the group remembers a member that was reorged out; a member that fails it may be on the chain | `TxConsumers_claims` |
| `RevertsFail` (TxConsumers) | wait-for-transaction.ts:46-49, `withReceipts` tells a failed execution | an inclusion that a poll found carries no receipt and resolves as mined | `TxConsumers_claims` |
| `WatchEnds` | watch-transaction.ts:103-121 | retention drops the record under a watcher that waits for more confirmations | `TxConsumers_claims` |
| `TipIsSet` | tracker.ts:1446, "`latestTip` is always set to `newTip` above" | a block that awaited receipts over `stop()` finds it null and rejects | `TxRegistry_tip` |
| `BulkIterationEnds` | tracker.ts:277-278, "Iteration ends when `stop()` is called" | a parked `next()` of the match iterator stays parked | `TxRegistry_careless` |
| `AutoServed` | tracker.ts:1719 | an auto-tracked record that retention dropped is never tracked again | `TxRegistry_careless` |
| `ServedOrTold`, `OneStream`, `DurableKept`, `LogWhole` | docs/tx-tracker-spec.md:556 | with one callback passed twice, a handle used after `stopped`, a slow store, or `subscribe` before `ready()`, each fails | `TxRegistry_careless` |
| `RemountKeepsLoop` | packages/gas-oracle/README.md:228-231, "the cache stays warm" | a re-subscribe leaves the stale timer armed, which detaches the oracle under its new subscriber | `GasOracle_remount` |
| `StopClears` | oracle.ts:201, "Stop polling and clear in-memory state" | a block that awaits its fetches over `stop` publishes after it | `MaxHandOuts = 3` |
| `RingLinked` | oracle.ts:531-534, incomplete ancestry restarts the ring | a walk cut short whose blocks have heights of the ring takes the same-height branch, which compares no parents | `FetchFails = TRUE`, one slot |
| `BridgeConnected` | oracle.ts:559-562, "we verify the connection before returning" | only the ends are compared: a head that leaves the branch and comes back between two fetches puts a stranger in the middle | `Window = 4`, `MaxAdopts = 4`, one slot |
| `ReorgVisible` | types.ts:198-200, `lastReorg.blockNumber` is to be compared with `state.blockNumber` | the reorg of a bridged block carries that block's number | one slot |
| `NeverOlder` | ring.ts:127-128, "the source emits monotonically" | the older of two handled blocks publishes last | two slots |
| `LazyPolls` | viem-transport.ts:68-73, "`'lazy'` waits for the first intercepted RPC" | the first read goes through `pollOnce` and nothing ever starts the loop | `Fees_claims` |
| `StopIsFinal` | viem-actions.ts:85, "After stop, subsequent reads will throw" | they poll | `Fees_claims` |
| `LadderAscends` | types.ts:54-59, "Ordering is load-bearing" | `slow` is a percentile of all samples, the others of the paying lane | `Fees_claims` |
| `StrategiesOutbid`, `OutpacesAll` | replacement.ts:101-107, "ranked strictly above every tx currently ahead" | the floor outbids the one just ahead; the tier picked, or the protocol's floor, need not | `Fees_claims` |
| `UnmountStops` | tx-tracker.ts:12-14 of tx-flight-react's integrations | a watcher attached after the unmount is never stopped | `Flight_claims` |
| `LostIsUnsent` | provider.tsx:154-156, "the wallet interaction is gone" | the wallet answers the page that is gone, and the transaction is sent | `Flight_claims` |
| `HooksFollow` | provider.tsx:223-225 | hooks made before a Strict Mode remount patch the first store | `Flight_claims` |
| `RevertsFail` (Flight) | types.ts:71-75 | the event carries a raw receipt, whose status `'0x0'` is compared with `'reverted'` | `Flight_reverts` |
| `RemovedStays`, `SavedKept` | provider.tsx:150 | an adapter that answers later than a microtask (IndexedDB) loads over what happened meanwhile | `Flight_page` with `AnswersFirst = FALSE` |
| `NeverLooksComplete` | reader.ts:63, "Empty = fully complete" | a file cut at a record's end parses, and the rest of it is missing in silence; so is an aborted chunk | `UnchainedReader_claims` |
| `CacheValid` | fetcher.ts:11-12, "a cache hit is always valid" | bytes are cached before anybody parses them | `UnchainedReader_claims` |
| `AbortStops` | reader.ts:56 | a task in a lane's queue is fetched after the abort | `UnchainedReader_claims` |
| `DerivesOnce` | key-session.ts:5-7, "derive runs once even under concurrent callers" | a rejected derivation that was cleared meanwhile drops its successor's promise, and the next caller derives again | `Vault_claims` |
| `RowsOwned`, `TextFits` | App.tsx, `decryptNote` | notes that load, or a decryption that ends, after the list changed put rows and texts in the wrong place | `Vault_claims` |

Read in the code, without a model: a group with a hash twice never completes, an
empty one is complete before anybody can listen, and `group-stopped` may follow
`group-complete`; `waitForPending` rejects a transaction that is mined before it
was seen pending; a predicate of a bulk selector that throws ends `onBlock` before
its records are looked at; rehydration emits no `started`
(docs/tx-tracker-spec.md, section 13.1, says it does); a limiter of concurrency 0
never starts anything; a `getBlock` that fails after the receipt leaves an entry
pending (receipt.ts:131); the provider's default storage is a new one with every
render (provider.tsx:199); examples/encrypted-vault/README.md fears two saves that
drop a note, which the synchronous note store cannot do.

## Not modelled, and why

Delays, the block-time estimate and backoff values (any delay is covered);
timestamps, raw transactions, receipts' contents and the event source (no
property tells them apart); logging; the on-demand getters of the source, which
keep no state; cryptography; React rendering and its components; wire formats and
the bytes of index files (what the parsers make of them is modelled). Of
tx-tracker: two tabs over one store, a store that rejects, the group's own
iterator, `multi-tracker.ts` and `replace-transaction.ts`, which add no step to
what they wrap. Of gas-oracle: blob fees, mempool statistics and lookups, presets
and inclusion labels, which read the published state and no more. Of
tx-flight-react and wallet-adapter: a user's hook that throws, the gate on
confirmations. Of the key session: `dispose()`, which the application never calls.
`data.generated.ts` of rpc-collector, a third of the repository's code by lines,
is a table.

## Plan

What would add most from here, in this order:

1. Theorems that part the premises of `InclusionsInRing`: which of them hold with
   the polls on and receipts not awaited.
2. `SourceTracker`: ChainSource's `feed` driving TxObserver's `OnBlock`, to
   discharge what TxObserver assumes of its feed.
3. Two trackers over one store, for the log that two tabs append to.
4. The caches of examples/unchained-index-server and the pages of the other
   examples, which compose the packages modelled here.
