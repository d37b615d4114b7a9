------------------------------ MODULE ChainSource ------------------------------
(***************************************************************************)
(* The polling-and-pushing core of @valve-tech/chain-source: the closure   *)
(* that createChainSource builds (packages/chain-source/src/source.ts).    *)
(*                                                                         *)
(* JavaScript runs one callback at a time, so every stretch of code        *)
(* between two awaits is one action.  A poll cycle or a push handler in    *)
(* flight is a task in a slot; each RPC it makes is three steps: it is     *)
(* sent (the end of the step before), the node answers from its state at   *)
(* that moment (Answer), and the code resumes with the answer (Resume).    *)
(* Answers of different tasks may therefore be used in any order, and      *)
(* start() and stop() may run between any two steps.                       *)
(*                                                                         *)
(* Left out: how long a timer waits.  The delay is a function of           *)
(* retryAttempts and the block time estimate; a timer here fires at any    *)
(* later moment.                                                           *)
(***************************************************************************)
EXTENDS Naturals, Sequences, FiniteSets

CONSTANTS
  MaxHeight,      \* block numbers are 1..MaxHeight
  Forks,          \* tells apart blocks (hashes) of one number
  GarbledForks,   \* forks whose blocks carry a number BigInt() rejects
  Txs,            \* pending transactions
  Resident,       \* transactions that never leave the node's mempool
  Options,        \* the options a source may be created with
  Shapes,         \* what probing transport.subscribe may find
  Slots,          \* places for poll cycles and push handlers in flight
  TimerIds,       \* handles setTimeout and setInterval return
  RetryCap,       \* the attempt at which the backoff reaches retryMaxMs
  MaxHeads,       \* bound: heads the node goes through
  MaxStarts,      \* bound: calls of start()
  MaxPolls,       \* bound: calls of pollOnce(), by option
  None            \* undefined, null

Blocks == [num : 1..MaxHeight, fork : Forks]
NoPool == {None}     \* no mempool snapshot
Streams == {"newHeads", "newPending"}
Subscribable == {"subscription", "poll-only", "unavailable"}
Capabilities == [newHeads : Subscribable, newPending : Subscribable,
                 txpool : {"available", "gated"}]

ASSUME ConstantsAssumption ==
  /\ MaxHeight \in Nat /\ RetryCap \in Nat /\ MaxHeads \in Nat
  /\ MaxStarts \in Nat /\ MaxPolls \in [Options -> Nat]
  /\ GarbledForks \subseteq Forks
  /\ Resident \subseteq Txs
  /\ Options \subseteq [adaptive : BOOLEAN, mempool : BOOLEAN]
  /\ Shapes \subseteq Subscribable
  /\ None \notin Blocks /\ None \notin TimerIds /\ None \notin Txs

VARIABLES
  options,        \* adaptivePolling.enabled and poll.mempool, set for good
  history,        \* node: the heads it went through, the last is the head
  mempool,        \* node: pending transactions
  started,        \* `started`
  starts,         \* how often start() ran
  polls,          \* how often pollOnce() ran
  ready,          \* readyPromise has resolved
  caps,           \* cachedCapabilities
  armed,          \* timers the runtime will fire
  timer,          \* `timer`: the one handle the source keeps
  retryAttempts,  \* `retryAttempts`, saturating at RetryCap
  task,           \* poll cycles and push handlers in flight
  lastEmitted,    \* `lastEmittedBlockHash`
  lastSeen,       \* `lastSeenBlockNumber`, 0 when undefined
  waiting,        \* readyPromise.then(tryOpen...) callbacks not yet run
  opening,        \* wsTransport.subscribe calls in flight
  live,           \* eth_subscribe streams the node is serving
  handle,         \* block-/mempoolSubscriptionHandle is set
  feed,           \* positions in history handed to block subscribers
  current,        \* a block was handed out since the last start()
  snapshot        \* what mempool subscribers were last handed

node      == <<history, mempool>>
session   == <<options, started, starts, polls>>
probe     == <<ready, caps>>
scheduler == <<armed, timer, retryAttempts>>
gate      == <<lastEmitted, lastSeen>>
sockets   == <<waiting, opening, live, handle>>
output    == <<feed, current, snapshot>>
vars == <<node, session, probe, scheduler, task, gate, sockets, output>>

Adaptive == options.adaptive
FetchMempool == options.mempool

Tip == history[Len(history)]
Garbled(b) == b.fork \in GarbledForks

-----------------------------------------------------------------------------
\* Tasks.  "chain" is runAdaptiveTickAndSchedule, "tick" a bare tick() of the
\* interval or of pollOnce(), "push" handleHeadNotification, and "pending"
\* handleMempoolNotification.

\* The task of kind k is in phase a with the answer n and the mempool answer p.
Task(k, a, n, p) == [kind |-> k, at |-> a, ans |-> n, pool |-> p, moved |-> FALSE]

Idle == Task("idle", "idle", 0, NoPool)
Polling(k) == Task(k, "probing", 0, NoPool)
Pushed(k, p) == Task(k, "fetching", 0, p)
Returned(k, mv) ==
  [kind |-> k, at |-> "returned", ans |-> 0, pool |-> NoPool, moved |-> mv]

IdleSlots == {s \in Slots : task[s] = Idle}

Tasks ==
  [kind : {"idle", "chain", "tick", "push", "pending"},
   at : {"idle", "probing", "probed", "fetching", "fetched", "returned"},
   ans : Nat,
   pool : (SUBSET Txs) \cup {NoPool},
   moved : BOOLEAN]

ProbingDefault ==
  [newHeads |-> "unavailable", newPending |-> "unavailable", txpool |-> "gated"]

Init ==
  /\ options \in Options
  /\ \E b \in Blocks : history = <<b>>
  /\ mempool = Resident
  /\ started = FALSE /\ starts = 0 /\ polls = 0
  /\ ready = FALSE /\ caps = ProbingDefault
  /\ armed = {} /\ timer = None /\ retryAttempts = 0
  /\ task = [s \in Slots |-> Idle]
  /\ lastEmitted = None /\ lastSeen = 0
  /\ waiting = [w \in Streams |-> 0] /\ opening = [w \in Streams |-> 0]
  /\ live = [w \in Streams |-> 0] /\ handle = [w \in Streams |-> FALSE]
  /\ feed = <<>> /\ current = FALSE /\ snapshot = NoPool

-----------------------------------------------------------------------------
\* The node.

\* The head moves on: a block on top, several at once, or a reorg.
AdoptHead ==
  /\ Len(history) < MaxHeads
  /\ \E b \in Blocks \ {Tip} : history' = Append(history, b)
  /\ UNCHANGED <<mempool, session, probe, scheduler, task, gate, sockets, output>>

MempoolChanges ==
  /\ \E t \in Txs \ Resident :
       mempool' = IF t \in mempool THEN mempool \ {t} ELSE mempool \cup {t}
  /\ UNCHANGED <<history, session, probe, scheduler, task, gate, sockets, output>>

-----------------------------------------------------------------------------
\* The calls a consumer makes.

\* start(): a call while started returns at once.
Start ==
  /\ ~started
  /\ starts < MaxStarts
  /\ started' = TRUE
  /\ starts' = starts + 1
  /\ current' = FALSE
  /\ \E s \in IdleSlots :
       IF Adaptive
       THEN /\ task' = [task EXCEPT ![s] = Polling("chain")]
            /\ UNCHANGED <<armed, timer>>
       ELSE /\ task' = [task EXCEPT ![s] = Polling("tick")]
            /\ \E t \in TimerIds \ armed :
                 /\ armed' = armed \cup {t}
                 /\ timer' = t
  /\ waiting' = [w \in Streams |-> waiting[w] + 1]
  /\ UNCHANGED <<node, options, polls, probe, retryAttempts, gate, opening, live, handle,
                 feed, snapshot>>

\* Mutant: the handles are dropped and nothing is unsubscribed.
DropHandles == handle' = [w \in Streams |-> FALSE] /\ UNCHANGED live

CloseStreams ==
  /\ live' = [w \in Streams |-> IF handle[w] THEN live[w] - 1 ELSE live[w]]
  /\ handle' = [w \in Streams |-> FALSE]

\* Mutant: the dedup key is reset, the gate is not.
ResetKeyOnly == lastEmitted' = None /\ UNCHANGED lastSeen

ResetGate == lastEmitted' = None /\ lastSeen' = 0

\* stop(): also runs its whole body when the source is already stopped.  Only
\* the handles it holds are closed and cleared: not a subscribe in flight, not
\* a poll cycle in flight, not a timer that a later one displaced.
Stop ==
  /\ CloseStreams
  /\ armed' = armed \ {timer}
  /\ timer' = None
  /\ started' = FALSE
  /\ ResetGate
  /\ retryAttempts' = 0
  /\ feed' = <<>>
  /\ UNCHANGED <<node, options, starts, polls, probe, task, waiting, opening, current,
                 snapshot>>

PollOnce ==
  /\ polls < MaxPolls[options]
  /\ polls' = polls + 1
  /\ \E s \in IdleSlots : task' = [task EXCEPT ![s] = Polling("tick")]
  /\ UNCHANGED <<node, options, started, starts, probe, scheduler, gate, sockets, output>>

-----------------------------------------------------------------------------
\* Timers.  A timeout is spent when it fires, an interval stays.

\* Mutant: the adaptive chain is driven by an interval.
TimerStays(t) ==
  /\ t \in armed
  /\ \E s \in IdleSlots :
       task' = [task EXCEPT ![s] = Polling(IF Adaptive THEN "chain" ELSE "tick")]
  /\ UNCHANGED <<node, session, probe, scheduler, gate, sockets, output>>

TimerFires(t) ==
  /\ t \in armed
  /\ \E s \in IdleSlots :
       IF Adaptive
       THEN /\ task' = [task EXCEPT ![s] = Polling("chain")]
            /\ armed' = armed \ {t}
       ELSE /\ task' = [task EXCEPT ![s] = Polling("tick")]
            /\ UNCHANGED armed
  /\ UNCHANGED <<node, session, probe, timer, retryAttempts, gate, sockets, output>>

-----------------------------------------------------------------------------
\* One poll cycle: tick().

\* The node answers eth_blockNumber and txpool_content, each perhaps with an
\* error, which safeRequest turns into null.  Promise.all resolves with both.
ProbeAnswer(s) ==
  /\ task[s].at = "probing"
  /\ \E n \in {0, Tip.num} :
     \E p \in IF FetchMempool THEN {NoPool, mempool} ELSE {NoPool} :
       task' = [task EXCEPT ![s] = Task(task[s].kind, "probed", n, p)]
  /\ UNCHANGED <<node, session, probe, scheduler, gate, sockets, output>>

\* Mutant: only a higher head counts as a change.
HeadAdvanced(n) == n = 0 \/ lastSeen = 0 \/ n > lastSeen

HeadChanged(n) == n = 0 \/ lastSeen = 0 \/ n # lastSeen

\* What a task becomes when tick() returns: only the adaptive chain goes on.
AfterTick(tk, moved) ==
  IF tk.kind = "chain" THEN Returned("chain", moved) ELSE Idle

EmitMempool(tk) ==
  snapshot' = IF tk.pool # NoPool /\ FetchMempool THEN tk.pool ELSE snapshot

\* Mutant: no dedup at all.
FreshAlways(b) == TRUE

\* Mutant: a block whose number equals the gate's is a repeat.
FreshNumber(b) == b.num # lastSeen

\* The dedup key is the hash.
Fresh(b) == b # lastEmitted

\* Mutant: the dedup key is compared and never set.
EmitOnly(p) ==
  /\ feed' = Append(feed, p)
  /\ current' = TRUE
  /\ UNCHANGED lastEmitted

\* Mutant: the block before is handed out.
EmitBehind(p) ==
  /\ lastEmitted' = history[p]
  /\ feed' = Append(feed, p - 1)
  /\ current' = TRUE

EmitBlock(p) ==
  /\ lastEmitted' = history[p]
  /\ feed' = Append(feed, p)
  /\ current' = TRUE

\* Mutant: the gate is set from the probe's number, not the fetched block's.
FetchGateEager(s) ==
  /\ task[s].at = "probed"
  /\ HeadChanged(task[s].ans)
  /\ task' = [task EXCEPT ![s] = Task(task[s].kind, "fetching", 0, task[s].pool)]
  /\ lastSeen' = IF task[s].ans # 0 THEN task[s].ans ELSE lastSeen
  /\ UNCHANGED <<node, session, probe, scheduler, lastEmitted, sockets, output>>

\* The head-probe gate: fetch the full block only when the probe says the
\* head is not the last one fetched.
FetchGate(s) ==
  /\ task[s].at = "probed"
  /\ IF HeadChanged(task[s].ans)
     THEN /\ task' = [task EXCEPT ![s] = Task(task[s].kind, "fetching", 0, task[s].pool)]
          /\ UNCHANGED snapshot
     ELSE /\ task' = [task EXCEPT ![s] = AfterTick(task[s], FALSE)]
          /\ EmitMempool(task[s])
  /\ UNCHANGED <<node, session, probe, scheduler, gate, sockets, feed, current>>

\* eth_getBlockByNumber('latest') is answered with the head, or
\* eth_getTransactionByHash with a usable transaction ...
FetchOk(s) ==
  /\ task[s].at = "fetching"
  /\ task' = [task EXCEPT ![s] = Task(task[s].kind, "fetched", Len(history), task[s].pool)]
  /\ UNCHANGED <<node, session, probe, scheduler, gate, sockets, output>>

\* ... or with an error, null, or a transaction without sender or nonce.
FetchFails(s) ==
  /\ task[s].at = "fetching"
  /\ task' = [task EXCEPT ![s] = Task(task[s].kind, "fetched", 0, task[s].pool)]
  /\ UNCHANGED <<node, session, probe, scheduler, gate, sockets, output>>

\* tick() from the fetched block to its return.
TickEnd(s) ==
  LET tk == task[s]
      b  == history[tk.ans]
      moved == tk.ans # 0 /\ Fresh(b)
  IN
  /\ tk.at = "fetched"
  /\ tk.kind \in {"chain", "tick"}
  /\ lastSeen' = IF tk.ans # 0 /\ ~Garbled(b) THEN b.num ELSE lastSeen
  /\ IF moved THEN EmitBlock(tk.ans) ELSE UNCHANGED <<lastEmitted, feed, current>>
  /\ EmitMempool(tk)
  /\ task' = [task EXCEPT ![s] = AfterTick(tk, moved)]
  /\ UNCHANGED <<node, session, probe, scheduler, sockets>>

\* Mutant: the chain goes on without looking at `started`.
ScheduleAlways(s) ==
  /\ task[s].at = "returned"
  /\ task' = [task EXCEPT ![s] = Idle]
  /\ \E t \in TimerIds \ armed : armed' = armed \cup {t} /\ timer' = t
  /\ UNCHANGED <<node, session, probe, retryAttempts, gate, sockets, output>>

\* runAdaptiveTickAndSchedule after `await tick()`.
Schedule(s) ==
  /\ task[s].at = "returned"
  /\ task' = [task EXCEPT ![s] = Idle]
  /\ IF started
     THEN /\ retryAttempts' =
               IF task[s].moved THEN 0
               ELSE IF retryAttempts < RetryCap THEN retryAttempts + 1
               ELSE retryAttempts
          /\ \E t \in TimerIds \ armed :
               /\ armed' = armed \cup {t}
               /\ timer' = t
     ELSE UNCHANGED scheduler
  /\ UNCHANGED <<node, session, probe, gate, sockets, output>>

-----------------------------------------------------------------------------
\* The push path.

\* One live subscribe probes the transport; both streams inherit its answer.
ProbeCapabilities(shape, pool) ==
  [newHeads |-> shape,
   newPending |-> IF shape = "subscription" THEN "subscription"
                  ELSE IF pool = "available" THEN "poll-only"
                  ELSE "unavailable",
   txpool |-> pool]

ProbeDone ==
  /\ ~ready
  /\ ready' = TRUE
  /\ \E shape \in Shapes, pool \in {"available", "gated"} :
       caps' = ProbeCapabilities(shape, pool)
  /\ UNCHANGED <<node, session, scheduler, task, gate, sockets, output>>

Wanted(w) == (w = "newPending" => FetchMempool) /\ caps[w] = "subscription"

\* tryOpenBlockSubscription / tryOpenMempoolSubscription up to the await.
OpenStream(w) ==
  /\ ready
  /\ waiting[w] > 0
  /\ waiting' = [waiting EXCEPT ![w] = @ - 1]
  /\ opening' =
       IF Wanted(w) THEN [opening EXCEPT ![w] = @ + 1] ELSE opening
  /\ UNCHANGED <<node, session, probe, scheduler, task, gate, live, handle, output>>

Opened(w) ==
  /\ opening[w] > 0
  /\ opening' = [opening EXCEPT ![w] = @ - 1]
  /\ live' = [live EXCEPT ![w] = @ + 1]
  /\ handle' = [handle EXCEPT ![w] = TRUE]
  /\ UNCHANGED <<node, session, probe, scheduler, task, gate, waiting, output>>

\* Mutant: the mempool stream falls back to polling, whatever txpool_content
\* said.
DowngradeToPoll(w) == "poll-only"

Downgrade(w) ==
  IF w = "newPending" /\ caps.txpool # "available" THEN "unavailable"
  ELSE "poll-only"

\* The subscribe call rejects: the capability is downgraded for good.
OpenFails(w) ==
  /\ opening[w] > 0
  /\ opening' = [opening EXCEPT ![w] = @ - 1]
  /\ caps' = [caps EXCEPT ![w] = Downgrade(w)]
  /\ UNCHANGED <<node, session, ready, scheduler, task, gate, waiting, live,
                 handle, output>>

HeadNotification ==
  /\ live["newHeads"] > 0
  /\ \E s \in IdleSlots : task' = [task EXCEPT ![s] = Pushed("push", NoPool)]
  /\ UNCHANGED <<node, session, probe, scheduler, gate, sockets, output>>

PendingNotification ==
  /\ live["newPending"] > 0
  /\ \E t \in mempool, s \in IdleSlots :
       task' = [task EXCEPT ![s] = Pushed("pending", {t})]
  /\ UNCHANGED <<node, session, probe, scheduler, gate, sockets, output>>

\* handleHeadNotification after its await.
HandleHeadNotification(s) ==
  LET tk == task[s]
      b  == history[tk.ans]
  IN
  /\ tk.at = "fetched"
  /\ tk.kind = "push"
  /\ IF tk.ans # 0 /\ Fresh(b)
     THEN /\ EmitBlock(tk.ans)
          /\ lastSeen' = IF Garbled(b) THEN lastSeen ELSE b.num
     ELSE UNCHANGED <<gate, feed, current>>
  /\ task' = [task EXCEPT ![s] = Idle]
  /\ UNCHANGED <<node, session, probe, scheduler, sockets, snapshot>>

\* handleMempoolNotification after its await: a snapshot of one transaction.
HandleMempoolNotification(s) ==
  LET tk == task[s] IN
  /\ tk.at = "fetched"
  /\ tk.kind = "pending"
  /\ snapshot' = IF tk.ans # 0 THEN tk.pool ELSE snapshot
  /\ task' = [task EXCEPT ![s] = Idle]
  /\ UNCHANGED <<node, session, probe, scheduler, gate, sockets, feed, current>>

-----------------------------------------------------------------------------
Resume(s) ==
  \/ FetchGate(s) \/ TickEnd(s) \/ Schedule(s)
  \/ HandleHeadNotification(s) \/ HandleMempoolNotification(s)

Answer(s) == ProbeAnswer(s) \/ FetchOk(s) \/ FetchFails(s)

Next ==
  \/ AdoptHead \/ MempoolChanges
  \/ Start \/ Stop \/ PollOnce
  \/ \E t \in TimerIds : TimerFires(t)
  \/ \E s \in Slots : Answer(s) \/ Resume(s)
  \/ ProbeDone
  \/ \E w \in Streams : OpenStream(w) \/ Opened(w) \/ OpenFails(w)
  \/ HeadNotification \/ PendingNotification

Spec == Init /\ [][Next]_vars

\* The runtime runs callbacks that are due, RPCs settle, timers fire and the
\* endpoint does not fail for ever.  A timer needs no slot in the code, so a
\* slot that is free again and again is enough for it to fire.
Fairness ==
  /\ \A s \in Slots : WF_vars(Answer(s)) /\ WF_vars(Resume(s)) /\ SF_vars(FetchOk(s))
  /\ \A t \in TimerIds : SF_vars(TimerFires(t))
  /\ WF_vars(ProbeDone)
  /\ \A w \in Streams : WF_vars(OpenStream(w)) /\ WF_vars(Opened(w) \/ OpenFails(w))

FairSpec == Spec /\ Fairness

-----------------------------------------------------------------------------
(* Properties *)

TypeOK ==
  /\ options \in Options
  /\ history \in Seq(Blocks) /\ Len(history) > 0
  /\ mempool \subseteq Txs
  /\ started \in BOOLEAN /\ starts \in Nat /\ polls \in Nat
  /\ ready \in BOOLEAN /\ caps \in Capabilities
  /\ armed \subseteq TimerIds /\ timer \in TimerIds \cup {None}
  /\ retryAttempts \in Nat
  /\ task \in [Slots -> Tasks]
  /\ lastEmitted \in Blocks \cup {None} /\ lastSeen \in 0..MaxHeight
  /\ waiting \in [Streams -> Nat] /\ opening \in [Streams -> Nat]
  /\ live \in [Streams -> Nat] /\ handle \in [Streams -> BOOLEAN]
  /\ feed \in Seq(1..Len(history)) /\ current \in BOOLEAN
  /\ snapshot \in (SUBSET Txs) \cup {NoPool}

\* A handle the source holds is a stream the node serves: stop() closes no
\* stream twice.
HandleServed == \A w \in Streams : handle[w] => live[w] > 0

\* A fetched block is one the node had as its head.
AnswersKnown ==
  \A s \in Slots : task[s].at = "fetched" => task[s].ans \in 0..Len(history)

\* The dedup key is the block handed out last since the reset.
LastOut ==
  lastEmitted = IF feed = <<>> THEN None ELSE history[feed[Len(feed)]]

\* A consumer is never handed the same block twice running, whichever poll
\* cycles and push handlers overlap (the hash check after every await).
NoRepeat ==
  \A i \in 1..(Len(feed) - 1) : history[feed[i]] # history[feed[i + 1]]

\* The head-probe gate only closes on a height that was handed out since the
\* last stop(): a skipped fetch never hides a height nobody has seen.
GateSound ==
  lastSeen # 0 => \E i \in 1..Len(feed) : history[feed[i]].num = lastSeen

\* The chains of the adaptive scheduler, asleep or running.
Chains == armed \cup {s \in Slots : task[s].kind = "chain"}

\* One scheduler chain: source.ts says the `started` check after the await
\* prevents a setTimeout chain that races the one stop() cleared.
OneChain == Cardinality(Chains) <= 1

\* The node serves exactly the streams whose handles stop() can close: source.ts
\* says no idempotency flag is needed around the subscribe calls.
NoLeakedStream == \A w \in Streams : live[w] = IF handle[w] THEN 1 ELSE 0

\* The mempool stream is called poll-only just when there is something to poll.
FallbackReal == caps.newPending = "poll-only" => caps.txpool = "available"

\* After stop() with no start() to follow, whatever poll cycles and timers were
\* under way die out.
Quiesces == ~started ~> (started \/ Chains = {})

\* A source that stays started over a head that comes to rest hands out a
\* block of the head's height, whatever failed or came late on the way.
CatchesUp ==
  <>[]started => <>[](feed # <<>> /\ history[feed[Len(feed)]].num = Tip.num)

\* A resumed source hands out a current block on its first ticks rather than
\* wait for the next chain block.
ResumeDelivers == [](started => <>(current \/ ~started))

\* A same-height reorg surfaces as a fresh observation.
ReorgSurfaces ==
  <>[]started => <>[](feed # <<>> /\ history[feed[Len(feed)]] = Tip)

\* The race of pushes and polls is handled: nothing the node moved past and
\* the consumer has seen is handed out again in the same session.
NoSecondDelivery == \A i, j \in 1..Len(feed) : i # j => feed[i] # feed[j]

\* Every snapshot is the full pool: it holds what never left the mempool.
SnapshotFull == snapshot = NoPool \/ Resident \subseteq snapshot

Feed == INSTANCE BlockFeed WITH Blocks <- Blocks

\* The source implements what subscribeBlocks promises.
FeedSpec == Feed!Spec
================================================================================
