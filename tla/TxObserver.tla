------------------------------ MODULE TxObserver ------------------------------
(***************************************************************************)
(* The observation half of @valve-tech/tx-tracker: what createTxTracker's  *)
(* closure (packages/tx-tracker/src/tracker.ts) does to the records of the *)
(* tracked transactions when a block or a mempool snapshot arrives and     *)
(* when a poll answers.                                                    *)
(*                                                                         *)
(* JavaScript runs one callback at a time, so every stretch of code        *)
(* between two awaits is one action.  onBlock is cut in two by the         *)
(* prefetch of receipts; a poll is dispatched, answered from the node's    *)
(* chain at that moment, and resumed, with anything between.  `told` is    *)
(* what a subscriber that joined with the record knows from the events     *)
(* alone; `told` and `quiet` are bookkeeping and steer nothing.            *)
(*                                                                         *)
(* One subscriber a record; several of them, bulk selectors, stop() and    *)
(* the durable store are no part of this module.                           *)
(***************************************************************************)
EXTENDS TxObservation

CONSTANTS
  Chains,         \* the blocks there may be
  Tracked,        \* transactions a consumer may subscribe to
  Thresholds,     \* values of unseenThresholdBlocks in use
  Confirmations,  \* confirmationsForTerminal, or Never
  Retention,      \* retentionBlocks
  ReorgDepth,     \* reorgDepthBlocks
  WithReceipts,   \* transactions whose subscription sets withReceipts
  Every,          \* per poll kind: blocks between two polls, 0 is off
  PollsFail,      \* a poll may fail
  Reorgs,         \* the node may leave its chain
  InOrder,        \* the feed hands out the head only, never an older one
  Pools,          \* the mempool snapshots the source may hand out
  CapsChanges,    \* changes <<from, to>> of the capability's rank
  MaxAdopts,      \* bound: heads the node adopts
  MaxHandOuts,    \* bound: blocks handed out
  MaxRestarts,    \* bound: stops and starts of the source
  MaxRecords,     \* bound: records one transaction may have in turn
  MaxInFlight     \* bound: polls in flight when a block is handed out

Ranks == 0..2     \* capabilityRank

ASSUME ConstantsAssumption ==
  /\ Tracked \subseteq Txs /\ WithReceipts \subseteq Txs
  /\ Thresholds \subseteq Nat /\ Confirmations \in Nat \cup {Never}
  /\ Retention \in Nat /\ ReorgDepth \in Nat \ {0}
  /\ Every \in [PollKinds -> Nat]
  /\ PollsFail \in BOOLEAN /\ Reorgs \in BOOLEAN /\ InOrder \in BOOLEAN
  /\ Pools \subseteq Snapshots
  /\ CapsChanges \subseteq Ranks \X Ranks
  /\ MaxAdopts \in Nat /\ MaxHandOuts \in Nat /\ MaxRestarts \in Nat
  /\ MaxRecords \in Nat /\ MaxInFlight \in Nat
  /\ None \notin Chains /\ None \notin Txs /\ None \notin Buckets
  /\ \A b \in Chains :
       /\ Number(b) \in Nat
       /\ \A t \in Txs : OnChain(t, b) => InclusionOf(t, b) \in Chains

VARIABLES
  head,      \* node: the block it takes for the head
  past,      \* node: the heads it has had, the present one included
  handed,    \* source: the block it handed out last, None after a restart
  count,     \* how many adoptions, hand-outs and restarts there were
  caps,      \* source: rank of one capability
  lastCaps,  \* `lastCaps`: the rank the tracker last saw
  tip,       \* `latestTip`
  ring,      \* `blockRing`
  rec,       \* `tracked`: the record of a transaction, None without one
  waiting,   \* onBlock calls that await their receipts
  polls,     \* polls in flight
  records,   \* how many records a transaction has had
  told,      \* what the record's subscriber knows
  quiet      \* blocks since anything, polls included, saw the transaction

node    == <<head, past, handed, count>>
tracker == <<lastCaps, tip, ring, rec>>
vars == <<node, caps, tracker, waiting, polls, records, told, quiet>>

Live == {t \in Tracked : rec[t] # None}
TipOr0 == IF tip = None THEN 0 ELSE Number(tip)      \* latestTip?.number ?? 0n

-----------------------------------------------------------------------------
\* What the events say.
NothingTold ==
  [at |-> None, conf |-> 0, bucket |-> None, inPool |-> FALSE, ended |-> FALSE,
   confirmed |-> 0, unseen |-> FALSE, vanished |-> None, lost |-> None,
   stopped |-> FALSE]

Stopped == [NothingTold EXCEPT !.stopped = TRUE]

Fired(events, kind) == \E e \in events : e.kind = kind
The(events, kind) == CHOOSE e \in events : e.kind = kind

\* The events of one decision heard: at most one of a kind.
Hear(w, events) ==
  LET Fires(kind) == Fired(events, kind)
      Seen  == The(events, "seen-in-block")
      Gone  == Fires("vanished-from-block")
      InBlk == Fires("seen-in-block")
      InMp  == Fires("seen-in-mempool")
  IN [at |-> IF InBlk THEN Seen.block ELSE IF Gone THEN None ELSE w.at,
      conf |-> IF InBlk THEN Seen.conf ELSE IF Gone THEN 0 ELSE w.conf,
      bucket |-> IF InMp THEN The(events, "seen-in-mempool").bucket ELSE w.bucket,
      inPool |-> IF InMp THEN TRUE
                 ELSE IF Fires("left-mempool") THEN FALSE ELSE w.inPool,
      ended |-> w.ended \/ Fires("confirmed-terminal") \/ Fires("replaced-by")
                        \/ Fires("unseen-for-N-blocks"),
      confirmed |-> IF Fires("confirmed-terminal") THEN w.confirmed + 1
                    ELSE w.confirmed,
      unseen |-> w.unseen \/ Fires("unseen-for-N-blocks"),
      vanished |-> IF Gone THEN The(events, "vanished-from-block") ELSE w.vanished,
      lost |-> w.lost,
      stopped |-> w.stopped]

-----------------------------------------------------------------------------
Init ==
  /\ head \in {b \in Chains : \A c \in Chains : Number(b) <= Number(c)}
  /\ past = {head} /\ handed = None
  /\ count = [adopts |-> 0, handOuts |-> 0, restarts |-> 0]
  /\ caps \in {IF CapsChanges = {} THEN 2 ELSE 0} /\ lastCaps = caps
  /\ tip = None /\ ring = {}
  /\ rec = [t \in Tracked |-> None]
  /\ waiting = {} /\ polls = {}
  /\ records = [t \in Tracked |-> 0]
  /\ told = [t \in Tracked |-> NothingTold]
  /\ quiet = [t \in Tracked |-> 0]

-----------------------------------------------------------------------------
\* The node and the source.

AdoptHead ==
  /\ count.adopts < MaxAdopts
  /\ \E b \in Chains \ {head} :
       /\ Number(b) >= Number(head)
       /\ ~Reorgs => IsAncestor(head, b)
       /\ head' = b
       /\ past' = IF InOrder THEN {b} ELSE past \cup {b}
  /\ count' = [count EXCEPT !.adopts = @ + 1]
  /\ UNCHANGED <<handed, caps, tracker, waiting, polls, records, told, quiet>>

SourceRestarts ==
  /\ count.restarts < MaxRestarts
  /\ handed # None /\ handed' = None
  /\ count' = [count EXCEPT !.restarts = @ + 1]
  /\ UNCHANGED <<head, past, caps, tracker, waiting, polls, records, told, quiet>>

CapsChange ==
  /\ \E c \in CapsChanges : c[1] = caps /\ caps' = c[2]
  /\ UNCHANGED <<node, tracker, waiting, polls, records, told, quiet>>

-----------------------------------------------------------------------------
\* The consumer.

\* subscribe: the first subscription creates the record, a later one may
\* lower its threshold.
Subscribe(t, threshold) ==
  /\ IF rec[t] = None
     THEN /\ records[t] < MaxRecords
          /\ records' = [records EXCEPT ![t] = @ + 1]
          /\ rec' = [rec EXCEPT ![t] = NewRecord(records[t] + 1, threshold)]
          /\ told' = [told EXCEPT ![t] = NothingTold]
          /\ quiet' = [quiet EXCEPT ![t] = 0]
     ELSE /\ threshold < rec[t].threshold
          /\ rec' = [rec EXCEPT ![t].threshold = threshold]
          /\ UNCHANGED <<records, told, quiet>>
  /\ UNCHANGED <<node, caps, lastCaps, tip, ring, waiting, polls>>

\* The last unsubscribe: the record is dropped.
Release(t) ==
  /\ rec[t] # None
  /\ rec' = [rec EXCEPT ![t] = None]
  /\ told' = [told EXCEPT ![t] = Stopped]
  /\ UNCHANGED <<node, caps, lastCaps, tip, ring, waiting, polls, records, quiet>>

-----------------------------------------------------------------------------
\* onBlock.

\* Mutant: the event names the tip there was, not the block displaced.
ReorgedFromTip(r, b) ==
  IF \E d \in DetectDivergences(ring, {b}, ReorgDepth) :
       r.at # None /\ Number(d) = Number(r.at)
  THEN Decision(SetBlock(SetLast(r, Number(b)), None, 0), {Vanished(tip, b)})
  ELSE NoChange(r)

\* handleReorgs: a block of the ring that b displaces costs every record
\* included at that height its inclusion.
Reorged(r, b) ==
  LET gone == {d \in DetectDivergences(ring, {b}, ReorgDepth) :
                 r.at # None /\ Number(d) = Number(r.at)}
  IN IF gone # {}
     THEN Decision(SetBlock(SetLast(r, Number(b)), None, 0),
                   {Vanished(CHOOSE d \in gone : TRUE, b)})
     ELSE NoChange(r)

\* handleCapabilityChange, for a subscriber whose policy is not 'silent'.
Signalled(w) ==
  [w EXCEPT !.lost = IF caps < lastCaps THEN "degraded"
                     ELSE IF caps > lastCaps THEN "recovered" ELSE @]

\* A later block's onBlock has brought this record past b.
Stale(r, b) == r.last > Number(b)

ObserveBlock(r, t, b, hadTip) ==
  IF Stale(r, b) THEN NoChange(r)
  ELSE DecideBlock(r, t, b, hadTip, Confirmations)

Expired(r, b) == r.terminal # Never /\ Number(b) > r.terminal + Retention

\* Mutant: one block more than asked for lies between two polls.
DueLate(r, k) == Every[k] > 0 /\ r.ticks[k] >= Every[k]

\* The polls' tick counters, and the polls due.
Due(r, k) == Every[k] > 0 /\ r.ticks[k] + 1 >= Every[k]

\* Mutant: the counters run down.
TickedDown(r) ==
  [r EXCEPT !.ticks = [k \in PollKinds |->
     IF Every[k] = 0 \/ Due(r, k) THEN 0 ELSE r.ticks[k] - 1]]

Ticked(r) ==
  [r EXCEPT !.ticks = [k \in PollKinds |->
     IF Every[k] = 0 \/ Due(r, k) THEN 0 ELSE r.ticks[k] + 1]]

\* Everything in onBlock after the receipts: b is held against every record of
\* R, terminal records past their window go, the polls of the others are sent.
FinishBlock(R, W, b, hadTip, latest) ==
  LET is  == {t \in Tracked : R[t] # None}
      d   == [t \in is |-> ObserveBlock(R[t], t, b, hadTip)]
      out == {t \in is : Expired(d[t].rec, b)}
  IN /\ rec' = [t \in Tracked |->
                  IF t \in is \ out THEN Ticked(d[t].rec) ELSE None]
     /\ told' = [t \in Tracked |->
                   IF t \in out THEN Stopped
                   ELSE IF t \in is THEN Hear(W[t], d[t].events) ELSE W[t]]
     /\ polls' = polls \cup
          {[kind |-> p[1], tx |-> p[2], id |-> R[p[2]].id, tip |-> latest,
            found |-> "asked", block |-> None] :
             p \in {q \in PollKinds \X (is \ out) : Due(d[q[2]].rec, q[1])}}
     /\ quiet' = [t \in Tracked |->
                    IF t \in is \ out /\ t \notin Transactions(b)
                    THEN quiet[t] + 1 ELSE 0]

\* The source hands out block b.
OnBlock(b) ==
  LET R == [t \in Tracked |->
              IF rec[t] = None THEN None ELSE Reorged(rec[t], b).rec]
      W == [t \in Tracked |->
              IF rec[t] = None THEN told[t]
              ELSE Signalled(Hear(told[t], Reorged(rec[t], b).events))]
      task == [block |-> b, hadTip |-> tip # None]
  IN /\ b # handed
     /\ count.handOuts < MaxHandOuts /\ Cardinality(polls) <= MaxInFlight
     /\ handed' = b
     /\ count' = [count EXCEPT !.handOuts = @ + 1]
     /\ tip' = b
     /\ ring' = AppendBlock(ring, b, 2 * ReorgDepth)
     /\ lastCaps' = caps
     /\ IF Live \cap WithReceipts \cap Transactions(b) # {}
        THEN /\ task \notin waiting
             /\ waiting' = waiting \cup {task}
             /\ rec' = R /\ told' = W
             /\ UNCHANGED <<polls, quiet>>
        ELSE /\ FinishBlock(R, W, b, tip # None, Number(b))
             /\ UNCHANGED waiting
     /\ UNCHANGED <<head, past, caps, records>>

\* The receipts an onBlock call awaited have come, or failed.
ResumeBlock(task) ==
  /\ waiting' = waiting \ {task}
  /\ FinishBlock(rec, told, task.block, task.hadTip, TipOr0)
  /\ UNCHANGED <<node, caps, lastCaps, tip, ring, records>>

-----------------------------------------------------------------------------
\* onMempool.
OnMempool(s) ==
  LET d == [t \in Live |-> DecideMempool(rec[t], t, s, TipOr0)]
  IN /\ rec' = [t \in Tracked |-> IF t \in Live THEN d[t].rec ELSE None]
     /\ told' = [t \in Tracked |->
                   IF t \in Live THEN Hear(told[t], d[t].events) ELSE told[t]]
     /\ quiet' = [t \in Tracked |-> IF s[t] = None THEN quiet[t] ELSE 0]
     /\ UNCHANGED <<node, caps, lastCaps, tip, ring, waiting, polls, records>>

-----------------------------------------------------------------------------
\* runReceiptPollFallback, runMinedProbe and runStatusPoll after dispatch.

\* The node answers from its chain: t is mined, or null is the answer and the
\* poll is over, or, to the status poll alone, t is pending.
AnswerPoll(p) ==
  /\ p.found = "asked"
  /\ \/ /\ OnChain(p.tx, head)
        /\ polls' = (polls \ {p})
             \cup {[p EXCEPT !.found = "mined", !.block = InclusionOf(p.tx, head)]}
     \/ /\ ~OnChain(p.tx, head) /\ p.kind = "status"
        /\ polls' = (polls \ {p}) \cup {[p EXCEPT !.found = "pending"]}
     \/ /\ ~OnChain(p.tx, head)
        /\ polls' = polls \ {p}
  /\ UNCHANGED <<node, caps, tracker, waiting, records, told, quiet>>

PollFails(p) ==
  /\ PollsFail /\ p.found = "asked"
  /\ polls' = polls \ {p}
  /\ UNCHANGED <<node, caps, tracker, waiting, records, told, quiet>>

\* The record the poll was sent for is still the tracked one.
Present(p) == rec[p.tx] # None /\ rec[p.tx].id = p.id

\* Mutant: the answer is told to whoever listens, record or not.
ResumePhantom(p) ==
  /\ p.found = "mined"
  /\ polls' = polls \ {p}
  /\ told' = [told EXCEPT ![p.tx] = Hear(@, {SeenInBlock(p.block, 1)})]
  /\ UNCHANGED <<node, caps, tracker, waiting, records, quiet>>

ResumePoll(p) ==
  LET d == IF p.found = "pending" THEN PolledPending(rec[p.tx], p.tip)
           ELSE PolledMined(rec[p.tx], p.kind, p.block, p.tip)
  IN /\ p.found # "asked"
     /\ polls' = polls \ {p}
     /\ IF Present(p)
        THEN /\ rec' = [rec EXCEPT ![p.tx] = d.rec]
             /\ told' = [told EXCEPT ![p.tx] = Hear(@, d.events)]
             /\ quiet' = [quiet EXCEPT ![p.tx] = 0]
        ELSE UNCHANGED <<rec, told, quiet>>
     /\ UNCHANGED <<node, caps, lastCaps, tip, ring, waiting, records>>

-----------------------------------------------------------------------------
Next ==
  \/ AdoptHead \/ SourceRestarts \/ CapsChange
  \/ \E t \in Tracked, n \in Thresholds : Subscribe(t, n)
  \/ \E t \in Tracked : Release(t)
  \/ \E b \in past : OnBlock(b)
  \/ \E task \in waiting : ResumeBlock(task)
  \/ \E s \in Pools : OnMempool(s)
  \/ \E p \in polls : AnswerPoll(p) \/ PollFails(p) \/ ResumePoll(p)

Spec == Init /\ [][Next]_vars

-----------------------------------------------------------------------------
Opt(S) == S \cup {None}

Records ==
  [id : 1..MaxRecords, threshold : Thresholds, at : Opt(Chains), conf : Nat,
   first : Int, last : Int, terminal : Int, streak : Nat,
   bucket : Opt(Buckets), inPool : BOOLEAN, replaced : Opt(Txs), known : BOOLEAN,
   pollSaid : Opt({"pending", "mined"}), ticks : [PollKinds -> Nat]]

ASSUME NoneIsNoRecord == None \notin Records

Polls ==
  [kind : PollKinds, tx : Tracked, id : 1..MaxRecords, tip : Nat,
   found : {"asked", "pending"}, block : {None}]
  \cup
  [kind : PollKinds, tx : Tracked, id : 1..MaxRecords, tip : Nat,
   found : {"mined"}, block : Chains]

\* A vanished event is recognisable by the blocks it names.
Notices ==
  [at : Opt(Chains), conf : Nat, bucket : Opt(Buckets), inPool : BOOLEAN,
   ended : BOOLEAN, confirmed : Nat, unseen : BOOLEAN,
   vanished : Opt([kind : {"vanished-from-block"}, old : Chains, new : Chains]),
   lost : Opt({"degraded", "recovered"}), stopped : BOOLEAN]

\* The variables' types.
TypeOK ==
  /\ head \in Chains /\ past \subseteq Chains /\ handed \in Opt(Chains)
  /\ count \in [adopts : Nat, handOuts : Nat, restarts : Nat]
  /\ caps \in Ranks /\ lastCaps \in Ranks
  /\ tip \in Opt(Chains) /\ ring \subseteq Chains
  /\ rec \in [Tracked -> Opt(Records)]
  /\ waiting \subseteq [block : Chains, hadTip : BOOLEAN]
  /\ polls \subseteq Polls
  /\ records \in [Tracked -> 0..MaxRecords]
  /\ told \in [Tracked -> Notices]
  /\ quiet \in [Tracked -> Nat]

\* getTxStatus and the event stream tell one story: a subscriber that folds
\* the events of a record knows its inclusion, its confirmations and its bucket,
\* whatever path (block, snapshot, poll, reorg) found them and in whatever order
\* the answers came; and a left-mempool always follows a seen-in-mempool.
ViewsAgree ==
  \A t \in Live :
    /\ told[t].at = rec[t].at /\ told[t].conf = rec[t].conf
    /\ told[t].bucket = rec[t].bucket
    /\ rec[t].inPool => told[t].inPool

\* A record is subject to retention exactly when its subscriber has been told
\* of a terminal state: nothing is evicted silently, nothing terminal leaks.
TerminalTold ==
  \A t \in Live : rec[t].terminal # Never <=> told[t].ended

\* confirmed-terminal fires at most once in a record's life.
ConfirmedOnce == \A t \in Live : told[t].confirmed <= 1

\* The block a record counts as its inclusion is the ring's one block of that
\* number, unless it lies deeper than the reorg depth: a block that displaced
\* it has cost the record its inclusion.
SeenInRing ==
  \A t \in Live : rec[t].at # None =>
    \/ {x \in ring : Number(x) = Number(rec[t].at)} = {rec[t].at}
    \/ \E x \in ring : Number(rec[t].at) + ReorgDepth <= Number(x)

\* No streak reaches its threshold without unseen-for-N-blocks.
ThresholdFires ==
  \A t \in Live : rec[t].streak >= rec[t].threshold => told[t].unseen

\* The count of confirmations never exceeds the depth of the inclusion below
\* the tip the tracker knows, the inclusion's own block counted.
ConfirmationsHonest ==
  \A t \in Live : rec[t].at # None =>
    tip # None /\ rec[t].conf + Number(rec[t].at) <= Number(tip) + 1

\* The inclusion a subscriber was told of lies on the chain of the tip, down to
\* the reorg depth.
InclusionOnChain ==
  \A t \in Live :
    rec[t].at # None /\ tip # None /\ Number(rec[t].at) + ReorgDepth > Number(tip)
      => IsAncestor(rec[t].at, tip)

\* An onBlock that awaited receipts still reports every tracked transaction of
\* its block when it resumes, whatever arrived in the meantime.
InclusionReported ==
  [][\A task \in waiting \ waiting', t \in Live :
       t \in Transactions(task.block) /\ rec'[t] # None => rec'[t].at # None]_vars

\* The terminal anchor never moves: retention counts from the first terminal
\* observation, whatever happens to the transaction later.
TerminalAnchored ==
  [][\A t \in Live :
       rec'[t] # None /\ rec'[t].id = rec[t].id /\ rec[t].terminal # Never
         => rec'[t].terminal = rec[t].terminal]_vars

\* Nothing follows `stopped`: an answer that comes for a record that is gone
\* reaches neither its subscriber nor the subscriber of a later record.
StoppedIsFinal ==
  [][\A t \in Tracked :
       told[t].stopped /\ told'[t] # told[t] => records'[t] > records[t]]_vars

\* A vanished-from-block names as previousBlockHash the block the subscriber was
\* told the transaction is in.
VanishedNamesSeen ==
  [][\A t \in Tracked :
       told'[t].vanished \notin {None, told[t].vanished}
         => told'[t].vanished.old = told[t].at]_vars

\* A vanished-from-block means the canonical block of that number does not hold
\* the transaction.
VanishedIsGone ==
  \A t \in Tracked :
    told[t].vanished # None => t \notin Transactions(told[t].vanished.new)

\* unseen-for-N-blocks fires only after N blocks without a sight of the
\* transaction by any path.
UnseenHonest ==
  [][\A t \in Live :
       told'[t].unseen /\ ~told[t].unseen => quiet'[t] >= rec[t].threshold]_vars

\* A capability is reported recovered only after it was reported degraded.
RecoveredAfterDegraded ==
  [][\A t \in Live :
       told'[t].lost = "recovered" => told[t].lost # None]_vars

\* The first block a tracker sees evicts nothing: no retention window can have
\* passed before it.
FirstBlockKeeps ==
  [][\A t \in Live :
       handed' # handed /\ rec'[t] = None => tip # None]_vars
================================================================================
