------------------------------ MODULE TxConsumers ------------------------------
(***************************************************************************)
(* What sits on a tracker and waits for an outcome: a transaction group    *)
(* (packages/tx-tracker/src/group.ts) over a tracker it shares, and the    *)
(* helpers that own theirs, waitForTransaction, watchTransaction and       *)
(* waitForPending.  The module is TxObserver with one such consumer: every *)
(* action is an action of the tracker together with what the consumer      *)
(* makes of the events it tells.                                           *)
(*                                                                         *)
(* The first outcome is the last: a helper then stops its tracker and its  *)
(* source, a group no longer listens.  So the system stops there; what a   *)
(* tracker that goes on does is TxObserver.                                *)
(* Nor is the source restarted, a capability changed or a poll lost before *)
(* the outcome.                                                            *)
(***************************************************************************)
EXTENDS TxObserver

CONSTANTS
  Uses,          \* the consumers there may be
  Shared,        \* hashes of which another consumer may hold the record
  Needed,        \* confirmations the helpers ask for
  TimeoutBlocks, \* waitForPending's timeoutBlocks
  Reverts        \* transactions that fail when they are included

ASSUME ConsumersAssumption ==
  /\ Uses \subseteq {"group", "wait", "watch", "pending"}
  /\ Shared \subseteq Tracked /\ Needed \in Nat \ {0} /\ TimeoutBlocks \in Nat \ {0}
  /\ Reverts \subseteq Txs

VARIABLES
  use,      \* which consumer there is, None before
  members,  \* the hashes it asked for
  counted,  \* group: `confirmedSet`
  observed, \* waitForPending: `observedBlocks`
  outcome   \* "open", or what the consumer was told at the end

consumer == <<use, members, counted, observed, outcome>>
all == <<vars, consumer>>

ConsumerInit ==
  Init /\ use = None /\ members = {} /\ counted = {} /\ observed = 0
       /\ outcome = "open"

-----------------------------------------------------------------------------
\* createTxGroup, or the helper's tracker and its one subscription.  A helper's
\* tracker is new, and the helper subscribes before a block can come.  Several
\* subscriptions on one record keep the lowest threshold.
Begin(u, M, n) ==
  /\ use = None /\ M # {} /\ (u = "group" => M = Tracked)
  /\ u # "group" => Cardinality(M) = 1 /\ handed = None /\ Live = {}
  /\ u \in {"watch", "pending"} => M \cap WithReceipts = {}
  /\ use' = u /\ members' = M
  /\ rec' = [t \in Tracked |->
       IF t \notin M THEN rec[t]
       ELSE IF rec[t] = None THEN NewRecord(records[t] + 1, n)
       ELSE IF n < rec[t].threshold THEN [rec[t] EXCEPT !.threshold = n] ELSE rec[t]]
  /\ records' = [t \in Tracked |->
       IF t \in M /\ rec[t] = None THEN records[t] + 1 ELSE records[t]]
  /\ told' = [t \in Tracked |->
       IF t \in M /\ rec[t] = None THEN NothingTold ELSE told[t]]
  /\ \A t \in M : records'[t] <= MaxRecords
  /\ UNCHANGED <<node, caps, lastCaps, tip, ring, waiting, polls, quiet,
                 counted, observed, outcome>>

\* Another consumer of the shared tracker subscribes first.
SubscribeOther(t, n) ==
  t \in Shared /\ use = None /\ rec[t] = None /\ Subscribe(t, n) /\ UNCHANGED consumer

-----------------------------------------------------------------------------
\* What the consumer makes of the events of one callback, e[t] those of t.

Tells(e, t, kind) == t \in DOMAIN e /\ Fired(e[t], kind)

\* Included often enough.
Reaches(e, t, n) ==
  t \in DOMAIN e /\ \E x \in e[t] : x.kind = "seen-in-block" /\ x.conf >= n

\* Members told included, whatever the count of confirmations.
Inclusion(e) == {t \in members : Reaches(e, t, 1)}

\* handleMemberEvent, over the members in the order the tracker goes through
\* them: a member that is dropped or replaced fails the group, unless the
\* members before it completed it.
GroupHears(e) ==
  LET got == counted \cup Inclusion(e)
      bad(kind) == \E t \in members : Tells(e, t, kind)
  IN /\ counted' = got
     /\ \/ got = members /\ outcome' = "complete"
        \/ bad("unseen-for-N-blocks") /\ outcome' = "dropped"
        \/ bad("replaced-by") /\ outcome' = "replaced"
        \/ /\ got # members /\ ~bad("unseen-for-N-blocks") /\ ~bad("replaced-by")
           /\ outcome' = outcome

\* The receipt comes with the block a withReceipts subscription awaited, and
\* only there; the request may have failed.
Failed(e, t, receipts) ==
  receipts /\ t \in WithReceipts \cap Reverts /\ \E x \in e[t] :
    x.kind = "seen-in-block" /\ x.conf = 1

\* waitForTransaction.
WaitHears(e, receipts) ==
  \E t \in members :
    outcome' \in IF Reaches(e, t, Needed)
                 THEN {"mined"} \cup (IF Failed(e, t, receipts) THEN {"failed"} ELSE {})
                 ELSE IF Tells(e, t, "unseen-for-N-blocks") THEN {"dropped"}
                 ELSE IF Tells(e, t, "replaced-by") THEN {"replaced"}
                 ELSE {outcome}

\* watchTransaction: replaced-by is neither mined nor dropped.
WatchHears(e) ==
  \E t \in members :
    outcome' = IF Reaches(e, t, Needed) THEN "mined"
               ELSE IF Tells(e, t, "unseen-for-N-blocks") THEN "dropped"
               ELSE outcome

\* waitForPending counts the blocks after the tracker has seen them.
PendingHears(e, block) ==
  \E t \in members :
    /\ observed' = IF block /\ ~Tells(e, t, "seen-in-mempool")
                   THEN observed + 1 ELSE observed
    /\ outcome' = IF Tells(e, t, "seen-in-mempool") THEN "pending"
                  ELSE IF block /\ observed' >= TimeoutBlocks THEN "timeout"
                  ELSE outcome

\* `block`: a block was handed out; `receipts`: onBlock has awaited receipts.
Hears(e, block, receipts) ==
  /\ outcome = "open"
  /\ UNCHANGED <<use, members>>
  /\ \/ use = None /\ UNCHANGED <<counted, observed, outcome>>
     \/ use = "group" /\ GroupHears(e) /\ UNCHANGED observed
     \/ use = "wait" /\ WaitHears(e, receipts) /\ UNCHANGED <<counted, observed>>
     \/ use = "watch" /\ WatchHears(e) /\ UNCHANGED <<counted, observed>>
     \/ use = "pending" /\ PendingHears(e, block) /\ UNCHANGED counted

Silence == [t \in {} |-> {}]

-----------------------------------------------------------------------------
\* The tracker's steps, heard.

NodeMoves == AdoptHead /\ Hears(Silence, FALSE, FALSE)

HandOut(b) ==
  /\ OnBlock(b)
  /\ Hears(IF waiting' # waiting THEN Silence
           ELSE [t \in Live |->
                   ObserveBlock(Reorged(rec[t], b).rec, t, b, tip # None).events],
           TRUE, FALSE)

Resume(task) ==
  /\ ResumeBlock(task)
  /\ Hears([t \in Live |-> ObserveBlock(rec[t], t, task.block, task.hadTip).events],
           FALSE, TRUE)

Pool(s) ==
  /\ OnMempool(s)
  /\ Hears([t \in Live |-> DecideMempool(rec[t], t, s, TipOr0).events], FALSE, FALSE)

Answer(p) == AnswerPoll(p) /\ Hears(Silence, FALSE, FALSE)

PollHeard(p) ==
  /\ ResumePoll(p)
  /\ Hears(IF ~Present(p) THEN Silence
           ELSE [t \in {p.tx} |->
                   IF p.found = "pending" THEN PolledPending(rec[t], p.tip).events
                   ELSE PolledMined(rec[t], p.kind, p.block, p.tip).events],
           FALSE, FALSE)

\* A consumer gives up: stop() of a group, the handle of watchTransaction.
StopConsumer ==
  /\ use \in {"group", "watch"} /\ outcome = "open" /\ outcome' = "stopped"
  /\ rec' = [t \in Tracked |-> IF t \in members THEN None ELSE rec[t]]
  /\ told' = [t \in Tracked |-> IF t \in members THEN Stopped ELSE told[t]]
  /\ UNCHANGED <<node, caps, lastCaps, tip, ring, waiting, polls, records, quiet,
                 use, members, counted, observed>>

ConsumerNext ==
  \/ \E u \in Uses, M \in SUBSET Tracked, n \in Thresholds : Begin(u, M, n)
  \/ \E t \in Tracked, n \in Thresholds : SubscribeOther(t, n)
  \/ NodeMoves \/ StopConsumer
  \/ \E b \in past : HandOut(b)
  \/ \E task \in waiting : Resume(task)
  \/ \E s \in Pools : Pool(s)
  \/ \E p \in polls : Answer(p) \/ PollHeard(p)

ConsumerSpec == ConsumerInit /\ [][ConsumerNext]_all

\* The feed goes on with the head, receipts come and polls are answered.
FairSpec ==
  /\ ConsumerSpec
  /\ WF_all(HandOut(head))
  /\ WF_all(\/ \E task \in waiting : Resume(task)
            \/ \E p \in polls : Answer(p) \/ PollHeard(p))

-----------------------------------------------------------------------------
\* A group, waitForTransaction and watchTransaction end when everything they
\* wait for is on the node's chain and stays there, whether they were told of
\* it by a block, by a poll, or joined after it was included: then the block above it
\* says so.
Settles ==
  ([](use \in {"group", "wait", "watch"} /\ members \subseteq Live
        /\ \A t \in members : OnChain(t, head))
      /\ handed # head
      /\ \A t \in members \ counted :
           rec[t] # None /\ rec[t].at # None => Number(rec[t].at) < Number(head))
    ~> outcome # "open"

-----------------------------------------------------------------------------
\* What comments promise of the outcomes and the code does not keep.

\* group-complete: every member is included in the canonical chain and none has
\* been reorged.
CompleteIsIncluded ==
  [][outcome' = "complete" /\ outcome # "complete" =>
       \A t \in members : rec'[t] # None /\ rec'[t].at # None]_all

\* group-failed: the member that failed it is not included.
FailedIsLost ==
  [][outcome' \in {"dropped", "replaced"} /\ outcome = "open" /\ use = "group" =>
       \E t \in members : rec'[t] = None \/ rec'[t].at = None]_all

\* With withReceipts, a transaction that reverted resolves as failed.
RevertsFail ==
  use = "wait" /\ outcome = "mined" => members \cap WithReceipts \cap Reverts = {}

\* A watch whose record is gone has called onMined or onDropped.
WatchEnds ==
  use = "watch" /\ outcome = "open" => members \subseteq Live
================================================================================
