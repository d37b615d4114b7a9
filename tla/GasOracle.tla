------------------------------- MODULE GasOracle -------------------------------
(***************************************************************************)
(* The closure of createGasOracle, packages/gas-oracle/src/oracle.ts: when *)
(* the oracle listens to its chain source, and how the blocks it is handed *)
(* become the published state.                                             *)
(*                                                                         *)
(* A handleBlock or pollOnce call in flight is a task in a slot.  Each     *)
(* fetch of bridgeGap is one step: its answer depends on the node alone    *)
(* and the code up to the next await only touches the task.  What bridgeGap*)
(* read of the ring is part of the task, and the ring it is merged into is *)
(* the one there is when the task publishes.                               *)
(*                                                                         *)
(* Left out: the fees themselves (feeHistory, tiers, blobs) and the        *)
(* mempool snapshots that flow into them; no RPC of theirs keeps a block   *)
(* from being published.                                                   *)
(***************************************************************************)
EXTENDS GasRing, FiniteSets, SequencesExt

CONSTANTS
  Forks,          \* tells apart blocks of one parent
  Chains,         \* the blocks there may be
  Consumers,      \* callbacks a consumer may subscribe
  Options,        \* the options an oracle may be created with
  Window,         \* ringWindowBlocks
  FetchFails,     \* getBlock and getBlockByHash may answer null
  Slots,          \* places for handleBlock and pollOnce calls in flight
  MaxAdopts,      \* bound: heads the node adopts
  MaxHandOuts,    \* bound: blocks handed out by the source
  MaxStarts,      \* bound: calls of start()
  MaxPolls,       \* bound: calls of pollOnce()
  None            \* null

OptionSet ==
  [pauseWhenIdle : BOOLEAN, pauseWhenHidden : BOOLEAN,
   lingers : BOOLEAN,      \* staleAfter > 0
   ownsSource : BOOLEAN]

ASSUME ConstantsAssumption ==
  /\ Options \subseteq OptionSet
  /\ FetchFails \in BOOLEAN
  /\ {Window, MaxAdopts, MaxHandOuts, MaxStarts, MaxPolls} \subseteq Nat
  /\ Chains \subseteq Seq(Forks) \ {<<>>} /\ None \notin Chains
  /\ \A b \in Chains : \A n \in 1..Number(b) : Ancestor(b, n) \in Chains

VARIABLES
  options,      \* the options, set for good
  head,         \* node: the block it takes for the head
  handed,       \* source: the block it handed out last, None after its stop()
  count,        \* how many adoptions, hand-outs, starts and polls there were
  hidden,       \* document.hidden
  started,      \* `started`
  listening,    \* `visibilityListener` is set
  subscribers,  \* `subscribers`
  handles,      \* consumers that hold an unsubscribe function
  attached,     \* `unsubBlocks` and `unsubMempool` are set
  staleTimer,   \* `staleTimer` is armed
  task,         \* handleBlock and pollOnce calls in flight
  state         \* `state`

node    == <<head, handed, count>>
idling  == <<hidden, started, listening, subscribers, handles, attached, staleTimer>>
vars == <<options, node, idling, task, state>>

-----------------------------------------------------------------------------
Idle == [at |-> "idle", block |-> None, seen |-> {}, tip |-> None, missing |-> <<>>]
Task(a, b, seen, t, missing) ==
  [at |-> a, block |-> b, seen |-> seen, tip |-> t, missing |-> missing]
Ready(b, missing) == Task("ready", b, {}, None, missing)
Latest == Task("latest", None, {}, None, <<>>)

IdleSlots == {s \in Slots : task[s] = Idle}

Bumped(k) == count' = [count EXCEPT ![k] = @ + 1]

Init ==
  /\ options \in Options
  /\ head \in {b \in Chains : \A c \in Chains : Number(b) <= Number(c)}
  /\ handed = None
  /\ count = [adopts |-> 0, handOuts |-> 0, starts |-> 0, polls |-> 0]
  /\ hidden \in BOOLEAN
  /\ started = FALSE /\ listening = FALSE
  /\ subscribers = {} /\ handles = {}
  /\ attached = FALSE /\ staleTimer = FALSE
  /\ task = [s \in Slots |-> Idle]
  /\ state = None

-----------------------------------------------------------------------------
\* Whether to listen.

Showing(h) == options.pauseWhenHidden => ~h
Reason(subs) == options.pauseWhenIdle => subs # {}

\* attachToSource: nothing clears the stale timer here.
Attach == attached' = TRUE /\ UNCHANGED <<staleTimer, handed>>

\* detachFromSource: an oracle that owns its source stops it.
Detach ==
  /\ attached' = FALSE /\ staleTimer' = FALSE
  /\ handed' = IF options.ownsSource THEN None ELSE handed

Stay == UNCHANGED <<attached, staleTimer, handed>>

\* scheduleIdleDetach.
ScheduleIdleDetach ==
  IF options.lingers THEN staleTimer' = TRUE /\ UNCHANGED <<attached, handed>>
  ELSE Detach

\* Mutant: start() does not look at the tab.
StartBlind ==
  /\ ~started /\ count.starts < MaxStarts
  /\ Bumped("starts")
  /\ started' = TRUE
  /\ listening' = options.pauseWhenHidden
  /\ IF Reason(subscribers) THEN Attach ELSE Stay
  /\ UNCHANGED <<options, head, hidden, subscribers, handles, task, state>>

\* start(): a call while started returns at once.
Start ==
  /\ ~started /\ count.starts < MaxStarts
  /\ Bumped("starts")
  /\ started' = TRUE
  /\ listening' = options.pauseWhenHidden
  /\ IF Showing(hidden) /\ Reason(subscribers) THEN Attach ELSE Stay
  /\ UNCHANGED <<options, head, hidden, subscribers, handles, task, state>>

\* stop(): also runs its whole body when the oracle is stopped already; calls in
\* flight are not cancelled.
Stop ==
  /\ Detach
  /\ listening' = FALSE
  /\ state' = None
  /\ started' = FALSE
  /\ UNCHANGED <<options, head, count, hidden, subscribers, handles, task>>

\* Mutant: no unsubscribe function is returned.
SubscribeForGood(c) ==
  /\ subscribers' = subscribers \cup {c}
  /\ IF started /\ options.pauseWhenIdle /\ Cardinality(subscribers') = 1 /\ Showing(hidden)
     THEN Attach ELSE Stay
  /\ UNCHANGED <<options, head, count, hidden, started, listening, handles, task, state>>

\* subscribe(): the first subscriber of a started oracle attaches it.
Subscribe(c) ==
  /\ subscribers' = subscribers \cup {c}
  /\ handles' = handles \cup {c}
  /\ IF started /\ options.pauseWhenIdle /\ Cardinality(subscribers') = 1 /\ Showing(hidden)
     THEN Attach ELSE Stay
  /\ UNCHANGED <<options, head, count, hidden, started, listening, task, state>>

\* Mutant: any subscriber that leaves takes the feed along.
UnsubscribeAny(c) ==
  /\ c \in handles
  /\ subscribers' = subscribers \ {c}
  /\ IF started /\ options.pauseWhenIdle THEN ScheduleIdleDetach ELSE Stay
  /\ UNCHANGED <<options, head, count, hidden, started, listening, handles, task, state>>

\* An unsubscribe function may be called again.
Unsubscribe(c) ==
  /\ c \in handles
  /\ subscribers' = subscribers \ {c}
  /\ IF started /\ options.pauseWhenIdle /\ subscribers' = {}
     THEN ScheduleIdleDetach ELSE Stay
  /\ UNCHANGED <<options, head, count, hidden, started, listening, handles, task, state>>

StaleTimerFires ==
  /\ staleTimer
  /\ Detach
  /\ UNCHANGED <<options, head, count, hidden, started, listening, subscribers,
                 handles, task, state>>

\* visibilitychange.
VisibilityChange ==
  /\ hidden' = ~hidden
  /\ IF ~listening THEN Stay
     ELSE IF hidden' THEN Detach
     ELSE IF Reason(subscribers) THEN Attach
     ELSE Stay
  /\ UNCHANGED <<options, head, count, started, listening, subscribers, handles,
                 task, state>>

-----------------------------------------------------------------------------
\* bridgeGap.

\* The first half: what it reads before its first await.
Bridge(b) ==
  LET seen == Range(state.ring)
      tip  == Last(state.ring)
  IN IF state = None THEN Ready(b, <<>>)
     ELSE IF Parent(b) \in seen THEN Ready(b, <<>>)
     ELSE IF /\ Number(b) > Number(tip) + 1
             /\ Window = 0 \/ Number(b) - Number(tip) <= Window
          THEN Task("byNumber", b, seen, tip, <<>>)
     ELSE Task("byHash", b, seen, None, <<>>)

Answers(b) == {b} \cup (IF FetchFails THEN {None} ELSE {})

\* A block between the ring and the new block is fetched by number; the list is
\* used only when it is complete and joins the two.
FetchByNumber(s) ==
  LET tk == task[s]
      n  == Number(tk.tip) + Len(tk.missing) + 1
  IN /\ tk.at = "byNumber"
     /\ \E x \in IF n <= Number(head) THEN Answers(Ancestor(head, n)) ELSE {None} :
          LET missing == IF x = None THEN tk.missing ELSE Append(tk.missing, x)
              joined  == /\ n + 1 = Number(tk.block) /\ x = Parent(tk.block)
                         /\ Parent(missing[1]) \in tk.seen
          IN task' = [task EXCEPT ![s] =
               IF x # None /\ joined THEN Ready(tk.block, missing)
               ELSE IF x = None \/ n + 1 = Number(tk.block)
               THEN Task("byHash", tk.block, tk.seen, None, <<>>)
               ELSE [tk EXCEPT !.missing = missing]]
     /\ UNCHANGED <<options, node, idling, state>>

\* The walk back from the new block's parent to a block of the ring.
FetchByHash(s) ==
  LET tk     == task[s]
      cursor == Parent(IF tk.missing = <<>> THEN tk.block ELSE tk.missing[1])
  IN /\ tk.at = "byHash"
     /\ \E x \in IF cursor = <<>> THEN {None} ELSE Answers(cursor) :
          LET missing == IF x = None THEN tk.missing ELSE <<x>> \o tk.missing
          IN task' = [task EXCEPT ![s] =
               IF x = None \/ Parent(x) \in tk.seen \/ Len(missing) = Window
               THEN Ready(tk.block, missing)
               ELSE [tk EXCEPT !.missing = missing]]
     /\ UNCHANGED <<options, node, idling, state>>

-----------------------------------------------------------------------------
\* Blocks.

AdoptHead ==
  /\ count.adopts < MaxAdopts
  /\ Bumped("adopts")
  /\ \E b \in Chains \ {head} : Number(b) >= Number(head) /\ head' = b
  /\ UNCHANGED <<options, handed, idling, task, state>>

\* The source hands out the head: to the oracle that listens, or, when it is
\* shared, to the others.
HandleBlock ==
  /\ head # handed /\ count.handOuts < MaxHandOuts
  /\ Bumped("handOuts")
  /\ handed' = head
  /\ IF attached
     THEN \E s \in IdleSlots : task' = [task EXCEPT ![s] = Bridge(head)]
     ELSE ~options.ownsSource /\ UNCHANGED task
  /\ UNCHANGED <<options, head, idling, state>>

PollOnce ==
  /\ count.polls < MaxPolls
  /\ Bumped("polls")
  /\ \E s \in IdleSlots : task' = [task EXCEPT ![s] = Latest]
  /\ UNCHANGED <<options, head, handed, idling, state>>

\* pollOnce goes on with the latest block, or returns null without one.
PollAnswered(s) ==
  /\ task[s].at = "latest"
  /\ \E x \in Answers(head) :
       task' = [task EXCEPT ![s] = IF x = None THEN Idle ELSE Bridge(x)]
  /\ UNCHANGED <<options, node, idling, state>>

Reorg(b, dropped) == [number |-> Number(b), newTip |-> b, dropped |-> dropped]

\* One round of reducePollInputs' loop.
Incorporated(acc, b) ==
  LET mutation == IncorporateBlock(acc.ring, b, Window)
  IN [ring |-> mutation.ring,
      lastReorg |-> IF mutation.dropped = <<>> THEN acc.lastReorg
                    ELSE Reorg(b, mutation.dropped)]

\* reducePollInputs' loop over the bridged blocks and the new one.
Merged(was, blocks) ==
  LET acc[i \in 0..Len(blocks)] ==
        IF i = 0 THEN was ELSE Incorporated(acc[i - 1], blocks[i])
  IN acc[Len(blocks)]

Branch(tk) == Append(tk.missing, tk.block)

\* reduceAndPublish: they go into the ring of the state there is now.
ReduceAndPublish(s) ==
  LET tk  == task[s]
      was == IF state = None THEN [ring |-> <<>>, lastReorg |-> None]
             ELSE [ring |-> state.ring, lastReorg |-> state.lastReorg]
      is  == Merged(was, Branch(tk))
  IN /\ tk.at = "ready"
     /\ state' = [block |-> tk.block, ring |-> is.ring, lastReorg |-> is.lastReorg]
     /\ task' = [task EXCEPT ![s] = Idle]
     /\ UNCHANGED <<options, node, idling>>

-----------------------------------------------------------------------------
Next ==
  \/ AdoptHead \/ HandleBlock
  \/ Start \/ Stop \/ PollOnce
  \/ \E c \in Consumers : Subscribe(c) \/ Unsubscribe(c)
  \/ StaleTimerFires \/ VisibilityChange
  \/ \E s \in Slots :
       FetchByNumber(s) \/ FetchByHash(s) \/ PollAnswered(s) \/ ReduceAndPublish(s)

Spec == Init /\ [][Next]_vars

-----------------------------------------------------------------------------
(* Properties *)

Opt(S) == S \cup {None}

Wanted == started /\ Showing(hidden) /\ Reason(subscribers)

Tasks ==
  {Idle, Latest} \cup
  [at : {"byNumber"}, block : Chains, seen : SUBSET Chains, tip : Chains,
   missing : Seq(Chains)] \cup
  [at : {"byHash"}, block : Chains, seen : SUBSET Chains, tip : {None},
   missing : Seq(Chains)] \cup
  [at : {"ready"}, block : Chains, seen : {{}}, tip : {None}, missing : Seq(Chains)]

Reorgs == [number : Nat, newTip : Chains, dropped : Seq(Chains)]
States == [block : Chains, ring : Seq(Chains), lastReorg : Opt(Reorgs)]

\* The variables' types.
TypeOK ==
  /\ options \in Options
  /\ head \in Chains /\ handed \in Opt(Chains)
  /\ count \in [{"adopts", "handOuts", "starts", "polls"} -> Nat]
  /\ hidden \in BOOLEAN /\ started \in BOOLEAN /\ listening \in BOOLEAN
  /\ attached \in BOOLEAN /\ staleTimer \in BOOLEAN
  /\ subscribers \subseteq handles /\ handles \subseteq Consumers
  /\ task \in [Slots -> Tasks]
  /\ state \in Opt(States)

\* An oracle that stops listening at once listens whenever it is started, its
\* tab shows and somebody subscribes (or it does not care), in whatever order
\* start, stop, subscribe, unsubscribe and visibilitychange came.
ListensWhenWanted == ~options.lingers /\ Wanted => attached

\* No RPC traffic without a reason: it listens only while started, never in a
\* hidden tab it was told to heed, and without subscribers only until the stale
\* timer fires.
QuietWhenUnwanted ==
  attached => started /\ Showing(hidden) /\ (Reason(subscribers) \/ staleTimer)

\* The published ring has no gap, keeps to its window, and holds the block the
\* state is about, whatever the fetches of the bridge answered and however the
\* calls in flight overlap.
RingWhole ==
  state # None =>
    /\ Dense(state.ring)
    /\ Window > 0 => Len(state.ring) <= Window
    /\ \E i \in 1..Len(state.ring) : state.ring[i] = state.block

\* A reorg event never reports an ancestor of its new tip as dropped.
ReorgReal ==
  state # None /\ state.lastReorg # None =>
    \A i \in 1..Len(state.lastReorg.dropped) :
      ~IsAncestor(state.lastReorg.dropped[i], state.lastReorg.newTip)

\* A re-subscribe within staleAfter keeps the loop alive, stale timer or not.
RemountKeepsLoop == Wanted => attached

\* stop() clears the state for good: nothing but pollOnce() brings it back.
StopClears == ~started /\ count.polls = 0 => state = None

\* A bridge that is one chain from a block of the ring to the new block keeps the
\* ring one chain, even when other calls have published since it was built.
BridgeJoins ==
  [][\A s \in Slots :
       /\ task[s].at = "ready" /\ task'[s] = Idle
       /\ state # None /\ Linked(state.ring)
       /\ Linked(Branch(task[s])) /\ Parent(Branch(task[s])[1]) \in Range(state.ring)
       => Linked(state'.ring)]_vars

\* The blocks of a bridge and the new one are one chain: "we verify the
\* connection before returning".
BridgeConnected == \A s \in Slots : task[s].at = "ready" => Linked(Branch(task[s]))

\* Neighbours of the ring are parent and child.
RingLinked == state # None => Linked(state.ring)

\* A publication that drops blocks of the ring carries the number of the reorg
\* event in its blockNumber.
ReorgVisible ==
  [][state # None /\ state' # None /\ state'.lastReorg # state.lastReorg
       => state'.lastReorg.number = Number(state'.block)]_vars

\* The published block never goes back to an ancestor.
NeverOlder ==
  [][state # None /\ state' # None /\ state'.block # state.block
       => ~IsAncestor(state'.block, state.block)]_vars
================================================================================
