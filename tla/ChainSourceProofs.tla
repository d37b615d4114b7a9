--------------------------- MODULE ChainSourceProofs ---------------------------
(***************************************************************************)
(* Proofs about ChainSource, for every number of slots and timers, every   *)
(* chain of blocks and every bound.                                        *)
(***************************************************************************)
EXTENDS ChainSource, FiniteSetTheorems, TLAPS

LEMMA SeqMonotone ==
  ASSUME NEW S, NEW T, S \subseteq T
  PROVE  Seq(S) \subseteq Seq(T)
  OBVIOUS

LEMMA BlockNum == \A b \in Blocks : b.num \in 1..MaxHeight
  BY DEF Blocks

LEMMA TipIsBlock == TypeOK => Tip \in Blocks
  BY DEF TypeOK, Tip

\* What a task may become is a task.
LEMMA TaskIsTask ==
  ASSUME NEW k \in {"idle", "chain", "tick", "push", "pending"},
         NEW a \in {"idle", "probing", "probed", "fetching", "fetched", "returned"},
         NEW n \in Nat, NEW p \in (SUBSET Txs) \cup {NoPool}
  PROVE  Task(k, a, n, p) \in Tasks
  BY DEF Task, Tasks

LEMMA IdleIsTask == Idle \in Tasks
  BY TaskIsTask DEF Idle

LEMMA AfterTickIsTask ==
  \A tk \in Tasks, mv \in BOOLEAN : AfterTick(tk, mv) \in Tasks
  BY IdleIsTask DEF AfterTick, Returned, Tasks

LEMMA PollingIsTask == \A k \in {"chain", "tick"} : Polling(k) \in Tasks
  BY TaskIsTask DEF Polling

LEMMA TaskFields ==
  \A tk \in Tasks :
    /\ tk.kind \in {"idle", "chain", "tick", "push", "pending"}
    /\ tk.ans \in Nat
    /\ tk.pool \in (SUBSET Txs) \cup {NoPool}
  BY DEF Tasks

\* TypeOK alone is not inductive: stop() decrements `live` on the strength of a
\* handle, and a resuming task looks its answer up in history.
TypeInv == TypeOK /\ HandleServed /\ AnswersKnown

LEMMA TypeInit == Init => TypeInv
<1> SUFFICES ASSUME Init PROVE TypeInv
  OBVIOUS
<1>1. ProbingDefault \in Capabilities
  BY DEF ProbingDefault, Capabilities, Subscribable
<1>2. history \in Seq(Blocks) /\ Len(history) > 0
  BY DEF Init
<1>3. task \in [Slots -> Tasks]
  BY IdleIsTask DEF Init
<1>4. /\ mempool \subseteq Txs
      /\ retryAttempts \in Nat /\ lastSeen \in 0..MaxHeight
      /\ starts \in Nat /\ polls \in Nat
  BY ConstantsAssumption DEF ConstantsAssumption, Init
<1>5. feed \in Seq(1..Len(history))
  BY DEF Init
<1>6. /\ waiting \in [Streams -> Nat] /\ opening \in [Streams -> Nat]
      /\ live \in [Streams -> Nat] /\ handle \in [Streams -> BOOLEAN]
      /\ HandleServed
  BY DEF Init, HandleServed
<1>7. /\ started \in BOOLEAN /\ ready \in BOOLEAN /\ current \in BOOLEAN
      /\ armed \subseteq TimerIds /\ timer \in TimerIds \cup {None}
      /\ lastEmitted \in Blocks \cup {None}
      /\ snapshot \in (SUBSET Txs) \cup {NoPool}
  BY DEF Init
<1>8. AnswersKnown
  BY DEF Init, AnswersKnown, Idle, Task
<1> QED
  BY <1>1, <1>2, <1>3, <1>4, <1>5, <1>6, <1>7, <1>8 DEF Init, TypeOK, TypeInv


\* One slot moves on to a task that knows its answer; the head stays.
LEMMA SlotMoves ==
  ASSUME TypeInv, NEW s \in Slots, NEW tk \in Tasks,
         task' = [task EXCEPT ![s] = tk], history' = history,
         tk.at = "fetched" => tk.ans \in 0..Len(history)
  PROVE  task' \in [Slots -> Tasks] /\ AnswersKnown'
  BY DEF TypeInv, TypeOK, AnswersKnown

LEMMA PollingSlot ==
  ASSUME TypeInv, NEW s \in Slots, NEW k \in {"chain", "tick"},
         task' = [task EXCEPT ![s] = Polling(k)], history' = history
  PROVE  task' \in [Slots -> Tasks] /\ AnswersKnown'
<1>1. Polling(k).at # "fetched"
  BY DEF Polling, Task
<1> QED
  BY <1>1, PollingIsTask, SlotMoves

LEMMA IdleSlot ==
  ASSUME TypeInv, NEW s \in Slots, task' = [task EXCEPT ![s] = Idle],
         history' = history
  PROVE  task' \in [Slots -> Tasks] /\ AnswersKnown'
<1>1. Idle.at # "fetched"
  BY DEF Idle, Task
<1> QED
  BY <1>1, IdleIsTask, SlotMoves

LEMMA AfterTickSlot ==
  ASSUME TypeInv, NEW s \in Slots, NEW mv \in BOOLEAN,
         task' = [task EXCEPT ![s] = AfterTick(task[s], mv)], history' = history
  PROVE  task' \in [Slots -> Tasks] /\ AnswersKnown'
<1>1. task[s] \in Tasks
  BY DEF TypeInv, TypeOK
<1>2. AfterTick(task[s], mv).at # "fetched"
  BY DEF AfterTick, Returned, Idle, Task
<1> QED
  BY <1>1, <1>2, AfterTickIsTask, SlotMoves

\* Handing out a block the node had.
LEMMA EmitTypes ==
  ASSUME TypeInv, NEW p \in 1..Len(history), EmitBlock(p)
  PROVE  /\ lastEmitted' \in Blocks
         /\ feed' \in Seq(1..Len(history))
         /\ current' \in BOOLEAN
  BY DEF TypeInv, TypeOK, EmitBlock

\* A task whose block came is back with a block of the node.
LEMMA FetchedBlock ==
  ASSUME TypeInv, NEW s \in Slots, task[s].at = "fetched", task[s].ans # 0
  PROVE  /\ task[s].ans \in 1..Len(history)
         /\ history[task[s].ans] \in Blocks
         /\ history[task[s].ans].num \in 1..MaxHeight
<1>1. task[s].ans \in 1..Len(history)
  BY DEF TypeInv, AnswersKnown, TypeOK
<1> QED
  BY <1>1, BlockNum DEF TypeInv, TypeOK

LEMMA TypeStep == TypeInv /\ [Next]_vars => TypeInv'
<1> SUFFICES ASSUME TypeInv, [Next]_vars PROVE TypeInv'
  OBVIOUS
<1>t. TypeOK /\ HandleServed /\ AnswersKnown
  BY DEF TypeInv
<1> USE DEF node, session, probe, scheduler, gate, sockets, output, TypeInv
<1>1. CASE AdoptHead
  <2>1. PICK b \in Blocks : history' = Append(history, b)
    BY <1>1 DEF AdoptHead
  <2>2. history' \in Seq(Blocks) /\ Len(history') = Len(history) + 1
    BY <1>t, <2>1 DEF TypeOK
  <2>3. 1..Len(history) \subseteq 1..Len(history')
    BY <1>t, <2>2 DEF TypeOK
  <2>4. feed' \in Seq(1..Len(history'))
    BY <1>t, <1>1, <2>3, SeqMonotone DEF AdoptHead, TypeOK
  <2>5. UNCHANGED <<mempool, session, probe, scheduler, task, gate, sockets, output>>
    BY <1>1 DEF AdoptHead
  <2>6. AnswersKnown'
    BY <1>t, <2>2, <2>5 DEF AnswersKnown, TypeOK
  <2> QED
    BY <1>t, <2>2, <2>4, <2>5, <2>6 DEF TypeOK, HandleServed
<1>2. CASE MempoolChanges
  BY <1>t, <1>2 DEF MempoolChanges, TypeOK, HandleServed, AnswersKnown
<1>3. CASE Start
  <2>1. task' \in [Slots -> Tasks] /\ AnswersKnown'
    BY <1>3, PollingSlot DEF Start, IdleSlots
  <2>2. waiting' \in [Streams -> Nat] /\ starts' \in Nat
    BY <1>t, <1>3 DEF Start, TypeOK
  <2>3. armed' \subseteq TimerIds /\ timer' \in TimerIds \cup {None}
    BY <1>t, <1>3 DEF Start, TypeOK
  <2>4. started' \in BOOLEAN /\ current' \in BOOLEAN
    BY <1>3 DEF Start
  <2>5. UNCHANGED <<node, options, polls, probe, retryAttempts, gate, opening, live, handle,
                    feed, snapshot>>
    BY <1>3 DEF Start
  <2> QED
    BY <1>t, <2>1, <2>2, <2>3, <2>4, <2>5 DEF TypeOK, HandleServed
<1>4. CASE Stop
  <2>1. live' \in [Streams -> Nat] /\ handle' \in [Streams -> BOOLEAN] /\ HandleServed'
    BY <1>t, <1>4 DEF Stop, CloseStreams, TypeOK, HandleServed
  <2>2. /\ armed' \subseteq TimerIds /\ timer' \in TimerIds \cup {None}
        /\ started' \in BOOLEAN /\ retryAttempts' \in Nat
        /\ lastEmitted' \in Blocks \cup {None}
    BY <1>t, <1>4 DEF Stop, ResetGate, TypeOK
  <2>3. feed' \in Seq(1..Len(history')) /\ lastSeen' \in 0..MaxHeight
    BY <1>4, ConstantsAssumption DEF Stop, ResetGate, ConstantsAssumption
  <2>4. UNCHANGED <<node, options, starts, polls, probe, task, waiting, opening, current, snapshot>>
    BY <1>4 DEF Stop
  <2> QED
    BY <1>t, <2>1, <2>2, <2>3, <2>4 DEF TypeOK, AnswersKnown
<1>5. CASE PollOnce
  <2>1. task' \in [Slots -> Tasks] /\ AnswersKnown'
    BY <1>5, PollingSlot DEF PollOnce, IdleSlots
  <2> QED
    BY <1>t, <1>5, <2>1 DEF PollOnce, TypeOK, HandleServed
<1>6. ASSUME NEW t \in TimerIds, TimerFires(t) PROVE TypeInv'
  <2>1. task' \in [Slots -> Tasks] /\ AnswersKnown'
    BY <1>6, PollingSlot DEF TimerFires, IdleSlots
  <2> QED
    BY <1>t, <1>6, <2>1 DEF TimerFires, TypeOK, HandleServed
<1>7. ASSUME NEW s \in Slots, ProbeAnswer(s) PROVE TypeInv'
  <2>1. Tip.num \in Nat
    BY <1>t, TipIsBlock, BlockNum
  <2>2. PICK n \in {0, Tip.num}, p \in (SUBSET Txs) \cup {NoPool} :
          task' = [task EXCEPT ![s] = Task(task[s].kind, "probed", n, p)]
    BY <1>t, <1>7 DEF ProbeAnswer, TypeOK
  <2>3. Task(task[s].kind, "probed", n, p) \in Tasks
    BY <1>t, <2>1, TaskIsTask, TaskFields DEF TypeOK
  <2>4. Task(task[s].kind, "probed", n, p).at # "fetched"
    BY DEF Task
  <2>5. task' \in [Slots -> Tasks] /\ AnswersKnown'
    BY <1>7, <2>2, <2>3, <2>4, SlotMoves DEF ProbeAnswer
  <2> QED
    BY <1>t, <1>7, <2>5 DEF ProbeAnswer, TypeOK, HandleServed
<1>8. ASSUME NEW s \in Slots, FetchOk(s) \/ FetchFails(s) PROVE TypeInv'
  <2>1. PICK n \in {0, Len(history)} :
          task' = [task EXCEPT ![s] = Task(task[s].kind, "fetched", n, task[s].pool)]
    BY <1>8 DEF FetchOk, FetchFails
  <2>2. n \in 0..Len(history) /\ n \in Nat /\ task[s] \in Tasks
    BY <1>t DEF TypeOK
  <2>3. Task(task[s].kind, "fetched", n, task[s].pool) \in Tasks
    BY <2>2, TaskIsTask, TaskFields
  <2>4. Task(task[s].kind, "fetched", n, task[s].pool).ans = n
    BY DEF Task
  <2>5. task' \in [Slots -> Tasks] /\ AnswersKnown'
    BY <1>8, <2>1, <2>2, <2>3, <2>4, SlotMoves DEF FetchOk, FetchFails
  <2> QED
    BY <1>t, <1>8, <2>5 DEF FetchOk, FetchFails, TypeOK, HandleServed
<1>9. ASSUME NEW s \in Slots, FetchGate(s) PROVE TypeInv'
  <2>1. /\ Task(task[s].kind, "fetching", 0, task[s].pool) \in Tasks
        /\ task[s].pool \in (SUBSET Txs) \cup {NoPool}
    BY <1>t, TaskIsTask, TaskFields DEF TypeOK
  <2>2. Task(task[s].kind, "fetching", 0, task[s].pool).at # "fetched"
    BY DEF Task
  <2>3. task' \in [Slots -> Tasks] /\ AnswersKnown'
    <3>1. CASE HeadChanged(task[s].ans)
      BY <1>9, <3>1, <2>1, <2>2, SlotMoves DEF FetchGate
    <3>2. CASE ~HeadChanged(task[s].ans)
      BY <1>9, <3>2, AfterTickSlot DEF FetchGate
    <3> QED
      BY <3>1, <3>2
  <2>4. snapshot' \in (SUBSET Txs) \cup {NoPool}
    BY <1>t, <1>9, <2>1 DEF FetchGate, EmitMempool, TypeOK
  <2> QED
    BY <1>t, <1>9, <2>3, <2>4 DEF FetchGate, TypeOK, HandleServed
<1>10. ASSUME NEW s \in Slots, TickEnd(s) PROVE TypeInv'
  <2>1. task' \in [Slots -> Tasks] /\ AnswersKnown'
    BY <1>10, AfterTickSlot DEF TickEnd
  <2>2. snapshot' \in (SUBSET Txs) \cup {NoPool}
    BY <1>t, <1>10, TaskFields DEF TickEnd, EmitMempool, TypeOK
  <2>3. lastSeen' \in 0..MaxHeight
    BY <1>t, <1>10, FetchedBlock DEF TickEnd, TypeOK
  <2>4. /\ lastEmitted' \in Blocks \cup {None}
        /\ feed' \in Seq(1..Len(history))
        /\ current' \in BOOLEAN
    <3>1. CASE task[s].ans # 0 /\ Fresh(history[task[s].ans])
      BY <1>10, <3>1, FetchedBlock, EmitTypes DEF TickEnd
    <3>2. CASE ~(task[s].ans # 0 /\ Fresh(history[task[s].ans]))
      BY <1>t, <1>10, <3>2 DEF TickEnd, TypeOK
    <3> QED
      BY <3>1, <3>2
  <2> QED
    BY <1>t, <1>10, <2>1, <2>2, <2>3, <2>4 DEF TickEnd, TypeOK, HandleServed
<1>11. ASSUME NEW s \in Slots, Schedule(s) PROVE TypeInv'
  <2>1. task' \in [Slots -> Tasks] /\ AnswersKnown'
    BY <1>11, IdleSlot DEF Schedule
  <2>2. /\ armed' \subseteq TimerIds /\ timer' \in TimerIds \cup {None}
        /\ retryAttempts' \in Nat
    BY <1>t, <1>11 DEF Schedule, TypeOK
  <2> QED
    BY <1>t, <1>11, <2>1, <2>2 DEF Schedule, TypeOK, HandleServed
<1>12. ASSUME NEW s \in Slots, HandleHeadNotification(s) PROVE TypeInv'
  <2>1. task' \in [Slots -> Tasks] /\ AnswersKnown'
    BY <1>12, IdleSlot DEF HandleHeadNotification
  <2>2. /\ lastEmitted' \in Blocks \cup {None} /\ lastSeen' \in 0..MaxHeight
        /\ feed' \in Seq(1..Len(history)) /\ current' \in BOOLEAN
    <3>1. CASE task[s].ans # 0 /\ Fresh(history[task[s].ans])
      BY <1>t, <1>12, <3>1, FetchedBlock, EmitTypes DEF HandleHeadNotification, TypeOK
    <3>2. CASE ~(task[s].ans # 0 /\ Fresh(history[task[s].ans]))
      BY <1>t, <1>12, <3>2 DEF HandleHeadNotification, TypeOK
    <3> QED
      BY <3>1, <3>2
  <2> QED
    BY <1>t, <1>12, <2>1, <2>2 DEF HandleHeadNotification, TypeOK, HandleServed
<1>13. ASSUME NEW s \in Slots, HandleMempoolNotification(s) PROVE TypeInv'
  <2>1. task' \in [Slots -> Tasks] /\ AnswersKnown'
    BY <1>13, IdleSlot DEF HandleMempoolNotification
  <2>2. snapshot' \in (SUBSET Txs) \cup {NoPool}
    BY <1>t, <1>13, TaskFields DEF HandleMempoolNotification, TypeOK
  <2> QED
    BY <1>t, <1>13, <2>1, <2>2 DEF HandleMempoolNotification, TypeOK, HandleServed
<1>14. CASE ProbeDone
  <2>1. caps' \in Capabilities /\ ready' \in BOOLEAN
    BY <1>14, ConstantsAssumption
    DEF ProbeDone, ProbeCapabilities, Capabilities, Subscribable, ConstantsAssumption
  <2> QED
    BY <1>t, <1>14, <2>1 DEF ProbeDone, TypeOK, HandleServed, AnswersKnown
<1>15. ASSUME NEW w \in Streams, OpenStream(w) PROVE TypeInv'
  <2>1. waiting' \in [Streams -> Nat] /\ opening' \in [Streams -> Nat]
    BY <1>t, <1>15 DEF OpenStream, TypeOK
  <2> QED
    BY <1>t, <1>15, <2>1 DEF OpenStream, TypeOK, HandleServed, AnswersKnown
<1>16. ASSUME NEW w \in Streams, Opened(w) PROVE TypeInv'
  <2>1. /\ opening' \in [Streams -> Nat] /\ live' \in [Streams -> Nat]
        /\ handle' \in [Streams -> BOOLEAN] /\ HandleServed'
    BY <1>t, <1>16 DEF Opened, TypeOK, HandleServed
  <2> QED
    BY <1>t, <1>16, <2>1 DEF Opened, TypeOK, AnswersKnown
<1>17. ASSUME NEW w \in Streams, OpenFails(w) PROVE TypeInv'
  <2>1. caps' \in Capabilities
    BY <1>t, <1>17 DEF OpenFails, Downgrade, TypeOK, Capabilities, Subscribable, Streams
  <2>2. opening' \in [Streams -> Nat]
    BY <1>t, <1>17 DEF OpenFails, TypeOK
  <2> QED
    BY <1>t, <1>17, <2>1, <2>2 DEF OpenFails, TypeOK, HandleServed, AnswersKnown
<1>18. CASE HeadNotification
  <2>1. Pushed("push", NoPool) \in Tasks /\ Pushed("push", NoPool).at # "fetched"
    BY TaskIsTask DEF Pushed, Task
  <2>2. task' \in [Slots -> Tasks] /\ AnswersKnown'
    BY <1>18, <2>1, SlotMoves DEF HeadNotification, IdleSlots
  <2> QED
    BY <1>t, <1>18, <2>2 DEF HeadNotification, TypeOK, HandleServed
<1>19. CASE PendingNotification
  <2>1. PICK t \in mempool, s \in Slots :
          task' = [task EXCEPT ![s] = Pushed("pending", {t})]
    BY <1>19 DEF PendingNotification, IdleSlots
  <2>2. Pushed("pending", {t}) \in Tasks /\ Pushed("pending", {t}).at # "fetched"
    BY <1>t, TaskIsTask DEF Pushed, Task, TypeOK
  <2>3. task' \in [Slots -> Tasks] /\ AnswersKnown'
    BY <1>19, <2>1, <2>2, SlotMoves DEF PendingNotification
  <2> QED
    BY <1>t, <1>19, <2>3 DEF PendingNotification, TypeOK, HandleServed
<1>20. CASE UNCHANGED vars
  BY <1>t, <1>20 DEF vars, TypeOK, HandleServed, AnswersKnown
<1> QED
  BY <1>1, <1>2, <1>3, <1>4, <1>5, <1>6, <1>7, <1>8, <1>9, <1>10, <1>11, <1>12,
     <1>13, <1>14, <1>15, <1>16, <1>17, <1>18, <1>19, <1>20
  DEF Next, Answer, Resume

LEMMA TypeInvHolds == Spec => []TypeInv
<1> QED
  BY TypeInit, TypeStep, PTL DEF Spec

\* Every variable of createChainSource keeps its type in every behaviour.
THEOREM TypeCorrect == Spec => []TypeOK
<1>1. TypeInv => TypeOK
  BY DEF TypeInv
<1> QED
  BY <1>1, TypeInvHolds, PTL

\* stop() never closes a stream twice: a handle it holds is a stream the node
\* still serves.
THEOREM HandlesServed == Spec => []HandleServed
<1>1. TypeInv => HandleServed
  BY DEF TypeInv
<1> QED
  BY <1>1, TypeInvHolds, PTL

-----------------------------------------------------------------------------
\* NoRepeat and GateSound rest on what the dedup key is: the last block out.
FeedInv == LastOut /\ NoRepeat /\ GateSound

LEMMA FeedInit == Init => FeedInv
  BY DEF Init, FeedInv, LastOut, NoRepeat, GateSound

\* Handing out a block that passed the hash check keeps the feed free of
\* repeats and the gate, set to that block's number or left alone, sound.
LEMMA FeedEmits ==
  ASSUME TypeInv, FeedInv, NEW p \in 1..Len(history), history[p] \in Blocks,
         Fresh(history[p]), EmitBlock(p), history' = history,
         lastSeen' \in {lastSeen, history[p].num}
  PROVE  FeedInv'
<1>1. /\ feed \in Seq(1..Len(history)) /\ feed' = Append(feed, p)
      /\ lastEmitted' = history[p]
  BY DEF TypeInv, TypeOK, EmitBlock
<1>2. /\ feed' \in Seq(1..Len(history))
      /\ Len(feed') = Len(feed) + 1
      /\ feed'[Len(feed) + 1] = p
      /\ \A i \in 1..Len(feed) : feed'[i] = feed[i]
  BY <1>1
<1>3. LastOut'
  BY <1>1, <1>2 DEF LastOut
<1>4. NoRepeat'
  <2>1. ASSUME NEW i \in 1..Len(feed) PROVE history[feed'[i]] # history[feed'[i + 1]]
    <3>1. CASE i < Len(feed)
      BY <1>1, <1>2, <3>1 DEF FeedInv, NoRepeat
    <3>2. CASE i = Len(feed)
      BY <1>1, <1>2, <3>2 DEF FeedInv, LastOut, Fresh
    <3> QED
      BY <1>1, <3>1, <3>2
  <2> QED
    BY <1>1, <1>2, <2>1 DEF NoRepeat
<1>5. GateSound'
  BY <1>1, <1>2 DEF FeedInv, GateSound
<1> QED
  BY <1>3, <1>4, <1>5 DEF FeedInv

\* The steps that leave what FeedInv speaks of alone.
LEMMA FeedStutter ==
  ASSUME FeedInv, UNCHANGED <<history, feed, lastEmitted, lastSeen>>
  PROVE  FeedInv'
  BY DEF FeedInv, LastOut, NoRepeat, GateSound

LEMMA FeedTick ==
  ASSUME TypeInv, FeedInv, NEW s \in Slots, TickEnd(s)
  PROVE  FeedInv'
<1>1. CASE task[s].ans # 0 /\ Fresh(history[task[s].ans])
  BY <1>1, FetchedBlock, FeedEmits DEF TickEnd, node
<1>2. CASE task[s].ans # 0 /\ ~Fresh(history[task[s].ans])
  <2>1. /\ lastEmitted = history[task[s].ans] /\ lastEmitted # None
        /\ UNCHANGED <<history, feed, lastEmitted>>
        /\ lastSeen' \in {lastSeen, history[task[s].ans].num}
    BY <1>2, FetchedBlock, ConstantsAssumption DEF TickEnd, Fresh, node, ConstantsAssumption
  <2>2. feed \in Seq(1..Len(history)) /\ feed # <<>>
    BY <2>1 DEF FeedInv, LastOut, TypeInv, TypeOK
  <2>3. Len(feed) \in 1..Len(feed) /\ history[feed[Len(feed)]] = history[task[s].ans]
    BY <2>1, <2>2 DEF FeedInv, LastOut
  <2>4. GateSound'
    BY <2>1, <2>3 DEF FeedInv, GateSound
  <2> QED
    BY <2>1, <2>4 DEF FeedInv, LastOut, NoRepeat
<1>3. CASE task[s].ans = 0
  BY <1>3, FeedStutter DEF TickEnd, node
<1> QED
  BY <1>1, <1>2, <1>3

LEMMA FeedPush ==
  ASSUME TypeInv, FeedInv, NEW s \in Slots, HandleHeadNotification(s)
  PROVE  FeedInv'
<1>1. CASE task[s].ans # 0 /\ Fresh(history[task[s].ans])
  BY <1>1, FetchedBlock, FeedEmits DEF HandleHeadNotification, node
<1>2. CASE ~(task[s].ans # 0 /\ Fresh(history[task[s].ans]))
  BY <1>2, FeedStutter DEF HandleHeadNotification, node, gate
<1> QED
  BY <1>1, <1>2

LEMMA FeedStep == TypeInv /\ FeedInv /\ [Next]_vars => FeedInv'
<1> SUFFICES ASSUME TypeInv, FeedInv, [Next]_vars PROVE FeedInv'
  OBVIOUS
<1>1. CASE AdoptHead
  <2>1. PICK b \in Blocks : history' = Append(history, b)
    BY <1>1 DEF AdoptHead
  <2>2. \A i \in 1..Len(history) : history'[i] = history[i]
    BY <2>1 DEF TypeInv, TypeOK
  <2>3. UNCHANGED <<feed, lastEmitted, lastSeen>>
    BY <1>1 DEF AdoptHead, output, gate
  <2>4. feed \in Seq(1..Len(history))
    BY DEF TypeInv, TypeOK
  <2>5. \A i \in 1..Len(feed) : history'[feed[i]] = history[feed[i]]
    BY <2>2, <2>4
  <2>6. LastOut'
    <3>1. CASE feed = <<>>
      BY <2>3, <3>1 DEF FeedInv, LastOut
    <3>2. CASE feed # <<>>
      <4>1. Len(feed) \in 1..Len(feed)
        BY <2>4, <3>2
      <4>2. lastEmitted = history[feed[Len(feed)]]
        BY <3>2 DEF FeedInv, LastOut
      <4>3. lastEmitted' = history'[feed'[Len(feed')]]
        BY <2>3, <2>5, <4>1, <4>2
      <4> QED
        BY <2>3, <3>2, <4>3 DEF LastOut
    <3> QED
      BY <3>1, <3>2
  <2>7. NoRepeat'
    <3>1. \A i \in 1..(Len(feed) - 1) : i \in 1..Len(feed) /\ i + 1 \in 1..Len(feed)
      BY <2>4
    <3>2. \A i \in 1..(Len(feed) - 1) : history'[feed[i]] # history'[feed[i + 1]]
      BY <2>5, <3>1 DEF FeedInv, NoRepeat
    <3> QED
      BY <2>3, <3>2 DEF NoRepeat
  <2>8. GateSound'
    BY <2>3, <2>5 DEF FeedInv, GateSound
  <2> QED
    BY <2>6, <2>7, <2>8 DEF FeedInv
<1>2. CASE Stop
  BY <1>2 DEF Stop, ResetGate, FeedInv, LastOut, NoRepeat, GateSound
<1>3. ASSUME NEW s \in Slots, TickEnd(s) PROVE FeedInv'
  BY <1>3, FeedTick
<1>4. ASSUME NEW s \in Slots, HandleHeadNotification(s) PROVE FeedInv'
  BY <1>4, FeedPush
<1>5. CASE UNCHANGED <<history, feed, lastEmitted, lastSeen>>
  BY <1>5, FeedStutter
<1>6. ASSUME NEW s \in Slots, Answer(s) \/ FetchGate(s) \/ Schedule(s)
                              \/ HandleMempoolNotification(s)
      PROVE  UNCHANGED <<history, feed, lastEmitted, lastSeen>>
  BY <1>6 DEF Answer, ProbeAnswer, FetchOk, FetchFails, FetchGate, Schedule,
     HandleMempoolNotification, node, gate, output
<1>7. ASSUME \/ MempoolChanges \/ Start \/ PollOnce \/ ProbeDone
             \/ HeadNotification \/ PendingNotification \/ UNCHANGED vars
             \/ \E t \in TimerIds : TimerFires(t)
             \/ \E w \in Streams : OpenStream(w) \/ Opened(w) \/ OpenFails(w)
      PROVE  UNCHANGED <<history, feed, lastEmitted, lastSeen>>
  BY <1>7 DEF MempoolChanges, Start, PollOnce, ProbeDone, HeadNotification,
     PendingNotification, TimerFires, OpenStream, Opened, OpenFails, vars, node,
     gate, output
<1> QED
  BY <1>1, <1>2, <1>3, <1>4, <1>5, <1>6, <1>7 DEF Next, Resume

LEMMA FeedCorrect == Spec => [](TypeInv /\ FeedInv)
<1>1. Init => TypeInv /\ FeedInv
  BY TypeInit, FeedInit
<1>2. TypeInv /\ FeedInv /\ [Next]_vars => (TypeInv /\ FeedInv)'
  BY TypeStep, FeedStep
<1> QED
  BY <1>1, <1>2, PTL DEF Spec

\* No consumer is handed the same block twice running, however many poll
\* cycles and push handlers are in flight and whenever stop() runs.
THEOREM NeverTwiceRunning == Spec => []NoRepeat
<1>1. FeedInv => NoRepeat
  BY DEF FeedInv
<1> QED
  BY <1>1, FeedCorrect, PTL

\* The head-probe gate only ever closes on a height that was handed out.
THEOREM GateAlwaysSound == Spec => []GateSound
<1>1. FeedInv => GateSound
  BY DEF FeedInv
<1> QED
  BY <1>1, FeedCorrect, PTL

-----------------------------------------------------------------------------
\* Every step hands out one block, resets the feed, moves the node's head, or
\* is invisible to a consumer.
LEMMA FeedRefines == TypeInv /\ FeedInv /\ [Next]_vars => [Feed!Next]_(Feed!vars)
<1> SUFFICES ASSUME TypeInv, FeedInv, [Next]_vars PROVE [Feed!Next]_(Feed!vars)
  OBVIOUS
<1>1. CASE AdoptHead
  BY <1>1 DEF AdoptHead, Tip, output, Feed!Next, Feed!Adopt
<1>2. CASE Stop
  BY <1>2 DEF Stop, node, Feed!Next, Feed!Reset
<1>3. ASSUME NEW p \in 1..Len(history), Fresh(history[p]), EmitBlock(p), history' = history
      PROVE  Feed!Next
  <2>1. feed # <<>> => history[p] # history[feed[Len(feed)]]
    BY <1>3 DEF FeedInv, LastOut, Fresh
  <2>2. Feed!HandOut(p)
    BY <1>3, <2>1 DEF Feed!HandOut, EmitBlock
  <2> QED
    BY <2>2 DEF Feed!Next
<1>4. ASSUME NEW s \in Slots, TickEnd(s) \/ HandleHeadNotification(s)
      PROVE  Feed!Next \/ UNCHANGED <<history, feed>>
  <2>1. history' = history
    BY <1>4 DEF TickEnd, HandleHeadNotification, node
  <2>2. CASE task[s].ans # 0 /\ Fresh(history[task[s].ans])
    <3>1. task[s].at = "fetched" /\ EmitBlock(task[s].ans)
      BY <1>4, <2>2 DEF TickEnd, HandleHeadNotification
    <3> QED
      BY <1>3, <2>1, <2>2, <3>1, FetchedBlock
  <2>3. CASE ~(task[s].ans # 0 /\ Fresh(history[task[s].ans]))
    BY <1>4, <2>1, <2>3 DEF TickEnd, HandleHeadNotification
  <2> QED
    BY <2>2, <2>3
<1>5. ASSUME NEW s \in Slots, Answer(s) \/ FetchGate(s) \/ Schedule(s)
                              \/ HandleMempoolNotification(s)
      PROVE  UNCHANGED <<history, feed>>
  BY <1>5 DEF Answer, ProbeAnswer, FetchOk, FetchFails, FetchGate, Schedule,
     HandleMempoolNotification, node, output
<1>6. ASSUME \/ MempoolChanges \/ Start \/ PollOnce \/ ProbeDone
             \/ HeadNotification \/ PendingNotification \/ UNCHANGED vars
             \/ \E t \in TimerIds : TimerFires(t)
             \/ \E w \in Streams : OpenStream(w) \/ Opened(w) \/ OpenFails(w)
      PROVE  UNCHANGED <<history, feed>>
  BY <1>6 DEF MempoolChanges, Start, PollOnce, ProbeDone, HeadNotification,
     PendingNotification, TimerFires, OpenStream, Opened, OpenFails, vars, node, output
<1> QED
  BY <1>1, <1>2, <1>4, <1>5, <1>6 DEF Next, Resume, Feed!vars

\* The source, with its sockets, timers and answers in flight, implements the
\* feed that subscribeBlocks promises.
THEOREM ImplementsFeed == Spec => FeedSpec
<1>1. Init => Feed!Init
  BY DEF Init, Feed!Init
<1> QED
  BY <1>1, FeedRefines, FeedCorrect, PTL DEF Spec, FeedSpec, Feed!Spec

-----------------------------------------------------------------------------
LEMMA FallbackStep == TypeInv /\ FallbackReal /\ [Next]_vars => FallbackReal'
<1> SUFFICES ASSUME TypeInv, FallbackReal, [Next]_vars PROVE FallbackReal'
  OBVIOUS
<1>1. CASE ProbeDone
  BY <1>1 DEF ProbeDone, ProbeCapabilities, FallbackReal
<1>2. ASSUME NEW w \in Streams, OpenFails(w) PROVE FallbackReal'
  <2>1. caps' = [caps EXCEPT ![w] = Downgrade(w)] /\ caps \in Capabilities
    BY <1>2 DEF OpenFails, TypeInv, TypeOK
  <2>2. CASE w = "newHeads"
    BY <2>1, <2>2 DEF FallbackReal, Capabilities
  <2>3. CASE w = "newPending"
    BY <2>1, <2>3 DEF FallbackReal, Capabilities, Downgrade
  <2> QED
    BY <2>2, <2>3 DEF Streams
<1>3. ASSUME caps' = caps PROVE FallbackReal'
  BY <1>3 DEF FallbackReal
<1>4. ASSUME NEW s \in Slots, Answer(s) \/ Resume(s) PROVE caps' = caps
  BY <1>4 DEF Answer, ProbeAnswer, FetchOk, FetchFails, Resume, FetchGate, TickEnd, Schedule,
     HandleHeadNotification, HandleMempoolNotification, probe
<1>5. ASSUME \/ AdoptHead \/ MempoolChanges \/ Start \/ Stop \/ PollOnce
             \/ HeadNotification \/ PendingNotification \/ UNCHANGED vars
             \/ \E t \in TimerIds : TimerFires(t)
             \/ \E w \in Streams : OpenStream(w) \/ Opened(w)
      PROVE  caps' = caps
  BY <1>5 DEF AdoptHead, MempoolChanges, Start, Stop, PollOnce, HeadNotification,
     PendingNotification, TimerFires, OpenStream, Opened, vars, probe
<1> QED
  BY <1>1, <1>2, <1>3, <1>4, <1>5 DEF Next

\* Whatever the probe finds and whichever subscribe is refused later, the
\* mempool stream is called poll-only just when txpool_content can be polled
\* (source.ts, the downgrade of tryOpenMempoolSubscription).
THEOREM FallbackAlwaysReal == Spec => []FallbackReal
<1>1. Init => FallbackReal
  BY DEF Init, ProbingDefault, FallbackReal
<1> QED
  BY <1>1, FallbackStep, TypeInvHolds, PTL DEF Spec

-----------------------------------------------------------------------------
\* Within one session.

Running == {s \in Slots : task[s].kind = "chain"}
AtMostOne(S) == \A x, y \in S : x = y

\* The chain sleeps, in one timer, or runs, in one slot.  Only a chain comes
\* back to be scheduled, and there is none at intervals.
ChainInv ==
  /\ AtMostOne(armed) /\ AtMostOne(Running)
  /\ armed = {} \/ Running = {}
  /\ starts = 0 => armed = {} /\ Running = {}
  /\ \A s \in Slots : /\ task[s].at = "returned" => task[s].kind = "chain"
                      /\ task[s].kind = "chain" => Adaptive

\* Each start() asks once for each stream: it is still to be opened, being
\* opened, served, or gone.
StreamInv ==
  /\ starts <= MaxStarts
  /\ \A w \in Streams : /\ waiting[w] + opening[w] + live[w] <= starts
                        /\ live[w] = IF handle[w] THEN 1 ELSE 0

LEMMA StreamStep ==
  ASSUME MaxStarts <= 1, TypeInv, StreamInv, [Next]_vars
  PROVE  StreamInv'
<1>1. /\ waiting \in [Streams -> Nat] /\ opening \in [Streams -> Nat]
      /\ live \in [Streams -> Nat] /\ handle \in [Streams -> BOOLEAN] /\ starts \in Nat
      /\ MaxStarts \in Nat
  BY ConstantsAssumption DEF TypeInv, TypeOK, ConstantsAssumption
<1>2. ASSUME UNCHANGED <<waiting, opening, live, handle, starts>> PROVE StreamInv'
  BY <1>2 DEF StreamInv
<1>3. CASE Start
  <2>1. /\ starts = 0 /\ starts' = 1 /\ starts' <= MaxStarts
        /\ UNCHANGED <<opening, live, handle>>
        /\ \A w \in Streams : waiting'[w] = waiting[w] + 1
    BY <1>1, <1>3 DEF Start
  <2> QED
    BY <1>1, <2>1 DEF StreamInv
<1>4. CASE Stop
  <2>1. /\ UNCHANGED <<waiting, opening, starts>>
        /\ \A w \in Streams : /\ live'[w] = IF handle[w] THEN live[w] - 1 ELSE live[w]
                              /\ handle'[w] = FALSE
    BY <1>4 DEF Stop, CloseStreams
  <2> QED
    BY <1>1, <2>1 DEF StreamInv
<1>5. ASSUME NEW w \in Streams, OpenStream(w) PROVE StreamInv'
  <2>1. /\ waiting[w] > 0 /\ UNCHANGED <<live, handle, starts>>
        /\ waiting' = [waiting EXCEPT ![w] = waiting[w] - 1]
        /\ opening' = [opening EXCEPT ![w] = opening[w] + 1] \/ opening' = opening
    BY <1>5 DEF OpenStream, session
  <2>2. /\ \A v \in Streams : waiting'[v] = IF v = w THEN waiting[v] - 1 ELSE waiting[v]
        /\ \A v \in Streams : \/ opening'[v] = opening[v]
                              \/ v = w /\ opening'[v] = opening[v] + 1
    BY <1>1, <2>1
  <2> QED
    BY <1>1, <2>1, <2>2 DEF StreamInv
<1>6. ASSUME NEW w \in Streams, Opened(w) PROVE StreamInv'
  <2>1. opening[w] > 0 /\ UNCHANGED <<waiting, starts>>
    BY <1>6 DEF Opened, session
  <2>2. \A v \in Streams :
          /\ opening'[v] = IF v = w THEN opening[v] - 1 ELSE opening[v]
          /\ live'[v] = IF v = w THEN live[v] + 1 ELSE live[v]
    BY <1>1, <1>6 DEF Opened
  <2>7. handle'[w] /\ \A v \in Streams : v # w => handle'[v] = handle[v]
    BY <1>1, <1>6 DEF Opened
  <2>3. starts <= 1
    BY <1>1 DEF StreamInv
  <2> SUFFICES ASSUME NEW v \in Streams
               PROVE  /\ waiting'[v] + opening'[v] + live'[v] <= starts'
                      /\ live'[v] = IF handle'[v] THEN 1 ELSE 0
    BY <2>1 DEF StreamInv
  <2>4. waiting[v] + opening[v] + live[v] <= starts /\ live[v] = IF handle[v] THEN 1 ELSE 0
    BY DEF StreamInv
  <2>5. CASE v = w
    <3>1. live[v] = 0 /\ opening[v] > 0 /\ live[v] \in Nat /\ opening[v] \in Nat
      BY <1>1, <2>1, <2>3, <2>4, <2>5
    <3>2. live'[v] = 1 /\ opening'[v] = opening[v] - 1 /\ waiting'[v] = waiting[v]
      BY <2>1, <2>2, <2>5, <3>1
    <3>3. waiting'[v] + opening'[v] + live'[v] <= starts'
      BY <1>1, <2>1, <2>4, <3>1, <3>2
    <3>4. handle'[v]
      BY <2>5, <2>7
    <3> QED
      BY <3>2, <3>3, <3>4
  <2>6. CASE v # w
    BY <1>1, <2>1, <2>2, <2>4, <2>6, <2>7
  <2> QED
    BY <2>5, <2>6
<1>7. ASSUME NEW w \in Streams, OpenFails(w) PROVE StreamInv'
  <2>1. opening[w] > 0 /\ UNCHANGED <<waiting, live, handle, starts>>
    BY <1>7 DEF OpenFails, session
  <2>2. \A v \in Streams : opening'[v] = IF v = w THEN opening[v] - 1 ELSE opening[v]
    BY <1>1, <1>7 DEF OpenFails
  <2> QED
    BY <1>1, <2>1, <2>2 DEF StreamInv
<1>8. ASSUME NEW s \in Slots, Answer(s) \/ Resume(s) PROVE StreamInv'
  BY <1>2, <1>8 DEF Answer, ProbeAnswer, FetchOk, FetchFails, Resume, FetchGate, TickEnd, Schedule,
     HandleHeadNotification, HandleMempoolNotification, sockets, session
<1>9. ASSUME \/ AdoptHead \/ MempoolChanges \/ PollOnce \/ ProbeDone
             \/ HeadNotification \/ PendingNotification \/ UNCHANGED vars
             \/ \E t \in TimerIds : TimerFires(t)
      PROVE  StreamInv'
  BY <1>2, <1>9 DEF AdoptHead, MempoolChanges, PollOnce, ProbeDone, HeadNotification,
     PendingNotification, TimerFires, vars, sockets, session
<1> QED
  BY <1>3, <1>4, <1>5, <1>6, <1>7, <1>8, <1>9 DEF Next

\* A slot gets a task that is of the chain just if the one before was.
LEMMA KindStays ==
  ASSUME TypeInv, ChainInv, NEW s \in Slots, NEW tk, task' = [task EXCEPT ![s] = tk],
         tk.kind = "chain" <=> task[s].kind = "chain",
         tk.at = "returned" => tk.kind = "chain",
         armed' = armed, options' = options, starts' = starts
  PROVE  ChainInv'
<1>1. task \in [Slots -> Tasks]
  BY DEF TypeInv, TypeOK
<1>2. \A r \in Slots : task'[r] = IF r = s THEN tk ELSE task[r]
  BY <1>1
<1>3. Running' = Running
  BY <1>2 DEF Running
<1>4. Adaptive' = Adaptive
  BY DEF Adaptive
<1> QED
  BY <1>2, <1>3, <1>4 DEF ChainInv

\* A new cycle, push or snapshot takes a slot that was idle.
LEMMA NewTask ==
  ASSUME TypeInv, ChainInv, NEW s \in IdleSlots, NEW tk, task' = [task EXCEPT ![s] = tk],
         tk.at # "returned", options' = options,
         tk.kind = "chain" => Adaptive /\ armed' = {} /\ Running = {} /\ starts' # 0,
         tk.kind # "chain" => AtMostOne(armed') /\ (armed' = {} \/ Running = {})
                              /\ (starts' = 0 => armed' = {} /\ Running = {})
  PROVE  ChainInv'
<1>1. task \in [Slots -> Tasks] /\ s \in Slots /\ task[s].kind = "idle"
  BY DEF TypeInv, TypeOK, IdleSlots, Idle, Task
<1>2. \A r \in Slots : task'[r] = IF r = s THEN tk ELSE task[r]
  BY <1>1
<1>3. Adaptive' = Adaptive
  BY DEF Adaptive
<1>4. CASE tk.kind = "chain"
  <2>1. Running' = {s}
    BY <1>1, <1>2, <1>4 DEF Running
  <2> QED
    BY <1>1, <1>2, <1>3, <1>4, <2>1 DEF ChainInv, AtMostOne
<1>5. CASE tk.kind # "chain"
  <2>1. Running' = Running
    BY <1>1, <1>2, <1>5 DEF Running
  <2> QED
    BY <1>1, <1>2, <1>3, <1>5, <2>1 DEF ChainInv, AtMostOne
<1> QED
  BY <1>4, <1>5

LEMMA ChainStep ==
  ASSUME MaxStarts <= 1, TypeInv, ChainInv, [Next]_vars
  PROVE  ChainInv'
<1>1. starts \in Nat /\ MaxStarts \in Nat
  BY ConstantsAssumption DEF TypeInv, TypeOK, ConstantsAssumption
<1> USE DEF node, session, probe, scheduler, sockets, output, gate
<1>2. CASE Start
  <2>1. starts = 0 /\ starts' = 1 /\ armed = {} /\ Running = {} /\ options' = options
    BY <1>1, <1>2 DEF Start, ChainInv
  <2>2. PICK s \in IdleSlots :
          IF Adaptive THEN task' = [task EXCEPT ![s] = Polling("chain")] /\ armed' = armed
          ELSE /\ task' = [task EXCEPT ![s] = Polling("tick")]
               /\ \E t \in TimerIds : armed' = armed \cup {t}
    BY <1>2 DEF Start
  <2>3. \A k : Polling(k).kind = k /\ Polling(k).at = "probing"
    BY DEF Polling, Task
  <2>4. CASE Adaptive
    <3> PICK tk : tk = Polling("chain")
      OBVIOUS
    <3>1. /\ tk.kind = "chain" /\ tk.at # "returned" /\ task' = [task EXCEPT ![s] = tk]
          /\ armed' = {} /\ starts' # 0
      BY <2>1, <2>2, <2>3, <2>4
    <3> QED
      BY <2>1, <2>4, <3>1, NewTask
  <2>5. CASE ~Adaptive
    <3>1. AtMostOne(armed')
      BY <2>1, <2>2, <2>5 DEF AtMostOne
    <3> QED
      BY <2>1, <2>2, <2>3, <2>5, <3>1, NewTask
  <2> QED
    BY <2>4, <2>5
<1>3. CASE Stop
  <2>1. armed' \subseteq armed /\ UNCHANGED <<task, options, starts>>
    BY <1>3 DEF Stop
  <2> QED
    BY <2>1 DEF ChainInv, AtMostOne, Running, Adaptive
<1>4. CASE PollOnce
  <2>1. PICK s \in IdleSlots : task' = [task EXCEPT ![s] = Polling("tick")]
    BY <1>4 DEF PollOnce
  <2>2. Polling("tick").kind = "tick" /\ Polling("tick").at = "probing"
    BY DEF Polling, Task
  <2> QED
    BY <1>4, <2>1, <2>2, NewTask DEF PollOnce, ChainInv
<1>5. ASSUME NEW t \in TimerIds, TimerFires(t) PROVE ChainInv'
  <2>1. t \in armed /\ armed = {t} /\ Running = {} /\ starts # 0
    BY <1>5 DEF TimerFires, ChainInv, AtMostOne
  <2>2. PICK s \in IdleSlots :
          IF Adaptive THEN task' = [task EXCEPT ![s] = Polling("chain")] /\ armed' = armed \ {t}
          ELSE task' = [task EXCEPT ![s] = Polling("tick")] /\ armed' = armed
    BY <1>5 DEF TimerFires
  <2>3. \A k : Polling(k).kind = k /\ Polling(k).at = "probing"
    BY DEF Polling, Task
  <2>4. UNCHANGED <<options, starts>>
    BY <1>5 DEF TimerFires
  <2>5. CASE Adaptive
    BY <2>1, <2>2, <2>3, <2>4, <2>5, NewTask
  <2>6. CASE ~Adaptive
    BY <2>1, <2>2, <2>3, <2>4, <2>6, NewTask DEF ChainInv
  <2> QED
    BY <2>5, <2>6
<1>6. ASSUME NEW s \in Slots, Answer(s) PROVE ChainInv'
  <2>1. PICK a, n, p : /\ a \in {"probed", "fetched"}
                       /\ task' = [task EXCEPT ![s] = Task(task[s].kind, a, n, p)]
    BY <1>6 DEF Answer, ProbeAnswer, FetchOk, FetchFails
  <2>2. UNCHANGED <<armed, options, starts>>
    BY <1>6 DEF Answer, ProbeAnswer, FetchOk, FetchFails
  <2>3. Task(task[s].kind, a, n, p).kind = task[s].kind /\ Task(task[s].kind, a, n, p).at = a
    BY DEF Task
  <2> QED
    BY <2>1, <2>2, <2>3, KindStays
<1>7. ASSUME NEW s \in Slots, FetchGate(s) \/ TickEnd(s) PROVE ChainInv'
  <2>1. \/ \E mv : task' = [task EXCEPT ![s] = AfterTick(task[s], mv)]
        \/ \E p : task' = [task EXCEPT ![s] = Task(task[s].kind, "fetching", 0, p)]
    BY <1>7 DEF FetchGate, TickEnd
  <2>2. UNCHANGED <<armed, options, starts>>
    BY <1>7 DEF FetchGate, TickEnd
  <2>3. \A mv : /\ AfterTick(task[s], mv).kind = "chain" <=> task[s].kind = "chain"
                /\ AfterTick(task[s], mv).at = "returned" => AfterTick(task[s], mv).kind = "chain"
    BY DEF AfterTick, Returned, Idle, Task
  <2>4. \A p : /\ Task(task[s].kind, "fetching", 0, p).kind = task[s].kind
               /\ Task(task[s].kind, "fetching", 0, p).at = "fetching"
    BY DEF Task
  <2> QED
    BY <2>1, <2>2, <2>3, <2>4, KindStays
<1>8. ASSUME NEW s \in Slots, HandleHeadNotification(s) \/ HandleMempoolNotification(s)
      PROVE  ChainInv'
  <2>1. /\ task[s].kind \in {"push", "pending"} /\ task' = [task EXCEPT ![s] = Idle]
        /\ UNCHANGED <<armed, options, starts>>
    BY <1>8 DEF HandleHeadNotification, HandleMempoolNotification
  <2>2. Idle.kind = "idle" /\ Idle.at = "idle"
    BY DEF Idle, Task
  <2> QED
    BY <2>1, <2>2, KindStays
<1>9. ASSUME NEW s \in Slots, Schedule(s) PROVE ChainInv'
  <2>1. /\ task[s].kind = "chain" /\ Running = {s} /\ armed = {} /\ starts # 0
        /\ task' = [task EXCEPT ![s] = Idle] /\ UNCHANGED <<options, starts>>
    BY <1>9 DEF Schedule, ChainInv, AtMostOne, Running
  <2>2. AtMostOne(armed')
    BY <1>9, <2>1 DEF Schedule, AtMostOne
  <2>3. \A r \in Slots : task'[r] = IF r = s THEN Idle ELSE task[r]
    BY <2>1 DEF TypeInv, TypeOK
  <2>4. Idle.kind = "idle" /\ Idle.at = "idle"
    BY DEF Idle, Task
  <2>5. Running' = {}
    BY <2>1, <2>3, <2>4 DEF Running
  <2> QED
    BY <2>1, <2>2, <2>3, <2>4, <2>5 DEF ChainInv, AtMostOne, Adaptive
<1>10. ASSUME HeadNotification \/ PendingNotification PROVE ChainInv'
  <2>1. PICK s, k, p : /\ s \in IdleSlots /\ k \in {"push", "pending"}
                       /\ task' = [task EXCEPT ![s] = Pushed(k, p)]
    BY <1>10 DEF HeadNotification, PendingNotification
  <2>2. Pushed(k, p).kind = k /\ Pushed(k, p).at = "fetching"
    BY DEF Pushed, Task
  <2>3. UNCHANGED <<armed, options, starts>>
    BY <1>10 DEF HeadNotification, PendingNotification
  <2> QED
    BY <2>1, <2>2, <2>3, NewTask DEF ChainInv
<1>11. ASSUME \/ AdoptHead \/ MempoolChanges \/ ProbeDone \/ UNCHANGED vars
              \/ \E w \in Streams : OpenStream(w) \/ Opened(w) \/ OpenFails(w)
       PROVE  ChainInv'
  <2>1. UNCHANGED <<armed, task, options, starts>>
    BY <1>11 DEF AdoptHead, MempoolChanges, ProbeDone, OpenStream, Opened, OpenFails, vars
  <2> QED
    BY <2>1 DEF ChainInv, Running, Adaptive
<1> QED
  BY <1>2, <1>3, <1>4, <1>5, <1>6, <1>7, <1>8, <1>9, <1>10, <1>11 DEF Next, Resume

LEMMA ChainCount == ChainInv => OneChain
<1> SUFFICES ASSUME ChainInv PROVE OneChain
  OBVIOUS
<1>1. Chains = armed \cup Running
  BY DEF Chains, Running
<1>2. Chains = {} \/ \E c : Chains = {c}
  BY <1>1 DEF ChainInv, AtMostOne
<1>3. Cardinality(Chains) = 0 \/ Cardinality(Chains) = 1
  BY <1>2, FS_EmptySet, FS_Singleton
<1> QED
  BY <1>3 DEF OneChain

LEMMA SessionHolds == MaxStarts <= 1 => (Spec => [](ChainInv /\ StreamInv))
<1> SUFFICES ASSUME MaxStarts <= 1 PROVE Spec => [](ChainInv /\ StreamInv)
  OBVIOUS
<1>1. Init => ChainInv
  BY DEF Init, ChainInv, AtMostOne, Running, Idle, Task
<1>2. Init => StreamInv
  BY ConstantsAssumption DEF Init, StreamInv, ConstantsAssumption
<1>3. TypeInv /\ ChainInv /\ StreamInv /\ [Next]_vars => (ChainInv /\ StreamInv)'
  BY ChainStep, StreamStep
<1> QED
  BY <1>1, <1>2, <1>3, TypeInvHolds, PTL DEF Spec

\* Within a session, stopped or not, the adaptive scheduler is one chain, asleep
\* or running, and the interval one timer (source.ts:595-598); over two sessions
\* it is not.
THEOREM OneChainASession == MaxStarts <= 1 => (Spec => []OneChain)
<1> SUFFICES ASSUME MaxStarts <= 1 PROVE Spec => []OneChain
  OBVIOUS
<1> QED
  BY SessionHolds, ChainCount, PTL

\* Within a session stop() can close every stream the node serves, but for one
\* whose subscribe is still under way (source.ts:374-377, 445-448).
THEOREM NoLeakASession == MaxStarts <= 1 => (Spec => []NoLeakedStream)
<1> SUFFICES ASSUME MaxStarts <= 1 PROVE Spec => []NoLeakedStream
  OBVIOUS
<1>1. StreamInv => NoLeakedStream
  BY DEF StreamInv, NoLeakedStream
<1> QED
  BY <1>1, SessionHolds, PTL
================================================================================
