------------------------------- MODULE Flight -------------------------------
(***************************************************************************)
(* @valve-tech/tx-flight-react over @valve-tech/wallet-adapter: the strip  *)
(* of transactions a page shows.  TxFlightProvider keeps one store per id  *)
(* while somebody is mounted, loads it from a storage adapter, saves it    *)
(* debounced and evicts on a timer; addByHash and the resumption of loaded *)
(* entries attach watchers after an await; the hooks of the wallet and of  *)
(* useReplaceTransaction patch whatever store they were made with.         *)
(*                                                                         *)
(* Stores are numbered in the order the page creates them; closures keep   *)
(* the store they were made with, mounted or not.  Reload ends the page    *)
(* and everything in it.                                                   *)
(***************************************************************************)
EXTENDS Integers, FiniteSets, Functions

CONSTANTS
  None,
  Sent,          \* entries made by addWithWalletAdapter
  Watched,       \* entries made by addByHash
  Manual,        \* the statuses a caller of addManual gives
  MaxItems, Retention,
  WithReceipts,  \* addByHash's option
  Resumes,       \* the provider has a clientFactory
  AnswersFirst,  \* the adapter answers load() in a microtask (localStorage)
  MaxStores,     \* bound: stores one page creates
  MaxWork,       \* bound: those stores and all the entries, together
  MaxNow         \* bound: the clock

Entries == Sent \cup Watched
S == INSTANCE FlightStore
Stores == 1..MaxStores
Nobody == 0
Refs == Stores \X Entries

ASSUME FlightAssumption ==
  /\ Sent \cap Watched = {} /\ Manual \subseteq S!Statuses
  /\ MaxItems \in Nat \ {0} /\ Retention \in Nat
  /\ {WithReceipts, Resumes, AnswersFirst} \subseteq BOOLEAN
  /\ MaxStores \in Nat \ {0} /\ {MaxWork, MaxNow} \subseteq Nat

\* An entry as the store has it.
Txs == [status : S!Statuses, submittedAt : Nat, confirmedAt : Nat \cup {None}]
ASSUME NoneIsNoTx == None \notin Txs

VARIABLES
  store,    \* the stores of this page
  mounted,  \* the registry's store, or Nobody
  refs,     \* entry.refCount
  made,     \* how many stores this page has created
  hook,     \* the store the consumer's hooks returned at their last render
  live,     \* watchers running for a store's entry
  loading,  \* stores whose storage.load is not answered
  adding,   \* addByHash calls before subscribeWatcher returns
  resuming, \* resumeByHashWatcher calls before it does
  replacing,\* replaceTransaction calls outstanding
  wallet,   \* the wallet's side of a Sent entry: its stage, and the hooks' store
  used,     \* entries created so far: ids are not reused
  saveDue,  \* the mounted store's debounced save is pending
  disk,     \* the adapter's record for this id
  now,
  kept,     \* bookkeeping: entries saved and not taken off the strip since
  removed   \* bookkeeping: entries taken off a store

provider == <<mounted, refs, made, hook, loading>>
calls == <<adding, resuming, replacing>>
world == <<wallet, used>>
saved == <<saveDue, disk>>
ghosts == <<kept, removed>>
vars == <<store, provider, live, calls, world, saved, now, ghosts>>

NoWallet == [stage |-> "idle", store |-> Nobody]
Page == [store |-> [g \in Stores |-> S!EmptyStore], live |-> [r \in Refs |-> 0]]

Init ==
  /\ store = Page.store /\ live = Page.live
  /\ mounted = Nobody /\ refs = 0 /\ made = 0 /\ hook = Nobody
  /\ loading = {} /\ adding = {} /\ resuming = {} /\ replacing = {}
  /\ wallet = [e \in Sent |-> NoWallet]
  /\ used = {} /\ saveDue = FALSE /\ disk = [e \in Entries |-> None] /\ now = 0
  /\ kept = {} /\ removed = [g \in Stores |-> {}]

Enough(stores, entries) == stores + Cardinality(entries) <= MaxWork

-----------------------------------------------------------------------------
\* store.ts: setState of store g.  The provider's listener, there while g is
\* mounted, restarts the debounce.
SetState(g, s) ==
  /\ store' = [store EXCEPT ![g] = s]
  /\ saveDue' = (saveDue \/ g = mounted)

(* Mutant: the watcher an entry had is not stopped when it is overwritten. *)
AddWithTxKeepsPrior(g, e, tx, watcher) ==
  /\ SetState(g, S!AddReducer(store[g], e, tx, watcher))
  /\ live' = [live EXCEPT ![<<g, e>>] = @ + IF watcher THEN 1 ELSE 0]

\* dispatch.addWithTx: the watcher it replaces is stopped, its own runs.
AddWithTx(g, e, tx, watcher) ==
  /\ SetState(g, S!AddReducer(store[g], e, tx, watcher))
  /\ live' = [live EXCEPT ![<<g, e>>] =
                @ - (IF e \in store[g].watched THEN 1 ELSE 0)
                  + (IF watcher THEN 1 ELSE 0)]

Update(g, e, status) ==
  IF e \in S!In(store[g])
  THEN SetState(g, S!UpdateReducer(store[g], e, status, now))
  ELSE UNCHANGED <<store, saveDue>>

\* remove, clear and evict: the watchers of what goes are stopped first.
TakeOff(g, s) ==
  /\ SetState(g, s)
  /\ live' = [r \in Refs |->
       live[r] - IF r[1] = g /\ r[2] \in store[g].watched \ s.watched THEN 1 ELSE 0]
  /\ removed' = [removed EXCEPT ![g] = @ \cup (S!In(store[g]) \ S!In(s))]
  /\ kept' = IF g = mounted THEN kept \ (S!In(store[g]) \ S!In(s)) ELSE kept

-----------------------------------------------------------------------------
\* TxFlightProvider.

\* Loaded entries join those already there.  What had no hash yet is lost; what
\* is pending is watched again, once its watcher is subscribed.
Rehydrated(tx) ==
  IF tx.status \in {"preparing", "awaiting-signature"}
  THEN [tx EXCEPT !.status = "lost"] ELSE tx
Missing(s, d) == {e \in Entries : d[e] # None /\ s.txs[e] = None}
(* Mutant: entries without a hash are skipped, not marked lost. *)
SeededSkips(s, d) ==
  [s EXCEPT !.txs = [e \in Entries |->
     IF e \in Missing(s, d) /\ Rehydrated(d[e]) = d[e] THEN d[e] ELSE s.txs[e]]]

Seeded(s, d) ==
  [s EXCEPT !.txs = [e \in Entries |-> IF e \in Missing(s, d) THEN Rehydrated(d[e])
                                       ELSE s.txs[e]]]
Resumable(s, d) == {e \in Missing(s, d) : Resumes /\ d[e].status = "pending"}

\* flushSave: what is on disk afterwards.
Flushed == IF saveDue THEN store[mounted].txs ELSE disk
Save ==
  /\ saveDue /\ saveDue' = FALSE
  /\ disk' = store[mounted].txs
  /\ kept' = kept \cup S!In(store[mounted])
  /\ UNCHANGED <<store, provider, live, calls, world, now, removed>>

\* startEntry for a fresh store.
StartEntry ==
  LET g == made + 1
  IN /\ made < MaxStores /\ Enough(g, used)
     /\ made' = g /\ mounted' = g /\ refs' = 1
     /\ loading' = loading \cup {g} /\ saveDue' = FALSE
     /\ UNCHANGED <<store, live, calls, world, now, removed>>

Mount ==
  /\ mounted = Nobody
  /\ StartEntry /\ hook' = made'
  /\ UNCHANGED <<disk, kept>>

\* The effect runs again, its dependencies having changed or React being in
\* Strict Mode: dispose, then a new store.  Nothing makes the children render.
Remount ==
  /\ refs = 1
  /\ disk' = Flushed
  /\ kept' = IF saveDue THEN kept \cup S!In(store[mounted]) ELSE kept
  /\ StartEntry
  /\ UNCHANGED hook

Rerender ==
  /\ mounted # Nobody /\ hook' = mounted
  /\ UNCHANGED <<store, mounted, refs, made, loading, live, calls, world, saved, now, ghosts>>

\* A second provider with the same id shares the store.
Join ==
  /\ refs = 1 /\ refs' = 2
  /\ UNCHANGED <<store, mounted, made, hook, loading, live, calls, world, saved, now, ghosts>>

Leave ==
  /\ refs > 0 /\ refs' = refs - 1
  /\ IF refs > 1 THEN UNCHANGED <<mounted, hook, saved, kept>>
     ELSE /\ mounted' = Nobody /\ hook' = Nobody
          /\ saveDue' = FALSE /\ disk' = Flushed
          /\ kept' = IF saveDue THEN kept \cup S!In(store[mounted]) ELSE kept
  /\ UNCHANGED <<store, made, loading, live, calls, world, now, removed>>

Load(g) ==
  /\ loading' = loading \ {g}
  /\ IF Missing(store[g], disk) = {} THEN UNCHANGED <<store, saveDue>>
     ELSE SetState(g, Seeded(store[g], disk))
  /\ resuming' = resuming \cup ({g} \X Resumable(store[g], disk))
  /\ UNCHANGED <<mounted, refs, made, hook, live, adding, replacing, world, disk,
                 now, ghosts>>

Evict ==
  /\ mounted # Nobody
  /\ \E s \in S!EvictReducer(store[mounted], MaxItems, Retention, now) :
       s # store[mounted] /\ TakeOff(mounted, s)
  /\ UNCHANGED <<provider, calls, world, disk, now>>

\* The page goes; a wallet that was asked may still sign.
Reload ==
  /\ store' = Page.store /\ live' = Page.live
  /\ mounted' = Nobody /\ refs' = 0 /\ made' = 0 /\ hook' = Nobody
  /\ loading' = {} /\ adding' = {} /\ resuming' = {} /\ replacing' = {}
  /\ wallet' = [e \in Sent |->
       [stage |-> IF wallet[e].stage \in {"idle", "asked", "sent"}
                  THEN wallet[e].stage ELSE "over",
        store |-> Nobody]]
  /\ saveDue' = FALSE /\ removed' = [g \in Stores |-> {}]
  /\ UNCHANGED <<used, disk, now, kept>>

-----------------------------------------------------------------------------
\* The consumer's calls: addByHash, addManual, remove, clear.

AddByHash(e) ==
  /\ hook # Nobody /\ e \notin used
  /\ used' = used \cup {e} /\ Enough(made, used') /\ adding' = adding \cup {<<hook, e>>}
  /\ UNCHANGED <<store, provider, live, resuming, replacing, wallet, saved, now, ghosts>>

Added(r) ==
  /\ adding' = adding \ {r}
  /\ AddWithTx(r[1], r[2], S!NewTx("pending", now), TRUE)
  /\ UNCHANGED <<provider, resuming, replacing, world, disk, now, ghosts>>

\* A subscribeWatcher that rejects: addByHash does, resumeByHashWatcher reports.
WatcherFails(r) ==
  /\ adding' = adding \ {r} /\ resuming' = resuming \ {r}
  /\ UNCHANGED <<store, provider, live, replacing, world, saved, now, ghosts>>

(* Mutant: the loaded entry is put back whether or not it is still there. *)
ResumedAnyway(r) ==
  /\ resuming' = resuming \ {r}
  /\ AddWithTx(r[1], r[2], S!NewTx("pending", now), TRUE)
  /\ UNCHANGED <<provider, adding, replacing, world, disk, now, ghosts>>

Resumed(r) ==
  LET tx == store[r[1]].txs[r[2]]
  IN /\ resuming' = resuming \ {r}
     /\ IF tx = None THEN UNCHANGED <<store, live, saveDue>>
        ELSE AddWithTx(r[1], r[2], tx, TRUE)
     /\ UNCHANGED <<provider, adding, replacing, world, disk, now, ghosts>>

AddManual(e, status) ==
  /\ hook # Nobody /\ (e \in used => e \in S!In(store[hook]))
  /\ used' = used \cup {e} /\ Enough(made, used')
  /\ AddWithTx(hook, e, S!NewTx(status, now), FALSE)
  /\ removed' = [removed EXCEPT ![hook] = @ \ {e}]
  /\ UNCHANGED <<provider, calls, wallet, disk, now, kept>>

Remove(e) ==
  /\ hook # Nobody /\ e \in S!In(store[hook])
  /\ TakeOff(hook, S!RemoveReducer(store[hook], e))
  /\ UNCHANGED <<provider, calls, world, disk, now>>

Clear ==
  /\ hook # Nobody
  /\ TakeOff(hook, S!EmptyStore)
  /\ UNCHANGED <<provider, calls, world, disk, now>>

-----------------------------------------------------------------------------
\* Watchers and replacements.

\* What a tracker may report; in which orders it does is TxObserver's subject.
\* A receipt is the node's answer as it came, and there is none without
\* withReceipts, or if the fetch fails.
Event(kind, receipt) == [kind |-> kind, receipt |-> receipt]
Events ==
  {Event(k, None) : k \in {"seen-in-mempool", "seen-in-block", "vanished-from-block",
                           "replaced-by", "unseen-for-N-blocks"}}
  \cup {Event("seen-in-block", r) : r \in IF WithReceipts THEN {"0x1", "0x0"} ELSE {}}

PatchFromTxEvent(ev) ==
  CASE ev.kind \in {"seen-in-mempool", "vanished-from-block"} -> "pending"
    [] ev.kind = "seen-in-block" -> IF ev.receipt = "reverted" THEN "failed" ELSE "confirmed"
    [] ev.kind = "replaced-by" -> "replaced"
    [] ev.kind = "unseen-for-N-blocks" -> "dropped"

Observe(r, ev) ==
  /\ live[r] > 0
  /\ Update(r[1], r[2], PatchFromTxEvent(ev))
  /\ UNCHANGED <<provider, live, calls, world, disk, now, ghosts>>

\* replaceTransaction sends a rival for the nonce and resolves to its hash.
Replace(e) ==
  /\ hook # Nobody /\ e \in S!In(store[hook])
  /\ store[hook].txs[e].status = "pending"
  /\ replacing' = replacing \cup {<<hook, e>>}
  /\ UNCHANGED <<store, provider, live, adding, resuming, world, saved, now, ghosts>>

Replaced(r) ==
  /\ replacing' = replacing \ {r}
  /\ Update(r[1], r[2], "replaced")
  /\ UNCHANGED <<provider, live, adding, resuming, world, disk, now, ghosts>>

ReplaceFails(r) ==
  /\ replacing' = replacing \ {r}
  /\ UNCHANGED <<store, provider, live, adding, resuming, world, saved, now, ghosts>>

-----------------------------------------------------------------------------
\* addWithWalletAdapter, sendTransactionWithHooks and awaitReceiptWithHooks.

Stage(e, from, to) ==
  /\ wallet[e].stage = from
  /\ wallet' = [wallet EXCEPT ![e].stage = to]

\* The next stage, with the hook that tells the store.
Hooked(e, from, to, status) ==
  /\ Stage(e, from, to)
  /\ wallet[e].store # Nobody
  /\ Update(wallet[e].store, e, status)
  /\ UNCHANGED <<provider, live, calls, used, disk, now, ghosts>>

AddWithWalletAdapter(e) ==
  /\ hook # Nobody /\ e \notin used
  /\ used' = used \cup {e} /\ Enough(made, used')
  /\ wallet' = [wallet EXCEPT ![e] = [stage |-> "made", store |-> hook]]
  /\ AddWithTx(hook, e, S!NewTx("preparing", now), FALSE)
  /\ UNCHANGED <<provider, calls, disk, now, ghosts>>

OnAwaitingSignature(e) ==
  /\ Hooked(e, "made", "asked", "awaiting-signature")

OnTransactionHash(e) == Hooked(e, "asked", "sent", "pending")
OnRejected(e) == Hooked(e, "asked", "over", "failed")

\* The wallet answers a page that is gone.
OrphanSigned(e) ==
  /\ wallet[e].store = Nobody /\ Stage(e, "asked", "sent")
  /\ UNCHANGED <<store, provider, live, calls, used, saved, now, ghosts>>

\* The receipt, and then its block.
ReceiptArrives(e) ==
  /\ wallet[e].store # Nobody
  /\ \E outcome \in {"mined", "reverted"} : Stage(e, "sent", outcome)
  /\ UNCHANGED <<store, provider, live, calls, used, saved, now, ghosts>>
OnReceiptError(e) == Hooked(e, "sent", "over", "failed")
OnConfirmed(e) == Hooked(e, "mined", "over", "confirmed")
OnReverted(e) == Hooked(e, "reverted", "over", "failed")
BlockFails(e) ==
  /\ Stage(e, "mined", "over") \/ Stage(e, "reverted", "over")
  /\ UNCHANGED <<store, provider, live, calls, used, saved, now, ghosts>>

Tick ==
  /\ now < MaxNow /\ now' = now + 1
  /\ UNCHANGED <<store, provider, live, calls, world, saved, ghosts>>

\* What React, the consumer, the trackers, the wallet and timers may do.
Act ==
  \/ Mount \/ Rerender \/ Join \/ Leave \/ Reload
  \/ Save \/ Evict \/ Clear \/ Tick
  \/ \E e \in Watched :
       AddByHash(e) \/ (\E st \in Manual : AddManual(e, st))
  \/ \E e \in Entries : Remove(e) \/ Replace(e)
  \/ \E r \in adding : Added(r)
  \/ \E r \in adding \cup resuming : WatcherFails(r)
  \/ \E r \in resuming : Resumed(r)
  \/ \E r \in Refs, ev \in Events : Observe(r, ev)
  \/ \E r \in replacing : Replaced(r) \/ ReplaceFails(r)
  \/ \E e \in Sent :
       \/ AddWithWalletAdapter(e) \/ OnAwaitingSignature(e) \/ OnTransactionHash(e)
       \/ OnRejected(e) \/ OrphanSigned(e) \/ ReceiptArrives(e)
       \/ OnReceiptError(e) \/ OnConfirmed(e) \/ OnReverted(e) \/ BlockFails(e)

\* Strict Mode's Remount comes before any microtask.
Next ==
  \/ \E g \in loading : Load(g)
  \/ Remount
  \/ (AnswersFirst => loading = {}) /\ Act

Spec == Init /\ [][Next]_vars

-----------------------------------------------------------------------------
(* A watcher runs for an entry exactly while the entry is in the store and  *)
(* the store knows its watcher, whatever removes, clears, evicts,           *)
(* overwrites or resumes it in between (store.ts:98-134, tx-tracker.ts:222).*)
WatchersOwned ==
  \A g \in Stores, e \in Entries :
    /\ live[<<g, e>>] = IF e \in store[g].watched THEN 1 ELSE 0
    /\ e \in store[g].watched => e \in S!In(store[g])

(* An entry taken off a store is not put back by an answer that was under   *)
(* way: a resumption, a watcher, a hook, a replacement                      *)
(* (tx-tracker.ts:220-229).                                                 *)
RemovedStays == \A g \in Stores : removed[g] \cap S!In(store[g]) = {}

(* What the storage adapter holds is not overwritten by a save that does    *)
(* not know of it: an entry leaves the disk only by being taken off the     *)
(* strip (provider.tsx:137-150).                                            *)
SavedKept == \A e \in kept : disk[e] # None

(* Eviction takes an entry that is in flight only when no settled entry is  *)
(* left, and never more than the cap asks for (reducers.ts:129-142).        *)
EvictsSettledFirst ==
  [][Evict => \A e \in S!In(store[mounted]) \ S!In(store'[mounted]) :
       ~S!IsTerminal(store[mounted].txs[e]) =>
         /\ Cardinality(S!In(store'[mounted])) = MaxItems
         /\ \A f \in S!In(store'[mounted]) : ~S!IsTerminal(store[mounted].txs[f])]_vars

-----------------------------------------------------------------------------
(* What comments and types of the repository say and the code does not do.  *)

(* tx-tracker.ts:12-14: provider unmount cleans up the subscriptions.       *)
UnmountStops == \A r \in Refs : live[r] > 0 => r[1] = mounted

(* types.ts:71-75: with withReceipts, a reverted receipt surfaces `failed`; *)
(* a receipt says "0x0".                                                    *)
RevertsFail ==
  [][\A r \in Refs, ev \in Events :
       (ev.receipt = "0x0" /\ r[2] \in S!In(store[r[1]]) /\ Observe(r, ev))
       => store'[r[1]].txs[r[2]].status = "failed"]_vars

(* provider.tsx:154-156: an entry lost during reload was never sent, as     *)
(* "the wallet interaction is gone".                                        *)
LostIsUnsent ==
  \A g \in Stores, e \in Sent :
    (e \in S!In(store[g]) /\ store[g].txs[e].status = "lost")
    => wallet[e].stage # "sent"

(* provider.tsx:223-225: after a re-created entry the hooks keep working.   *)
HooksFollow == hook = mounted
=============================================================================
