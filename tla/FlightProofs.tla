------------------------------ MODULE FlightProofs ------------------------------
(***************************************************************************)
(* That the page of Flight stops every watcher it lets go of, that what is *)
(* taken off a strip stays off and what is saved stays saved, and that     *)
(* eviction spares what is in flight, for every value of the constants.    *)
(***************************************************************************)
EXTENDS Flight, FiniteSetTheorems, TLAPS

StoreType == [txs : [Entries -> Txs \cup {None}], watched : SUBSET Entries]
Saved == {e \in Entries : disk[e] # None}

Stages == {"idle", "made", "asked", "sent", "mined", "reverted", "over"}
PageTypes ==
  /\ made \in 0..MaxStores /\ mounted \in 0..made /\ hook \in 0..made
  /\ refs \in Nat /\ (refs > 0 <=> mounted # Nobody)
  /\ loading \in SUBSET (1..made)
  /\ adding \in SUBSET Refs /\ resuming \in SUBSET Refs /\ replacing \in SUBSET Refs
  /\ wallet \in [Sent -> [stage : Stages, store : 0..MaxStores]]
  /\ used \in SUBSET Entries
  /\ saveDue \in BOOLEAN /\ disk \in [Entries -> Txs \cup {None}] /\ now \in Nat
  /\ kept \in SUBSET Entries /\ removed \in [Stores -> SUBSET Entries]
TypeOK ==
  /\ store \in [Stores -> StoreType] /\ live \in [Refs -> Int]
  /\ PageTypes

\* What is on a strip or was, and what is on disk, has been created, in finite
\* number, and no save is due of what is not mounted.  A call of addByHash that is under way is the first
\* and only one to bring its entry.
Created ==
  /\ IsFiniteSet(used) /\ Saved \subseteq used
  /\ saveDue => mounted # Nobody
  /\ \A g \in Stores : S!In(store[g]) \subseteq used /\ removed[g] \subseteq used
  /\ \A r \in adding : /\ r[2] \in used \ Saved
                       /\ \A g \in Stores : r[2] \notin S!In(store[g]) \cup removed[g]
                       /\ \A s \in adding : s[2] = r[2] => s = r

\* Nothing is taken off a store before it is loaded, and none of it saved.  The
\* mounted store, once loaded, has all that is to be kept.
LoadedFirst ==
  /\ \A g \in Stores : g > made \/ g \in loading => removed[g] = {}
  /\ saveDue => mounted \notin loading
  /\ mounted # Nobody /\ mounted \notin loading => kept \subseteq S!In(store[mounted])

PageInv == TypeOK /\ WatchersOwned /\ Created
LoadInv == AnswersFirst => LoadedFirst /\ RemovedStays /\ SavedKept
Inv == PageInv /\ LoadInv

-----------------------------------------------------------------------------
\* What the reducers make of a store.

Fits(s) == s \in StoreType /\ s.watched \subseteq S!In(s)

LEMMA StoreShape ==
  ASSUME NEW txs \in [Entries -> Txs \cup {None}], NEW watched \in SUBSET Entries
  PROVE  [txs |-> txs, watched |-> watched] \in StoreType
  BY DEF StoreType

LEMMA EmptyFits == Fits(S!EmptyStore) /\ S!In(S!EmptyStore) = {} /\ S!EmptyStore.watched = {}
<1>1. S!EmptyStore = [txs |-> [e \in Entries |-> None], watched |-> {}]
  BY DEF S!EmptyStore
<1>2. S!EmptyStore \in StoreType
  BY <1>1, StoreShape
<1>3. S!In(S!EmptyStore) = {}
  BY <1>1 DEF S!In
<1> QED
  BY <1>1, <1>2, <1>3 DEF Fits

LEMMA NewTxType == ASSUME NEW status \in S!Statuses, now \in Nat PROVE S!NewTx(status, now) \in Txs
  BY DEF S!NewTx, Txs

LEMMA AddFits ==
  ASSUME NEW s, Fits(s), NEW e \in Entries, NEW tx \in Txs, NEW watcher \in BOOLEAN
  PROVE  LET new == S!AddReducer(s, e, tx, watcher)
         IN /\ Fits(new) /\ S!In(new) = S!In(s) \cup {e}
            /\ e \in new.watched <=> watcher
            /\ \A f \in Entries \ {e} : f \in new.watched <=> f \in s.watched
<1> PICK txs : txs = [s.txs EXCEPT ![e] = tx]
  OBVIOUS
<1> PICK watched : watched = IF watcher THEN s.watched \cup {e} ELSE s.watched \ {e}
  OBVIOUS
<1>1. /\ s.txs \in [Entries -> Txs \cup {None}] /\ s.watched \in SUBSET Entries
      /\ s.watched \subseteq S!In(s)
  BY DEF Fits, StoreType
<1>2. /\ txs \in [Entries -> Txs \cup {None}] /\ txs[e] = tx
      /\ \A f \in Entries : f # e => txs[f] = s.txs[f]
  BY <1>1
<1>3. /\ watched \in SUBSET Entries /\ watched \subseteq s.watched \cup {e}
      /\ e \in watched <=> watcher
      /\ \A f \in Entries \ {e} : f \in watched <=> f \in s.watched
  BY <1>1
<1> PICK new : new = [txs |-> txs, watched |-> watched]
  OBVIOUS
<1>4. S!AddReducer(s, e, tx, watcher) = new
  BY DEF S!AddReducer
<1>5. new \in StoreType
  BY <1>2, <1>3, StoreShape
<1>6. S!In(new) = S!In(s) \cup {e}
  BY <1>2, NoneIsNoTx DEF S!In
<1>7. new.watched = watched /\ Fits(new)
  BY <1>1, <1>3, <1>5, <1>6 DEF Fits
<1> QED
  BY <1>3, <1>4, <1>6, <1>7

LEMMA UpdateFits ==
  ASSUME NEW s, Fits(s), NEW e \in S!In(s), NEW status \in S!Statuses, now \in Nat
  PROVE  LET new == S!UpdateReducer(s, e, status, now)
         IN Fits(new) /\ S!In(new) = S!In(s) /\ new.watched = s.watched
<1>1. /\ s.txs \in [Entries -> Txs \cup {None}] /\ s.watched \in SUBSET Entries
      /\ s.watched \subseteq S!In(s) /\ e \in Entries
      /\ s = [txs |-> s.txs, watched |-> s.watched]
  BY DEF Fits, StoreType, S!In
<1>2. s.txs[e] \in Txs
  BY <1>1 DEF S!In
<1> PICK tx : tx = [s.txs[e] EXCEPT !.status = status]
  OBVIOUS
<1>3. tx \in Txs
  BY <1>2 DEF Txs
<1> PICK stamped : stamped = IF S!IsTerminal(tx) /\ tx.confirmedAt = None
                             THEN [tx EXCEPT !.confirmedAt = now] ELSE tx
  OBVIOUS
<1>4. stamped \in Txs
  BY <1>3 DEF Txs
<1> PICK txs : txs = [s.txs EXCEPT ![e] = stamped]
  OBVIOUS
<1>5. /\ txs \in [Entries -> Txs \cup {None}] /\ txs[e] = stamped
      /\ \A f \in Entries : f # e => txs[f] = s.txs[f]
  BY <1>1, <1>4
<1>6. S!UpdateReducer(s, e, status, now) = [s EXCEPT !.txs = txs]
  BY DEF S!UpdateReducer
<1> PICK new : new = [txs |-> txs, watched |-> s.watched]
  OBVIOUS
<1>7. S!UpdateReducer(s, e, status, now) = new
  BY <1>1, <1>6
<1>8. new \in StoreType
  BY <1>1, <1>5, StoreShape
<1>9. S!In(new) = S!In(s)
  BY <1>1, <1>4, <1>5, NoneIsNoTx DEF S!In
<1> QED
  BY <1>1, <1>7, <1>8, <1>9 DEF Fits

LEMMA RemoveFits ==
  ASSUME NEW s, Fits(s), NEW gone \in SUBSET Entries
  PROVE  LET new == S!RemoveAll(s, gone)
         IN /\ Fits(new) /\ S!In(new) = S!In(s) \ gone /\ new.watched = s.watched \ gone
<1>1. /\ s.txs \in [Entries -> Txs \cup {None}] /\ s.watched \in SUBSET Entries
      /\ s.watched \subseteq S!In(s)
  BY DEF Fits, StoreType
<1> PICK txs : txs = [e \in Entries |-> IF e \in gone THEN None ELSE s.txs[e]]
  OBVIOUS
<1> PICK new : new = [txs |-> txs, watched |-> s.watched \ gone]
  OBVIOUS
<1>2. S!RemoveAll(s, gone) = new
  BY DEF S!RemoveAll
<1>3. new \in StoreType
  BY <1>1, StoreShape
<1>4. S!In(new) = S!In(s) \ gone
  BY DEF S!In
<1> QED
  BY <1>1, <1>2, <1>3, <1>4 DEF Fits

LEMMA SeedFits ==
  ASSUME NEW s, Fits(s), NEW d \in [Entries -> Txs \cup {None}]
  PROVE  LET new == Seeded(s, d)
         IN /\ Fits(new) /\ S!In(new) = S!In(s) \cup {e \in Entries : d[e] # None}
            /\ new.watched = s.watched
<1>1. /\ s.txs \in [Entries -> Txs \cup {None}] /\ s.watched \in SUBSET Entries
      /\ s.watched \subseteq S!In(s)
      /\ s = [txs |-> s.txs, watched |-> s.watched]
  BY DEF Fits, StoreType
<1>2. ASSUME NEW tx \in Txs PROVE Rehydrated(tx) \in Txs
  <2>1. "lost" \in S!Statuses
    BY DEF S!Statuses, S!Terminal
  <2> QED
    BY <2>1 DEF Rehydrated, Txs
<1> PICK txs : txs = [e \in Entries |-> IF e \in Missing(s, d) THEN Rehydrated(d[e])
                                        ELSE s.txs[e]]
  OBVIOUS
<1> PICK new : new = [txs |-> txs, watched |-> s.watched]
  OBVIOUS
<1>3. Seeded(s, d) = new
  BY <1>1 DEF Seeded
<1>4. \A e \in Missing(s, d) : e \in Entries /\ d[e] \in Txs
  BY DEF Missing
<1>5. txs \in [Entries -> Txs \cup {None}]
  BY <1>1, <1>2, <1>4
<1>6. new \in StoreType
  BY <1>1, <1>5, StoreShape
<1>7. S!In(new) = S!In(s) \cup {e \in Entries : d[e] # None}
  <2>1. ASSUME NEW e \in Entries PROVE txs[e] # None <=> s.txs[e] # None \/ d[e] # None
    <3>1. CASE e \in Missing(s, d)
      BY <1>2, <1>4, <3>1, NoneIsNoTx
    <3>2. CASE e \notin Missing(s, d)
      BY <3>2 DEF Missing
    <3> QED
      BY <3>1, <3>2
  <2> QED
    BY <2>1 DEF S!In
<1> QED
  BY <1>1, <1>3, <1>6, <1>7 DEF Fits

-----------------------------------------------------------------------------
\* What the operations make of the stores and of the watchers that run.

Stocked == TypeOK /\ WatchersOwned

LEMMA StoresFit == Stocked => \A g \in Stores : Fits(store[g])
  BY DEF Stocked, TypeOK, WatchersOwned, Fits, StoreType

\* The stores and the watchers keep their types, and own each other.
StoresSound ==
  /\ store \in [Stores -> StoreType] /\ live \in [Refs -> Int]
  /\ WatchersOwned

\* Those that run for a store's entries afterwards are those it knows of.
Follow(g, s) ==
  \A h \in Stores, e \in Entries :
    live'[<<h, e>>] = IF h = g THEN IF e \in s.watched THEN 1 ELSE 0 ELSE live[<<h, e>>]

\* One store is replaced by one that fits, and the watchers follow.
LEMMA OneStore ==
  ASSUME Stocked, NEW g \in Stores, NEW s, Fits(s), store' = [store EXCEPT ![g] = s],
         live' \in [Refs -> Int], Follow(g, s)
  PROVE  /\ StoresSound' /\ store'[g] = s
         /\ \A h \in Stores : h # g => store'[h] = store[h]
<1>1. /\ store' \in [Stores -> StoreType] /\ store'[g] = s
      /\ \A h \in Stores : h # g => store'[h] = store[h]
  BY DEF Stocked, TypeOK, Fits
<1>2. WatchersOwned'
  <2> SUFFICES ASSUME NEW h \in Stores, NEW e \in Entries
               PROVE  /\ live'[<<h, e>>] = IF e \in store'[h].watched THEN 1 ELSE 0
                      /\ e \in store'[h].watched => e \in S!In(store'[h])
    BY DEF WatchersOwned
  <2>1. CASE h = g
    BY <1>1, <2>1 DEF Fits, Follow
  <2>2. CASE h # g
    BY <1>1, <2>2 DEF Stocked, WatchersOwned, Follow
  <2> QED
    BY <2>1, <2>2
<1> QED
  BY <1>1, <1>2 DEF StoresSound

LEMMA AddSound ==
  ASSUME Stocked, NEW g \in Stores, NEW e \in Entries, NEW tx \in Txs, NEW watcher \in BOOLEAN,
         AddWithTx(g, e, tx, watcher)
  PROVE  /\ StoresSound' /\ S!In(store'[g]) = S!In(store[g]) \cup {e}
         /\ \A h \in Stores : h # g => S!In(store'[h]) = S!In(store[h])
         /\ saveDue' = (saveDue \/ g = mounted)
<1> PICK s : s = S!AddReducer(store[g], e, tx, watcher)
  OBVIOUS
<1>1. Fits(store[g]) /\ live \in [Refs -> Int]
  BY StoresFit DEF Stocked, TypeOK
<1>2. /\ Fits(s) /\ S!In(s) = S!In(store[g]) \cup {e}
      /\ e \in s.watched <=> watcher
      /\ \A f \in Entries \ {e} : f \in s.watched <=> f \in store[g].watched
  BY <1>1, AddFits
<1>3. store' = [store EXCEPT ![g] = s] /\ saveDue' = (saveDue \/ g = mounted)
  BY DEF AddWithTx, SetState
<1> PICK n \in Int : n = live[<<g, e>>] - (IF e \in store[g].watched THEN 1 ELSE 0)
                                        + (IF watcher THEN 1 ELSE 0)
  BY <1>1 DEF Refs
<1>4. live' = [live EXCEPT ![<<g, e>>] = n]
  BY DEF AddWithTx
<1>5. /\ live' \in [Refs -> Int] /\ live'[<<g, e>>] = n
      /\ \A r \in Refs : r # <<g, e>> => live'[r] = live[r]
  BY <1>1, <1>4 DEF Refs
<1>6. \A h \in Stores, f \in Entries : live[<<h, f>>] = IF f \in store[h].watched THEN 1 ELSE 0
  BY DEF Stocked, WatchersOwned
<1>7. n = IF watcher THEN 1 ELSE 0
  BY <1>6
<1>8. ASSUME NEW h \in Stores, NEW f \in Entries
      PROVE  live'[<<h, f>>] = IF h = g THEN IF f \in s.watched THEN 1 ELSE 0
                               ELSE live[<<h, f>>]
  <2>1. CASE h = g /\ f = e
    BY <1>2, <1>5, <1>7, <2>1
  <2>2. CASE ~(h = g /\ f = e)
    <3>1. live'[<<h, f>>] = live[<<h, f>>]
      BY <1>5, <2>2 DEF Refs
    <3> QED
      BY <1>2, <1>6, <2>2, <3>1
  <2> QED
    BY <2>1, <2>2
<1>9. Follow(g, s)
  BY <1>8 DEF Follow
<1>10. /\ StoresSound' /\ store'[g] = s
      /\ \A h \in Stores : h # g => store'[h] = store[h]
  BY <1>2, <1>3, <1>5, <1>9, OneStore
<1> QED
  BY <1>2, <1>3, <1>10

LEMMA UpdateSound ==
  ASSUME Stocked, NEW g \in Stores, NEW e \in Entries, NEW status \in S!Statuses,
         Update(g, e, status), live' = live
  PROVE  /\ StoresSound' /\ \A h \in Stores : S!In(store'[h]) = S!In(store[h])
         /\ saveDue' => saveDue \/ g = mounted
<1>1. Fits(store[g]) /\ live \in [Refs -> Int] /\ now \in Nat
  BY StoresFit DEF Stocked, TypeOK, PageTypes
<1>2. CASE e \in S!In(store[g])
  <2> PICK s : s = S!UpdateReducer(store[g], e, status, now)
    OBVIOUS
  <2>1. Fits(s) /\ S!In(s) = S!In(store[g]) /\ s.watched = store[g].watched
    BY <1>1, <1>2, UpdateFits
  <2>2. store' = [store EXCEPT ![g] = s] /\ saveDue' = (saveDue \/ g = mounted)
    BY <1>2 DEF Update, SetState
  <2>3. Follow(g, s)
    BY <2>1 DEF Stocked, WatchersOwned, Follow
  <2>4. /\ StoresSound' /\ store'[g] = s
        /\ \A h \in Stores : h # g => store'[h] = store[h]
    BY <1>1, <2>1, <2>2, <2>3, OneStore
  <2> QED
    BY <2>1, <2>2, <2>4
<1>3. CASE e \notin S!In(store[g])
  BY <1>3 DEF Update, Stocked, TypeOK, StoresSound, WatchersOwned
<1> QED
  BY <1>2, <1>3

LEMMA TakeOffSound ==
  ASSUME Stocked, NEW g \in Stores, NEW s, Fits(s), s.watched \subseteq store[g].watched,
         S!In(s) \subseteq S!In(store[g]), TakeOff(g, s)
  PROVE  /\ StoresSound' /\ S!In(store'[g]) = S!In(s)
         /\ \A h \in Stores : h # g => S!In(store'[h]) = S!In(store[h])
         /\ saveDue' = (saveDue \/ g = mounted)
         /\ removed' = [removed EXCEPT ![g] = @ \cup (S!In(store[g]) \ S!In(s))]
         /\ kept' = IF g = mounted THEN kept \ (S!In(store[g]) \ S!In(s)) ELSE kept
<1>1. store' = [store EXCEPT ![g] = s] /\ saveDue' = (saveDue \/ g = mounted)
  BY DEF TakeOff, SetState
<1>2. /\ removed' = [removed EXCEPT ![g] = @ \cup (S!In(store[g]) \ S!In(s))]
      /\ kept' = IF g = mounted THEN kept \ (S!In(store[g]) \ S!In(s)) ELSE kept
      /\ live' = [r \in Refs |->
           live[r] - IF r[1] = g /\ r[2] \in store[g].watched \ s.watched THEN 1 ELSE 0]
  BY DEF TakeOff
<1>3. live \in [Refs -> Int]
  BY DEF Stocked, TypeOK
<1>4. live' \in [Refs -> Int]
  BY <1>2, <1>3
<1>5. ASSUME NEW h \in Stores, NEW f \in Entries
      PROVE  live'[<<h, f>>] = IF h = g THEN IF f \in s.watched THEN 1 ELSE 0
                               ELSE live[<<h, f>>]
  <2>1. live'[<<h, f>>] =
          live[<<h, f>>] - IF h = g /\ f \in store[g].watched \ s.watched THEN 1 ELSE 0
    BY <1>2 DEF Refs
  <2>2. live[<<h, f>>] = IF f \in store[h].watched THEN 1 ELSE 0
    BY DEF Stocked, WatchersOwned
  <2> QED
    BY <2>1, <2>2
<1>6. /\ StoresSound' /\ store'[g] = s
      /\ \A h \in Stores : h # g => store'[h] = store[h]
  <2>1. Follow(g, s)
    BY <1>5 DEF Follow
  <2> QED
    BY <1>1, <1>4, <2>1, OneStore
<1> QED
  BY <1>1, <1>2, <1>6

-----------------------------------------------------------------------------
\* What a step must leave alone for the page to stay as it is.

Ready == AnswersFirst => loading = {}

LEMMA StoresOf ==
  ASSUME PageTypes
  PROVE  /\ made \in Nat /\ \A g \in Stores : g \in Int /\ g # Nobody
         /\ mounted # Nobody => mounted \in Stores /\ mounted <= made
         /\ hook # Nobody => hook \in Stores /\ hook <= made
<1>1. MaxStores \in Nat /\ made \in 0..MaxStores /\ mounted \in 0..made /\ hook \in 0..made
  BY FlightAssumption DEF PageTypes
<1> QED
  BY <1>1 DEF Stores, Nobody

\* No strip gains or loses an entry, and no save becomes due before the load.
SameStrips ==
  /\ \A g \in Stores : S!In(store'[g]) = S!In(store[g])
  /\ UNCHANGED <<mounted, made, loading, disk, used, kept, removed>>
  /\ adding' \subseteq adding
  /\ saveDue' => saveDue \/ (mounted # Nobody /\ Ready)

LEMMA SameKeeps ==
  ASSUME Inv, StoresSound', PageTypes', SameStrips
  PROVE  Inv'
<1>1. TypeOK' /\ WatchersOwned'
  BY DEF TypeOK, StoresSound
<1>2. Saved' = Saved
  BY DEF SameStrips, Saved
<1>3. Created'
  <2>1. saveDue' => mounted' # Nobody
    BY DEF Inv, PageInv, Created, SameStrips
  <2> QED
    BY <1>2, <2>1 DEF Inv, PageInv, Created, SameStrips
<1>4. ASSUME AnswersFirst PROVE LoadedFirst' /\ RemovedStays' /\ SavedKept'
  <2>1. LoadedFirst /\ RemovedStays /\ SavedKept
    BY <1>4 DEF Inv, LoadInv
  <2>2. mounted # Nobody => mounted \in Stores
    BY StoresOf DEF Inv, PageInv, TypeOK
  <2>3. LoadedFirst'
    BY <1>4, <2>1, <2>2 DEF LoadedFirst, SameStrips, Ready
  <2>4. RemovedStays'
    BY <2>1 DEF RemovedStays, SameStrips
  <2>5. SavedKept'
    BY <2>1 DEF SavedKept, SameStrips
  <2> QED
    BY <2>3, <2>4, <2>5
<1> QED
  BY <1>1, <1>3, <1>4 DEF Inv, PageInv, LoadInv

\* An entry that is on no strip, or on this one, is put on it.
PutOn(g, e) ==
  /\ S!In(store'[g]) = S!In(store[g]) \cup {e}
  /\ \A h \in Stores : h # g => S!In(store'[h]) = S!In(store[h])
  /\ UNCHANGED <<mounted, made, loading, disk, kept>>
  /\ used' = used \cup {e}
  /\ adding' \subseteq adding /\ \A r \in adding' : r[2] # e
  /\ e \notin removed'[g] /\ \A h \in Stores : removed'[h] \subseteq removed[h]
  /\ Ready /\ (saveDue' => saveDue \/ g = mounted)

LEMMA PutOnKeeps ==
  ASSUME Inv, StoresSound', PageTypes', NEW g \in Stores, NEW e \in Entries, PutOn(g, e)
  PROVE  Inv'
<1>1. TypeOK' /\ WatchersOwned'
  BY DEF TypeOK, StoresSound
<1>2. Saved' = Saved
  BY DEF PutOn, Saved
<1>3. Created'
  <2>1. IsFiniteSet(used)
    BY DEF Inv, PageInv, Created
  <2>2. IsFiniteSet(used')
    BY <2>1, FS_AddElement DEF PutOn
  <2>3. \A h \in Stores : S!In(store'[h]) \subseteq used' /\ removed'[h] \subseteq used'
    BY DEF Inv, PageInv, Created, PutOn
  <2>4. Saved' \subseteq used' /\ (saveDue' => mounted' # Nobody)
    BY <1>2 DEF Inv, PageInv, Created, PutOn, Stores, Nobody
  <2>5. ASSUME NEW r \in adding'
        PROVE  /\ r[2] \in used' \ Saved'
               /\ \A h \in Stores : r[2] \notin S!In(store'[h]) \cup removed'[h]
               /\ \A s \in adding' : s[2] = r[2] => s = r
    <3>1. /\ r \in adding /\ r[2] # e /\ r[2] \in used \ Saved
          /\ \A h \in Stores : r[2] \notin S!In(store[h]) \cup removed[h]
          /\ \A s \in adding : s[2] = r[2] => s = r
      BY DEF Inv, PageInv, Created, PutOn
    <3> QED
      BY <1>2, <3>1 DEF PutOn
  <2> QED
    BY <2>2, <2>3, <2>4, <2>5 DEF Created
<1>4. ASSUME AnswersFirst PROVE LoadedFirst' /\ RemovedStays' /\ SavedKept'
  <2>1. LoadedFirst /\ RemovedStays /\ SavedKept
    BY <1>4 DEF Inv, LoadInv
  <2>2. mounted # Nobody => mounted \in Stores
    BY StoresOf DEF Inv, PageInv, TypeOK
  <2>3. loading = {} /\ loading' = {} /\ g # Nobody
    BY <1>4 DEF PutOn, Ready, Stores, Nobody
  <2>4. LoadedFirst'
    BY <2>1, <2>2, <2>3 DEF LoadedFirst, PutOn
  <2>5. RemovedStays'
    BY <2>1 DEF RemovedStays, PutOn
  <2>6. SavedKept'
    BY <2>1 DEF SavedKept, PutOn
  <2> QED
    BY <2>4, <2>5, <2>6
<1> QED
  BY <1>1, <1>3, <1>4 DEF Inv, PageInv, LoadInv

\* Entries are taken off a strip, and off what is to be kept if it is mounted.
TakenOff(g) ==
  /\ S!In(store'[g]) \subseteq S!In(store[g])
  /\ \A h \in Stores : h # g => S!In(store'[h]) = S!In(store[h])
  /\ UNCHANGED <<mounted, made, loading, disk, used, adding>>
  /\ removed' = [removed EXCEPT ![g] = @ \cup (S!In(store[g]) \ S!In(store'[g]))]
  /\ kept' = IF g = mounted THEN kept \ (S!In(store[g]) \ S!In(store'[g])) ELSE kept
  /\ g <= made /\ Ready /\ (saveDue' => saveDue \/ g = mounted)

LEMMA TakenOffKeeps ==
  ASSUME Inv, StoresSound', PageTypes', NEW g \in Stores, TakenOff(g)
  PROVE  Inv'
<1>1. TypeOK' /\ WatchersOwned'
  BY DEF TypeOK, StoresSound
<1>2. Saved' = Saved
  BY DEF TakenOff, Saved
<1>3. /\ removed'[g] = removed[g] \cup (S!In(store[g]) \ S!In(store'[g]))
      /\ \A h \in Stores : h # g => removed'[h] = removed[h]
  BY DEF Inv, PageInv, TypeOK, PageTypes, TakenOff
<1>4. \A h \in Stores : S!In(store'[h]) \subseteq S!In(store[h])
  BY DEF TakenOff
<1>5. Created'
  <2>1. \A h \in Stores : S!In(store'[h]) \subseteq used' /\ removed'[h] \subseteq used'
    BY <1>3, <1>4 DEF Inv, PageInv, Created, TakenOff
  <2>2. ASSUME NEW r \in adding', NEW h \in Stores
        PROVE  r[2] \notin S!In(store'[h]) \cup removed'[h]
    <3>1. r \in adding
      BY DEF TakenOff
    <3>2. r[2] \notin S!In(store[h]) \cup removed[h]
      BY <3>1 DEF Inv, PageInv, Created
    <3> QED
      BY <1>3, <1>4, <3>2
  <2>3. saveDue' => mounted' # Nobody
    BY DEF Inv, PageInv, Created, TakenOff, Stores, Nobody
  <2> QED
    BY <1>2, <2>1, <2>2, <2>3 DEF Inv, PageInv, Created, TakenOff
<1>6. ASSUME AnswersFirst PROVE LoadedFirst' /\ RemovedStays' /\ SavedKept'
  <2>1. LoadedFirst /\ RemovedStays /\ SavedKept
    BY <1>6 DEF Inv, LoadInv
  <2>2. /\ mounted # Nobody => mounted \in Stores
        /\ made \in Int /\ g \in Int
    BY StoresOf DEF Inv, PageInv, TypeOK
  <2>3. loading = {} /\ loading' = {} /\ g # Nobody /\ made' = made /\ mounted' = mounted
    BY <1>6 DEF TakenOff, Ready, Stores, Nobody
  <2>4. \A h \in Stores : h > made' \/ h \in loading' => removed'[h] = {}
    <3>1. ~(g > made)
      BY <2>2 DEF TakenOff
    <3> QED
      BY <1>3, <2>1, <2>3, <3>1 DEF LoadedFirst
  <2>5. mounted # Nobody => kept' \subseteq S!In(store'[mounted])
    <3>1. CASE g = mounted
      BY <2>1, <2>2, <2>3, <3>1 DEF LoadedFirst, TakenOff
    <3>2. CASE g # mounted
      BY <2>1, <2>2, <2>3, <3>2 DEF LoadedFirst, TakenOff
    <3> QED
      BY <3>1, <3>2
  <2>6. RemovedStays'
    <3> SUFFICES ASSUME NEW h \in Stores PROVE removed'[h] \cap S!In(store'[h]) = {}
      BY DEF RemovedStays
    <3>1. removed[h] \cap S!In(store[h]) = {}
      BY <2>1 DEF RemovedStays
    <3>2. removed'[h] \subseteq removed[h] \cup (S!In(store[h]) \ S!In(store'[h]))
      BY <1>3
    <3> QED
      BY <1>4, <3>1, <3>2
  <2>7. SavedKept'
    BY <2>1 DEF SavedKept, TakenOff
  <2> QED
    BY <2>3, <2>4, <2>5, <2>6, <2>7 DEF LoadedFirst
<1> QED
  BY <1>1, <1>5, <1>6 DEF Inv, PageInv, LoadInv

-----------------------------------------------------------------------------
\* The steps that leave the strips as they are.

LEMMA InvParts ==
  ASSUME Inv
  PROVE  /\ Stocked /\ PageTypes /\ Created /\ StoresSound
         /\ \A g \in Stores : Fits(store[g])
  BY StoresFit DEF Inv, PageInv, TypeOK, Stocked, StoresSound

LEMMA StoresStill ==
  ASSUME Inv, UNCHANGED <<store, live>>
  PROVE  StoresSound' /\ \A g \in Stores : S!In(store'[g]) = S!In(store[g])
  BY InvParts DEF StoresSound, WatchersOwned

\* A step that touches neither stores nor watchers nor what is kept of them.
LEMMA Aside ==
  ASSUME Inv, UNCHANGED <<store, live, mounted, made, loading, disk, used, kept, removed, saveDue>>,
         adding' \subseteq adding, PageTypes'
  PROVE  Inv'
<1>1. SameStrips
  BY StoresStill DEF SameStrips
<1> QED
  BY <1>1, StoresStill, SameKeeps

LEMMA RerenderKeeps == ASSUME Inv, Rerender PROVE Inv'
  BY InvParts, Aside DEF Rerender, calls, world, saved, ghosts, PageTypes

LEMMA JoinKeeps == ASSUME Inv, Join PROVE Inv'
<1>1. PageTypes'
  BY InvParts DEF Join, calls, world, saved, ghosts, PageTypes
<1> QED
  BY <1>1, Aside DEF Join, calls, world, saved, ghosts

LEMMA TickKeeps == ASSUME Inv, Tick PROVE Inv'
<1>1. PageTypes'
  BY InvParts DEF Tick, provider, calls, world, saved, ghosts, PageTypes
<1> QED
  BY <1>1, Aside DEF Tick, provider, calls, world, saved, ghosts

LEMMA WatcherFailsKeeps == ASSUME Inv, NEW r \in adding \cup resuming, WatcherFails(r) PROVE Inv'
<1>1. PageTypes'
  BY InvParts DEF WatcherFails, provider, world, saved, ghosts, PageTypes
<1> QED
  BY <1>1, Aside DEF WatcherFails, provider, world, saved, ghosts

LEMMA ReplaceKeeps == ASSUME Inv, NEW e \in Entries, Replace(e) PROVE Inv'
<1>1. <<hook, e>> \in Refs
  BY InvParts, StoresOf DEF Replace, Refs
<1>2. PageTypes'
  BY <1>1, InvParts DEF Replace, provider, world, saved, ghosts, PageTypes
<1> QED
  BY <1>2, Aside DEF Replace, provider, world, saved, ghosts

LEMMA ReplaceFailsKeeps == ASSUME Inv, NEW r \in replacing, ReplaceFails(r) PROVE Inv'
<1>1. PageTypes'
  BY InvParts DEF ReplaceFails, provider, world, saved, ghosts, PageTypes
<1> QED
  BY <1>1, Aside DEF ReplaceFails, provider, world, saved, ghosts

\* A wallet request goes from stage to stage, and keeps its store.
LEMMA StageTypes ==
  ASSUME Inv, NEW e \in Sent, NEW from, NEW to \in Stages, Stage(e, from, to)
  PROVE  wallet' \in [Sent -> [stage : Stages, store : 0..MaxStores]]
<1>1. wallet \in [Sent -> [stage : Stages, store : 0..MaxStores]]
  BY InvParts DEF PageTypes
<1> PICK request : request = [wallet[e] EXCEPT !.stage = to]
  OBVIOUS
<1>2. request \in [stage : Stages, store : 0..MaxStores]
  BY <1>1
<1>3. wallet' = [wallet EXCEPT ![e] = request]
  BY DEF Stage
<1> QED
  BY <1>1, <1>2, <1>3

LEMMA WalletAside ==
  ASSUME Inv, NEW e \in Sent,
         OrphanSigned(e) \/ ReceiptArrives(e) \/ BlockFails(e)
  PROVE  Inv'
<1>1. UNCHANGED <<store, provider, live, calls, used, saved, now, ghosts>>
  BY DEF OrphanSigned, ReceiptArrives, BlockFails
<1>2. \E from, to \in Stages : Stage(e, from, to)
  BY DEF OrphanSigned, ReceiptArrives, BlockFails, Stages
<1>3. wallet' \in [Sent -> [stage : Stages, store : 0..MaxStores]]
  BY <1>2, StageTypes
<1>4. PageTypes'
  BY <1>1, <1>3, InvParts DEF provider, calls, saved, ghosts, PageTypes
<1> QED
  BY <1>1, <1>4, Aside DEF provider, calls, saved, ghosts

\* An entry that is on a strip gets a patch, and no watcher.
LEMMA Patched ==
  ASSUME Inv, NEW g \in Stores, NEW e \in Entries, NEW status \in S!Statuses,
         Update(g, e, status), Ready,
         UNCHANGED <<live, mounted, made, loading, disk, used, kept, removed>>,
         adding' \subseteq adding, PageTypes'
  PROVE  Inv'
<1>1. /\ StoresSound' /\ \A h \in Stores : S!In(store'[h]) = S!In(store[h])
      /\ saveDue' => saveDue \/ g = mounted
  BY InvParts, UpdateSound
<1>2. g # Nobody
  BY InvParts, StoresOf
<1>3. SameStrips
  BY <1>1, <1>2 DEF SameStrips
<1> QED
  BY <1>1, <1>3, SameKeeps

\* Update touches the stores and the save only.
LEMMA SaveType ==
  ASSUME Inv, NEW g, NEW e, NEW status, Update(g, e, status)
  PROVE  saveDue' \in BOOLEAN
  BY InvParts DEF Update, SetState, PageTypes

LEMMA ObserveKeeps == ASSUME Inv, Ready, NEW r \in Refs, NEW ev \in Events, Observe(r, ev) PROVE Inv'
<1>1. r[1] \in Stores /\ r[2] \in Entries
  BY DEF Refs
<1> PICK status : status = PatchFromTxEvent(ev)
  OBVIOUS
<1>2. status \in S!Statuses
  <2>1. ev.kind \in {"seen-in-mempool", "seen-in-block", "vanished-from-block",
                     "replaced-by", "unseen-for-N-blocks"}
    BY DEF Events, Event
  <2> QED
    BY <2>1 DEF PatchFromTxEvent, S!Statuses, S!Terminal
<1>3. /\ Update(r[1], r[2], status)
      /\ UNCHANGED <<provider, live, calls, world, disk, now, ghosts>>
  BY DEF Observe
<1>4. PageTypes'
  BY <1>3, InvParts, SaveType DEF provider, calls, world, ghosts, PageTypes
<1> QED
  BY <1>1, <1>2, <1>3, <1>4, Patched DEF provider, calls, world, ghosts

LEMMA ReplacedKeeps == ASSUME Inv, Ready, NEW r \in replacing, Replaced(r) PROVE Inv'
<1>1. r \in Refs /\ r[1] \in Stores /\ r[2] \in Entries
  BY InvParts DEF PageTypes, Refs
<1>2. "replaced" \in S!Statuses
  BY DEF S!Statuses, S!Terminal
<1>3. PageTypes'
  BY InvParts, SaveType DEF Replaced, provider, world, ghosts, PageTypes
<1> QED
  BY <1>1, <1>2, <1>3, Patched DEF Replaced, provider, world, ghosts

LEMMA HookedKeeps ==
  ASSUME Inv, Ready, NEW e \in Sent, NEW from, NEW to \in Stages, NEW status \in S!Statuses,
         Hooked(e, from, to, status)
  PROVE  Inv'
<1> PICK g : g = wallet[e].store
  OBVIOUS
<1>1. /\ Stage(e, from, to) /\ g # Nobody /\ Update(g, e, status)
      /\ UNCHANGED <<provider, live, calls, used, disk, now, ghosts>>
  BY DEF Hooked
<1>2. g \in Stores /\ e \in Entries
  <2>1. g \in 0..MaxStores
    BY InvParts DEF PageTypes
  <2> QED
    BY <1>1, <2>1, FlightAssumption DEF Stores, Nobody, Entries
<1>3. wallet' \in [Sent -> [stage : Stages, store : 0..MaxStores]]
  BY <1>1, StageTypes
<1>4. saveDue' \in BOOLEAN
  BY <1>1, SaveType
<1>5. PageTypes'
  BY <1>1, <1>3, <1>4, InvParts DEF provider, calls, ghosts, PageTypes
<1> QED
  BY <1>1, <1>2, <1>5, Patched DEF provider, calls, ghosts

LEMMA WalletKeeps ==
  ASSUME Inv, Ready, NEW e \in Sent,
         \/ OnAwaitingSignature(e) \/ OnTransactionHash(e) \/ OnRejected(e)
         \/ OnReceiptError(e) \/ OnConfirmed(e) \/ OnReverted(e)
  PROVE  Inv'
<1>1. \E from, to \in Stages, status \in S!Statuses : Hooked(e, from, to, status)
  BY DEF OnAwaitingSignature, OnTransactionHash, OnRejected, OnReceiptError, OnConfirmed,
         OnReverted, Stages, S!Statuses, S!Terminal
<1> QED
  BY <1>1, HookedKeeps

\* A resumed entry gets its watcher if it is still there.
LEMMA ResumedKeeps == ASSUME Inv, Ready, NEW r \in resuming, Resumed(r) PROVE Inv'
<1> PICK g, e : g = r[1] /\ e = r[2]
  OBVIOUS
<1>1. r = <<g, e>> /\ g \in Stores /\ e \in Entries
  BY InvParts DEF PageTypes, Refs
<1> PICK tx : tx = store[g].txs[e]
  OBVIOUS
<1>2. /\ resuming' = resuming \ {r}
      /\ UNCHANGED <<provider, adding, replacing, world, disk, now, ghosts>>
      /\ IF tx = None THEN UNCHANGED <<store, live, saveDue>> ELSE AddWithTx(g, e, tx, TRUE)
  BY DEF Resumed
<1>3. CASE tx = None
  <2>1. PageTypes'
    BY <1>2, <1>3, InvParts DEF provider, world, ghosts, PageTypes
  <2> QED
    BY <1>2, <1>3, <2>1, Aside DEF provider, world, ghosts
<1>4. CASE tx # None
  <2>1. tx \in Txs /\ e \in S!In(store[g])
    BY <1>1, <1>4, InvParts DEF Fits, StoreType, S!In
  <2>2. /\ StoresSound' /\ S!In(store'[g]) = S!In(store[g]) \cup {e}
        /\ \A h \in Stores : h # g => S!In(store'[h]) = S!In(store[h])
        /\ saveDue' = (saveDue \/ g = mounted)
    BY <1>1, <1>2, <1>4, <2>1, InvParts, AddSound
  <2>3. PageTypes'
    BY <1>2, <2>2, InvParts DEF provider, world, ghosts, PageTypes
  <2>4. \A h \in Stores : S!In(store'[h]) = S!In(store[h])
    BY <2>1, <2>2
  <2>5. g # Nobody
    BY <1>1, InvParts, StoresOf
  <2>6. SameStrips
    BY <1>2, <2>2, <2>4, <2>5 DEF SameStrips, provider, world, ghosts
  <2> QED
    BY <2>2, <2>3, <2>6, SameKeeps
<1> QED
  BY <1>3, <1>4

-----------------------------------------------------------------------------
\* The consumer's calls, and eviction.

LEMMA AddByHashKeeps == ASSUME Inv, NEW e \in Watched, AddByHash(e) PROVE Inv'
<1>1. /\ hook # Nobody /\ e \notin used /\ e \in Entries
      /\ used' = used \cup {e} /\ adding' = adding \cup {<<hook, e>>}
      /\ UNCHANGED <<store, live, mounted, refs, made, hook, loading, resuming, replacing,
                     wallet, saveDue, disk, now, kept, removed>>
  BY DEF AddByHash, provider, saved, ghosts, Entries
<1>2. <<hook, e>> \in Refs
  BY <1>1, InvParts, StoresOf DEF Refs
<1>3. PageTypes'
  BY <1>1, <1>2, InvParts DEF PageTypes
<1>4. TypeOK' /\ WatchersOwned'
  BY <1>1, <1>3, InvParts, StoresStill DEF TypeOK, StoresSound
<1>5. Saved' = Saved /\ \A g \in Stores : S!In(store'[g]) = S!In(store[g])
  BY <1>1 DEF Saved
<1>6. Created'
  <2>1. IsFiniteSet(used')
    BY <1>1, InvParts, FS_AddElement DEF Created
  <2>2. ASSUME NEW r \in adding'
        PROVE  /\ r[2] \in used' \ Saved'
               /\ \A g \in Stores : r[2] \notin S!In(store'[g]) \cup removed'[g]
               /\ \A s \in adding' : s[2] = r[2] => s = r
    <3>1. CASE r \in adding
      <4>1. /\ r[2] \in used \ Saved
            /\ \A g \in Stores : r[2] \notin S!In(store[g]) \cup removed[g]
            /\ \A s \in adding : s[2] = r[2] => s = r
        BY <3>1, InvParts DEF Created
      <4> QED
        BY <1>1, <1>5, <4>1
    <3>2. CASE r = <<hook, e>>
      <4>1. Saved \subseteq used /\ \A s \in adding : s[2] \in used
        BY InvParts DEF Created
      <4>2. \A g \in Stores : S!In(store[g]) \subseteq used /\ removed[g] \subseteq used
        BY InvParts DEF Created
      <4> QED
        BY <1>1, <1>5, <3>2, <4>1, <4>2
    <3> QED
      BY <1>1, <3>1, <3>2
  <2>3. /\ Saved' \subseteq used' /\ (saveDue' => mounted' # Nobody)
        /\ \A g \in Stores : S!In(store'[g]) \subseteq used' /\ removed'[g] \subseteq used'
    BY <1>1, <1>5, InvParts DEF Created
  <2> QED
    BY <2>1, <2>2, <2>3 DEF Created
<1>7. LoadInv'
  BY <1>1, <1>5 DEF Inv, LoadInv, LoadedFirst, RemovedStays, SavedKept
<1> QED
  BY <1>4, <1>6, <1>7 DEF Inv, PageInv

\* The entry a call of addByHash brings was never on a strip.
LEMMA AddedKeeps == ASSUME Inv, Ready, NEW r \in adding, Added(r) PROVE Inv'
<1> PICK g, e : g = r[1] /\ e = r[2]
  OBVIOUS
<1>1. r = <<g, e>> /\ g \in Stores /\ e \in Entries
  BY InvParts DEF PageTypes, Refs
<1> PICK tx : tx = S!NewTx("pending", now)
  OBVIOUS
<1>2. /\ adding' = adding \ {r} /\ AddWithTx(g, e, tx, TRUE)
      /\ UNCHANGED <<provider, resuming, replacing, world, disk, now, ghosts>>
  BY DEF Added
<1>3. tx \in Txs
  BY InvParts, NewTxType DEF PageTypes, S!Statuses
<1>4. /\ StoresSound' /\ S!In(store'[g]) = S!In(store[g]) \cup {e}
      /\ \A h \in Stores : h # g => S!In(store'[h]) = S!In(store[h])
      /\ saveDue' = (saveDue \/ g = mounted)
  BY <1>1, <1>2, <1>3, InvParts, AddSound
<1>5. PageTypes'
  BY <1>2, <1>4, InvParts DEF provider, world, ghosts, PageTypes
<1>6. /\ e \in used /\ e \notin removed[g] /\ \A s \in adding : s[2] = e => s = r
  BY <1>1, InvParts DEF Created
<1>7. PutOn(g, e)
  BY <1>2, <1>4, <1>6 DEF PutOn, provider, world, ghosts
<1> QED
  BY <1>1, <1>4, <1>5, <1>7, PutOnKeeps

LEMMA AddManualKeeps ==
  ASSUME Inv, Ready, NEW e \in Watched, NEW status \in Manual, AddManual(e, status)
  PROVE  Inv'
<1> PICK g, tx : g = hook /\ tx = S!NewTx(status, now)
  OBVIOUS
<1>1. /\ g # Nobody /\ (e \in used => e \in S!In(store[g]))
      /\ used' = used \cup {e} /\ AddWithTx(g, e, tx, FALSE)
      /\ removed' = [removed EXCEPT ![g] = @ \ {e}]
      /\ UNCHANGED <<provider, calls, wallet, disk, now, kept>>
  BY DEF AddManual
<1>2. g \in Stores /\ e \in Entries /\ tx \in Txs
  BY <1>1, InvParts, StoresOf, NewTxType, FlightAssumption DEF Entries, PageTypes
<1>3. /\ StoresSound' /\ S!In(store'[g]) = S!In(store[g]) \cup {e}
      /\ \A h \in Stores : h # g => S!In(store'[h]) = S!In(store[h])
      /\ saveDue' = (saveDue \/ g = mounted)
  BY <1>1, <1>2, InvParts, AddSound
<1>4. /\ removed' \in [Stores -> SUBSET Entries] /\ e \notin removed'[g]
      /\ \A h \in Stores : removed'[h] \subseteq removed[h]
  BY <1>1, <1>2, InvParts DEF PageTypes
<1>5. PageTypes'
  BY <1>1, <1>2, <1>3, <1>4, InvParts DEF provider, calls, PageTypes
<1>6. \A r \in adding : r[2] # e
  BY <1>1, <1>2, InvParts DEF Created
<1>7. PutOn(g, e)
  BY <1>1, <1>3, <1>4, <1>6 DEF PutOn, provider, calls
<1> QED
  BY <1>2, <1>3, <1>5, <1>7, PutOnKeeps

LEMMA AddWithWalletAdapterKeeps ==
  ASSUME Inv, Ready, NEW e \in Sent, AddWithWalletAdapter(e)
  PROVE  Inv'
<1> PICK g, tx : g = hook /\ tx = S!NewTx("preparing", now)
  OBVIOUS
<1>1. /\ g # Nobody /\ e \notin used
      /\ used' = used \cup {e} /\ AddWithTx(g, e, tx, FALSE)
      /\ wallet' = [wallet EXCEPT ![e] = [stage |-> "made", store |-> g]]
      /\ UNCHANGED <<provider, calls, disk, now, ghosts>>
  BY DEF AddWithWalletAdapter
<1>2. g \in Stores /\ e \in Entries /\ tx \in Txs
  BY <1>1, InvParts, StoresOf, NewTxType DEF Entries, PageTypes, S!Statuses
<1>3. /\ StoresSound' /\ S!In(store'[g]) = S!In(store[g]) \cup {e}
      /\ \A h \in Stores : h # g => S!In(store'[h]) = S!In(store[h])
      /\ saveDue' = (saveDue \/ g = mounted)
  BY <1>1, <1>2, InvParts, AddSound
<1>4. wallet' \in [Sent -> [stage : Stages, store : 0..MaxStores]]
  <2>1. [stage |-> "made", store |-> g] \in [stage : Stages, store : 0..MaxStores]
    BY <1>2, FlightAssumption DEF Stages, Stores
  <2> QED
    BY <1>1, <2>1, InvParts DEF PageTypes
<1>5. PageTypes'
  BY <1>1, <1>2, <1>3, <1>4, InvParts DEF provider, calls, ghosts, PageTypes
<1>6. e \notin removed[g] /\ \A r \in adding : r[2] # e
  BY <1>1, <1>2, InvParts DEF Created
<1>7. PutOn(g, e)
  BY <1>1, <1>3, <1>6 DEF PutOn, provider, calls, ghosts
<1> QED
  BY <1>2, <1>3, <1>5, <1>7, PutOnKeeps

\* remove, clear and evict take entries off a store of this page.
LEMMA TakeOffKeeps ==
  ASSUME Inv, Ready, NEW g \in Stores, g <= made,
         NEW gone \in SUBSET Entries, NEW s, Fits(s),
         S!In(s) = S!In(store[g]) \ gone, s.watched = store[g].watched \ gone,
         TakeOff(g, s), UNCHANGED <<provider, calls, world, disk, now>>
  PROVE  Inv'
<1>1. /\ StoresSound' /\ S!In(store'[g]) = S!In(s)
      /\ \A h \in Stores : h # g => S!In(store'[h]) = S!In(store[h])
      /\ saveDue' = (saveDue \/ g = mounted)
      /\ removed' = [removed EXCEPT ![g] = @ \cup (S!In(store[g]) \ S!In(s))]
      /\ kept' = IF g = mounted THEN kept \ (S!In(store[g]) \ S!In(s)) ELSE kept
  BY InvParts, TakeOffSound
<1>2. S!In(store[g]) \subseteq Entries
  BY DEF S!In
<1>3. removed' \in [Stores -> SUBSET Entries] /\ kept' \in SUBSET Entries
  BY <1>1, <1>2, InvParts DEF PageTypes
<1>4. PageTypes'
  BY <1>1, <1>3, InvParts DEF provider, calls, world, PageTypes
<1>5. TakenOff(g)
  BY <1>1 DEF TakenOff, provider, calls, world
<1> QED
  BY <1>1, <1>4, <1>5, TakenOffKeeps

LEMMA RemoveKeeps == ASSUME Inv, Ready, NEW e \in Entries, Remove(e) PROVE Inv'
<1> PICK g : g = hook
  OBVIOUS
<1>1. g \in Stores /\ g <= made
  BY InvParts, StoresOf DEF Remove
<1> PICK s : s = S!RemoveReducer(store[g], e)
  OBVIOUS
<1>2. Fits(s) /\ S!In(s) = S!In(store[g]) \ {e} /\ s.watched = store[g].watched \ {e}
  BY <1>1, InvParts, RemoveFits DEF S!RemoveReducer
<1>3. TakeOff(g, s) /\ UNCHANGED <<provider, calls, world, disk, now>>
  BY DEF Remove
<1> QED
  BY <1>1, <1>2, <1>3, TakeOffKeeps

LEMMA ClearKeeps == ASSUME Inv, Ready, Clear PROVE Inv'
<1> PICK g, s : g = hook /\ s = S!EmptyStore
  OBVIOUS
<1>1. g \in Stores /\ g <= made
  BY InvParts, StoresOf DEF Clear
<1>2. S!In(store[g]) \subseteq Entries /\ store[g].watched \subseteq Entries
  BY <1>1, InvParts DEF Fits, StoreType, S!In
<1>3. Fits(s) /\ S!In(s) = S!In(store[g]) \ Entries /\ s.watched = store[g].watched \ Entries
  BY <1>2, EmptyFits
<1>4. TakeOff(g, s) /\ UNCHANGED <<provider, calls, world, disk, now>>
  BY DEF Clear
<1> QED
  BY <1>1, <1>3, <1>4, TakeOffKeeps

LEMMA EvictKeeps == ASSUME Inv, Ready, Evict PROVE Inv'
<1> PICK g : g = mounted
  OBVIOUS
<1>1. g \in Stores /\ g <= made
  BY InvParts, StoresOf DEF Evict
<1>2. PICK s \in S!EvictReducer(store[g], MaxItems, Retention, now) : TakeOff(g, s)
  BY DEF Evict
<1>3. \E gone \in SUBSET Entries : s = S!RemoveAll(store[g], gone)
  BY DEF S!EvictReducer, S!Expired, S!In
<1>4. PICK gone \in SUBSET Entries : s = S!RemoveAll(store[g], gone)
  BY <1>3
<1>5. Fits(s) /\ S!In(s) = S!In(store[g]) \ gone /\ s.watched = store[g].watched \ gone
  BY <1>1, <1>4, InvParts, RemoveFits
<1>6. UNCHANGED <<provider, calls, world, disk, now>>
  BY DEF Evict
<1> QED
  BY <1>1, <1>2, <1>5, <1>6, TakeOffKeeps

-----------------------------------------------------------------------------
\* The provider's mounts and unmounts, its saves and loads.

\* What a save leaves on disk, and the rest as it is, is there to be kept.
Flushes == disk' = Flushed /\ kept' = IF saveDue THEN kept \cup S!In(store[mounted]) ELSE kept

LEMMA FlushKeeps ==
  ASSUME Inv, Flushes
  PROVE  /\ disk' \in [Entries -> Txs \cup {None}] /\ kept' \in SUBSET Entries
         /\ Saved' \subseteq used /\ \A r \in adding : r[2] \notin Saved'
         /\ AnswersFirst =>
              /\ SavedKept'
              /\ mounted # Nobody /\ mounted \notin loading => kept' \subseteq S!In(store[mounted])
<1>1. CASE ~saveDue
  BY <1>1, InvParts DEF Flushes, Flushed, PageTypes, Created, Saved, Inv, LoadInv, SavedKept,
                        LoadedFirst
<1>2. CASE saveDue
  <2>1. mounted \in Stores
    BY <1>2, InvParts, StoresOf DEF Created
  <2>2. disk' = store[mounted].txs /\ kept' = kept \cup S!In(store[mounted])
    BY <1>2 DEF Flushes, Flushed
  <2>3. Saved' = S!In(store[mounted])
    BY <2>2 DEF Saved, S!In
  <2>4. disk' \in [Entries -> Txs \cup {None}]
    BY <2>1, <2>2, InvParts DEF Fits, StoreType
  <2>5. kept' \in SUBSET Entries
    BY <2>2, InvParts DEF PageTypes, S!In
  <2>6. Saved' \subseteq used /\ \A r \in adding : r[2] \notin Saved'
    BY <2>1, <2>3, InvParts DEF Created
  <2>7. ASSUME AnswersFirst PROVE SavedKept' /\ kept' \subseteq S!In(store[mounted])
    <3>1. kept \subseteq S!In(store[mounted])
      BY <1>2, <2>7, InvParts DEF Inv, LoadInv, LoadedFirst, Created
    <3> QED
      BY <2>2, <3>1 DEF SavedKept, S!In
  <2> QED
    BY <2>4, <2>5, <2>6, <2>7
<1> QED
  BY <1>1, <1>2

\* What the provider does to the page when it saves or changes stores.
Turned ==
  /\ Flushes
  /\ UNCHANGED <<store, live, adding, used, removed>>
  /\ made' >= made /\ ~saveDue'
  /\ \/ made' = made /\ loading' = loading /\ mounted' \in {mounted, Nobody}
     \/ mounted' \in loading' /\ loading \subseteq loading' /\ \A g \in loading' \ loading : g > made

LEMMA TurnedKeeps == ASSUME Inv, Turned, PageTypes' PROVE Inv'
<1>1. /\ StoresSound' /\ \A g \in Stores : S!In(store'[g]) = S!In(store[g])
  BY StoresStill DEF Turned
<1>2. TypeOK' /\ WatchersOwned'
  BY <1>1 DEF TypeOK, StoresSound
<1>3. /\ Saved' \subseteq used /\ \A r \in adding : r[2] \notin Saved'
      /\ AnswersFirst =>
           /\ SavedKept'
           /\ mounted # Nobody /\ mounted \notin loading => kept' \subseteq S!In(store[mounted])
  BY FlushKeeps DEF Turned
<1>4. Created'
  BY <1>1, <1>3, InvParts DEF Created, Turned
<1>5. ASSUME AnswersFirst PROVE LoadedFirst' /\ RemovedStays' /\ SavedKept'
  <2>1. LoadedFirst /\ RemovedStays
    BY <1>5 DEF Inv, LoadInv
  <2>2. /\ \A g \in Stores : g \in Int
        /\ made \in Int /\ made' \in Int /\ (mounted # Nobody => mounted \in Stores)
    BY InvParts, StoresOf DEF PageTypes
  <2>3. \A g \in Stores : g > made' \/ g \in loading' => removed'[g] = {}
    BY <2>1, <2>2 DEF LoadedFirst, Turned
  <2>4. mounted' # Nobody /\ mounted' \notin loading' => kept' \subseteq S!In(store'[mounted'])
    BY <1>1, <1>3, <1>5, <2>2 DEF Turned
  <2>5. RemovedStays'
    BY <1>1, <2>1 DEF RemovedStays, Turned
  <2> QED
    BY <1>3, <1>5, <2>3, <2>4, <2>5 DEF LoadedFirst, Turned
<1> QED
  BY <1>2, <1>4, <1>5 DEF Inv, PageInv, LoadInv

LEMMA SaveKeeps == ASSUME Inv, Save PROVE Inv'
<1>1. Flushes
  BY DEF Save, Flushes, Flushed
<1>2. PageTypes'
  BY <1>1, InvParts, FlushKeeps DEF Save, provider, calls, world, PageTypes
<1>3. Turned
  BY <1>1, InvParts DEF Save, Turned, provider, calls, world, PageTypes
<1> QED
  BY <1>2, <1>3, TurnedKeeps

\* A fresh store is numbered after those there are, and not loaded yet.
LEMMA StartKeeps ==
  ASSUME Inv, Flushes, StartEntry, hook' \in {hook, made'}
  PROVE  Inv'
<1>1. /\ made' = made + 1 /\ mounted' = made' /\ refs' = 1 /\ made < MaxStores
      /\ loading' = loading \cup {made'} /\ saveDue' = FALSE
      /\ UNCHANGED <<store, live, calls, world, now, removed>>
  BY DEF StartEntry
<1>2. made \in 0..MaxStores /\ MaxStores \in Nat /\ hook \in 0..made /\ loading \in SUBSET (1..made)
  BY InvParts, FlightAssumption DEF PageTypes
<1>3. /\ made' \in 0..MaxStores /\ mounted' \in 0..made' /\ mounted' # Nobody
      /\ hook' \in 0..made' /\ loading' \in SUBSET (1..made')
  BY <1>1, <1>2 DEF Nobody
<1>4. PageTypes'
  <2>1. disk' \in [Entries -> Txs \cup {None}] /\ kept' \in SUBSET Entries
    BY FlushKeeps
  <2>2. refs' \in Nat /\ (refs' > 0 <=> mounted' # Nobody)
    BY <1>1, <1>3
  <2>3. saveDue' \in BOOLEAN
    BY <1>1
  <2>4. /\ UNCHANGED <<adding, resuming, replacing, wallet, used, now, removed>>
        /\ made' \in 0..MaxStores /\ mounted' \in 0..made' /\ hook' \in 0..made'
        /\ loading' \in SUBSET (1..made')
    BY <1>1, <1>3 DEF calls, world
  <2> QED
    BY <2>1, <2>2, <2>3, <2>4, InvParts DEF PageTypes
<1>5. Turned
  BY <1>1, <1>2 DEF Turned, calls, world
<1> QED
  BY <1>4, <1>5, TurnedKeeps

LEMMA MountKeeps == ASSUME Inv, Mount PROVE Inv'
<1>1. ~saveDue
  BY InvParts DEF Mount, Created
<1>2. Flushes
  BY <1>1 DEF Mount, Flushes, Flushed
<1> QED
  BY <1>2, StartKeeps DEF Mount

LEMMA RemountKeeps == ASSUME Inv, Remount PROVE Inv'
<1>1. Flushes
  BY DEF Remount, Flushes
<1> QED
  BY <1>1, StartKeeps DEF Remount

LEMMA LeaveKeeps == ASSUME Inv, Leave PROVE Inv'
<1>1. refs > 0 /\ refs' = refs - 1 /\ UNCHANGED <<store, made, loading, live, calls, world, now, removed>>
  BY DEF Leave
<1>2. refs \in Nat /\ made \in Nat
  BY InvParts DEF PageTypes
<1>3. CASE refs > 1
  <2>1. UNCHANGED <<mounted, hook, saved, kept>>
    BY <1>3 DEF Leave
  <2>2. PageTypes'
    BY <1>1, <1>2, <1>3, <2>1, InvParts DEF calls, world, saved, PageTypes
  <2> QED
    BY <1>1, <2>1, <2>2, Aside DEF calls, world, saved
<1>4. CASE ~(refs > 1)
  <2>1. /\ mounted' = Nobody /\ hook' = Nobody /\ saveDue' = FALSE /\ Flushes
    BY <1>4 DEF Leave, Flushes
  <2>2. refs' = 0
    BY <1>1, <1>2, <1>4
  <2>3. PageTypes'
    <3>1. disk' \in [Entries -> Txs \cup {None}] /\ kept' \in SUBSET Entries
      BY <2>1, FlushKeeps
    <3>2. saveDue' \in BOOLEAN
      BY <2>1
    <3>3. /\ refs' \in Nat /\ (refs' > 0 <=> mounted' # Nobody)
          /\ mounted' \in 0..made' /\ hook' \in 0..made'
      BY <1>1, <1>2, <2>1, <2>2 DEF Nobody
    <3>4. UNCHANGED <<made, loading, adding, resuming, replacing, wallet, used, now, removed>>
      BY <1>1 DEF calls, world
    <3> QED
      BY <3>1, <3>2, <3>3, <3>4, InvParts DEF PageTypes
  <2>4. Turned
    BY <1>1, <1>2, <2>1 DEF Turned, calls, world
  <2> QED
    BY <2>3, <2>4, TurnedKeeps
<1> QED
  BY <1>3, <1>4

\* A load adds what is on disk and not in the store yet.
LEMMA LoadSound ==
  ASSUME Inv, NEW g \in loading, Load(g)
  PROVE  /\ g \in Stores /\ StoresSound' /\ S!In(store'[g]) = S!In(store[g]) \cup Saved
         /\ \A h \in Stores : h # g => S!In(store'[h]) = S!In(store[h])
         /\ saveDue' \in BOOLEAN /\ (saveDue' => saveDue \/ g = mounted)
<1>1. g \in Stores
  <2>1. made \in 0..MaxStores /\ g \in 1..made /\ MaxStores \in Nat
    BY InvParts, FlightAssumption DEF PageTypes
  <2> QED
    BY <2>1 DEF Stores
<1>2. live' = live /\ live \in [Refs -> Int] /\ disk \in [Entries -> Txs \cup {None}]
  BY InvParts DEF Load, PageTypes, StoresSound
<1>3. CASE Missing(store[g], disk) = {}
  <2>1. UNCHANGED <<store, saveDue>>
    BY <1>3 DEF Load
  <2>2. Saved \subseteq S!In(store[g])
    BY <1>3 DEF Missing, Saved, S!In
  <2> QED
    BY <1>1, <1>2, <2>1, <2>2, InvParts, StoresStill DEF PageTypes
<1>4. CASE Missing(store[g], disk) # {}
  <2> PICK s : s = Seeded(store[g], disk)
    OBVIOUS
  <2>1. /\ Fits(s) /\ S!In(s) = S!In(store[g]) \cup Saved /\ s.watched = store[g].watched
    BY <1>1, <1>2, InvParts, SeedFits DEF Saved
  <2>2. store' = [store EXCEPT ![g] = s] /\ saveDue' = (saveDue \/ g = mounted)
    BY <1>4 DEF Load, SetState
  <2>3. Follow(g, s)
    BY <1>1, <1>2, <2>1, InvParts DEF Stocked, WatchersOwned, Follow
  <2>4. /\ StoresSound' /\ store'[g] = s
        /\ \A h \in Stores : h # g => store'[h] = store[h]
    BY <1>1, <1>2, <2>1, <2>2, <2>3, InvParts, OneStore
  <2> QED
    BY <1>1, <2>1, <2>2, <2>4
<1> QED
  BY <1>3, <1>4

LEMMA LoadKeeps == ASSUME Inv, NEW g \in loading, Load(g) PROVE Inv'
<1>1. /\ g \in Stores /\ StoresSound' /\ S!In(store'[g]) = S!In(store[g]) \cup Saved
      /\ \A h \in Stores : h # g => S!In(store'[h]) = S!In(store[h])
      /\ saveDue' \in BOOLEAN /\ (saveDue' => saveDue \/ g = mounted)
  BY LoadSound
<1>2. /\ loading' = loading \ {g}
      /\ resuming' = resuming \cup ({g} \X Resumable(store[g], disk))
      /\ UNCHANGED <<mounted, refs, made, hook, live, adding, replacing, wallet, used, disk,
                     now, kept, removed>>
  BY DEF Load, world, ghosts
<1>3. resuming' \in SUBSET Refs
  <2>1. Resumable(store[g], disk) \subseteq Entries
    BY DEF Resumable, Missing
  <2> QED
    BY <1>1, <1>2, <2>1, InvParts DEF PageTypes, Refs
<1>4. PageTypes'
  BY <1>1, <1>2, <1>3, InvParts DEF PageTypes
<1>5. TypeOK' /\ WatchersOwned' /\ Saved' = Saved
  BY <1>1, <1>2, <1>4 DEF TypeOK, StoresSound, Saved
<1>6. Created'
  <2>1. Saved \subseteq used /\ \A h \in Stores : S!In(store[h]) \subseteq used /\ removed[h] \subseteq used
    BY InvParts DEF Created
  <2>2. \A h \in Stores : S!In(store'[h]) \subseteq used' /\ removed'[h] \subseteq used'
    BY <1>1, <1>2, <2>1
  <2>3. ASSUME NEW r \in adding'
        PROVE  /\ r[2] \in used' \ Saved'
               /\ \A h \in Stores : r[2] \notin S!In(store'[h]) \cup removed'[h]
               /\ \A s \in adding' : s[2] = r[2] => s = r
    <3>1. /\ r[2] \in used \ Saved
          /\ \A h \in Stores : r[2] \notin S!In(store[h]) \cup removed[h]
          /\ \A s \in adding : s[2] = r[2] => s = r
      BY <1>2, InvParts DEF Created
    <3> QED
      BY <1>1, <1>2, <1>5, <3>1
  <2>4. saveDue' => mounted' # Nobody
    BY <1>1, <1>2, InvParts, StoresOf DEF Created
  <2> QED
    BY <1>2, <1>5, <2>1, <2>2, <2>3, <2>4, InvParts DEF Created
<1>7. ASSUME AnswersFirst PROVE LoadedFirst' /\ RemovedStays' /\ SavedKept'
  <2>1. LoadedFirst /\ RemovedStays /\ SavedKept
    BY <1>7 DEF Inv, LoadInv
  <2>2. removed[g] = {}
    BY <1>1, <2>1 DEF LoadedFirst
  <2>3. kept \subseteq Saved
    BY <2>1, InvParts DEF SavedKept, Saved, PageTypes
  <2>4. mounted' # Nobody /\ mounted' \notin loading' => kept' \subseteq S!In(store'[mounted'])
    <3>1. CASE mounted = g
      BY <1>1, <1>2, <2>3, <3>1
    <3>2. CASE mounted # g
      BY <1>1, <1>2, <2>1, <3>2, InvParts, StoresOf DEF LoadedFirst
    <3> QED
      BY <3>1, <3>2
  <2>5. LoadedFirst'
    <3>1. saveDue' => mounted' \notin loading'
      BY <1>1, <1>2, <2>1 DEF LoadedFirst
    <3>2. \A h \in Stores : h > made' \/ h \in loading' => removed'[h] = {}
      BY <1>2, <2>1 DEF LoadedFirst
    <3> QED
      BY <2>4, <3>1, <3>2 DEF LoadedFirst
  <2>6. RemovedStays'
    BY <1>1, <1>2, <2>1, <2>2 DEF RemovedStays
  <2>7. SavedKept'
    BY <1>2, <2>1 DEF SavedKept
  <2> QED
    BY <2>5, <2>6, <2>7
<1> QED
  BY <1>5, <1>6, <1>7 DEF Inv, PageInv, LoadInv

\* A page with nothing on it.
LEMMA EmptyPage ==
  ASSUME store = Page.store, live = Page.live
  PROVE  StoresSound /\ \A g \in Stores : S!In(store[g]) = {}
<1>1. store = [g \in Stores |-> S!EmptyStore] /\ live = [r \in Refs |-> 0]
  BY DEF Page
<1>2. Fits(S!EmptyStore) /\ S!In(S!EmptyStore) = {} /\ S!EmptyStore.watched = {}
  BY EmptyFits
<1>3. store \in [Stores -> StoreType] /\ live \in [Refs -> Int]
  BY <1>1, <1>2 DEF Fits
<1>4. WatchersOwned
  BY <1>1, <1>2 DEF WatchersOwned, Refs
<1> QED
  BY <1>1, <1>2, <1>3, <1>4 DEF StoresSound

LEMMA InitInv == Init => Inv
<1> SUFFICES ASSUME Init PROVE Inv
  OBVIOUS
<1>1. StoresSound /\ \A g \in Stores : S!In(store[g]) = {}
  BY EmptyPage DEF Init
<1>2. wallet \in [Sent -> [stage : Stages, store : 0..MaxStores]]
  <2>1. NoWallet \in [stage : Stages, store : 0..MaxStores]
    BY FlightAssumption DEF NoWallet, Stages, Nobody
  <2> QED
    BY <2>1 DEF Init
<1>3. PageTypes
  <2>1. /\ made \in 0..MaxStores /\ mounted \in 0..made /\ hook \in 0..made
        /\ refs \in Nat /\ (refs > 0 <=> mounted # Nobody) /\ now \in Nat
    BY FlightAssumption DEF Init, Nobody
  <2>2. /\ saveDue \in BOOLEAN /\ disk \in [Entries -> Txs \cup {None}]
        /\ removed \in [Stores -> SUBSET Entries]
    BY DEF Init
  <2> QED
    BY <1>2, <2>1, <2>2 DEF Init, PageTypes
<1>4. Created
  <2>1. Saved = {}
    BY DEF Init, Saved
  <2> QED
    BY <1>1, <2>1, FS_EmptySet DEF Init, Created
<1>5. LoadedFirst /\ RemovedStays /\ SavedKept
  BY DEF Init, LoadedFirst, RemovedStays, SavedKept
<1> QED
  BY <1>1, <1>3, <1>4, <1>5 DEF Inv, PageInv, LoadInv, TypeOK, StoresSound

LEMMA ReloadKeeps == ASSUME Inv, Reload PROVE Inv'
<1>1. (StoresSound /\ \A g \in Stores : S!In(store[g]) = {})'
  <2>1. (store = Page.store /\ live = Page.live)'
    BY DEF Reload, Page
  <2> QED
    BY <2>1, EmptyPage, PTL
<1>2. wallet' \in [Sent -> [stage : Stages, store : 0..MaxStores]]
  <2>1. \A e \in Sent : [stage |-> IF wallet[e].stage \in {"idle", "asked", "sent"}
                                   THEN wallet[e].stage ELSE "over",
                         store |-> Nobody] \in [stage : Stages, store : 0..MaxStores]
    BY FlightAssumption DEF Stages, Nobody
  <2> QED
    BY <2>1 DEF Reload
<1>3. PageTypes'
  <2>1. /\ made' \in 0..MaxStores /\ mounted' \in 0..made' /\ hook' \in 0..made'
        /\ refs' \in Nat /\ (refs' > 0 <=> mounted' # Nobody)
    BY FlightAssumption DEF Reload, Nobody
  <2>2. saveDue' \in BOOLEAN /\ removed' \in [Stores -> SUBSET Entries]
    BY DEF Reload
  <2> QED
    BY <1>2, <2>1, <2>2, InvParts DEF Reload, PageTypes
<1>4. Saved' = Saved
  BY DEF Reload, Saved
<1>5. Created'
  BY <1>1, <1>4, InvParts DEF Reload, Created
<1>6. LoadInv'
  BY DEF Reload, Inv, LoadInv, LoadedFirst, RemovedStays, SavedKept
<1> QED
  BY <1>1, <1>3, <1>5, <1>6 DEF Inv, PageInv, TypeOK, StoresSound

-----------------------------------------------------------------------------
\* The invariant is inductive.

LEMMA ActKeeps == ASSUME Inv, Ready, Act PROVE Inv'
<1>1. CASE Mount \/ Rerender \/ Join \/ Leave \/ Reload \/ Save \/ Evict \/ Clear \/ Tick
  BY <1>1, MountKeeps, RerenderKeeps, JoinKeeps, LeaveKeeps, ReloadKeeps, SaveKeeps, EvictKeeps,
     ClearKeeps, TickKeeps
<1>2. ASSUME NEW e \in Watched, AddByHash(e) \/ \E st \in Manual : AddManual(e, st) PROVE Inv'
  BY <1>2, AddByHashKeeps, AddManualKeeps
<1>3. ASSUME NEW e \in Entries, Remove(e) \/ Replace(e) PROVE Inv'
  BY <1>3, RemoveKeeps, ReplaceKeeps
<1>4. ASSUME NEW r \in adding, Added(r) PROVE Inv'
  BY <1>4, AddedKeeps
<1>5. ASSUME NEW r \in adding \cup resuming, WatcherFails(r) PROVE Inv'
  BY <1>5, WatcherFailsKeeps
<1>6. ASSUME NEW r \in resuming, Resumed(r) PROVE Inv'
  BY <1>6, ResumedKeeps
<1>7. ASSUME NEW r \in Refs, NEW ev \in Events, Observe(r, ev) PROVE Inv'
  BY <1>7, ObserveKeeps
<1>8. ASSUME NEW r \in replacing, Replaced(r) \/ ReplaceFails(r) PROVE Inv'
  BY <1>8, ReplacedKeeps, ReplaceFailsKeeps
<1>9. ASSUME NEW e \in Sent, AddWithWalletAdapter(e) PROVE Inv'
  BY <1>9, AddWithWalletAdapterKeeps
<1>10. ASSUME NEW e \in Sent,
              \/ OnAwaitingSignature(e) \/ OnTransactionHash(e) \/ OnRejected(e)
              \/ OnReceiptError(e) \/ OnConfirmed(e) \/ OnReverted(e)
       PROVE Inv'
  BY <1>10, WalletKeeps
<1>11. ASSUME NEW e \in Sent, OrphanSigned(e) \/ ReceiptArrives(e) \/ BlockFails(e) PROVE Inv'
  BY <1>11, WalletAside
<1> QED
  BY <1>1, <1>2, <1>3, <1>4, <1>5, <1>6, <1>7, <1>8, <1>9, <1>10, <1>11 DEF Act

LEMMA InvStep == Inv /\ [Next]_vars => Inv'
<1> SUFFICES ASSUME Inv, [Next]_vars PROVE Inv'
  OBVIOUS
<1>1. ASSUME NEW g \in loading, Load(g) PROVE Inv'
  BY <1>1, LoadKeeps
<1>2. CASE Remount
  BY <1>2, RemountKeeps
<1>3. CASE (AnswersFirst => loading = {}) /\ Act
  BY <1>3, ActKeeps DEF Ready
<1>4. CASE UNCHANGED vars
  <2>1. UNCHANGED <<store, live, mounted, refs, made, hook, loading, adding, resuming, replacing,
                    wallet, used, saveDue, disk, now, kept, removed>>
    BY <1>4 DEF vars, provider, calls, world, saved, ghosts
  <2>2. PageTypes'
    BY <2>1, InvParts DEF PageTypes
  <2> QED
    BY <2>1, <2>2, Aside
<1> QED
  BY <1>1, <1>2, <1>3, <1>4 DEF Next

LEMMA InvAlways == Spec => []Inv
  BY InitInv, InvStep, PTL DEF Spec

(* However the page removes, clears, evicts, overwrites, loads or resumes   *)
(* entries, across mounts, Strict Mode and unmounts, exactly the entries    *)
(* that a store knows to be watched have a watcher running, one each        *)
(* (store.ts:98-134, tx-tracker.ts:222).                                    *)
THEOREM WatchersAlwaysOwned == Spec => []WatchersOwned
<1>1. Inv => WatchersOwned
  BY DEF Inv, PageInv
<1> QED
  BY <1>1, InvAlways, PTL

(* Under a storage that answers in a microtask, as localStorage does, what  *)
(* is taken off a strip is not put back by an answer that comes later       *)
(* (tx-tracker.ts:220-229, provider.tsx:137-170).                           *)
THEOREM RemovedAlwaysStays == AnswersFirst => (Spec => []RemovedStays)
<1> SUFFICES ASSUME AnswersFirst PROVE Spec => []RemovedStays
  OBVIOUS
<1>1. Inv => RemovedStays
  BY DEF Inv, LoadInv
<1> QED
  BY <1>1, InvAlways, PTL

(* Under such a storage no save loses an entry that was on disk: entries    *)
(* leave it only by being taken off the strip (provider.tsx:137-150).       *)
THEOREM SavedAlwaysKept == AnswersFirst => (Spec => []SavedKept)
<1> SUFFICES ASSUME AnswersFirst PROVE Spec => []SavedKept
  OBVIOUS
<1>1. Inv => SavedKept
  BY DEF Inv, LoadInv
<1> QED
  BY <1>1, InvAlways, PTL

\* The store's module counts as this one does.
LEMMA SameCount == \A X : S!Cardinality(X) = Cardinality(X)
  BY DEF S!Cardinality, Cardinality

\* Of the entries evictReducer lets go, those in flight make room under the cap,
\* and there is nothing settled among those that stay.
LEMMA EvictSpares ==
  ASSUME NEW s, IsFiniteSet(S!In(s)), NEW new,
         new \in S!EvictReducer(s, MaxItems, Retention, now), NEW e \in S!In(s) \ S!In(new),
         ~S!IsTerminal(s.txs[e])
  PROVE  /\ Cardinality(S!In(new)) = MaxItems
         /\ \A f \in S!In(new) : ~S!IsTerminal(s.txs[f])
<1> DEFINE stale == S!Expired(s, Retention, now)
           fresh == S!In(s) \ stale
<1>1. PICK gone \in SUBSET fresh :
        /\ new = S!RemoveAll(s, stale \cup gone)
        /\ Cardinality(gone) =
             IF Cardinality(fresh) - MaxItems > 0 THEN Cardinality(fresh) - MaxItems ELSE 0
        /\ \A d \in gone, f \in fresh \ gone : ~S!Before(s.txs[f], s.txs[d])
  BY SameCount DEF S!EvictReducer
<1>2. S!In(new) = fresh \ gone
  BY <1>1 DEF S!RemoveAll, S!In, S!Expired
<1>3. e \in gone
  BY <1>2 DEF S!Expired
<1>4. /\ IsFiniteSet(fresh) /\ IsFiniteSet(gone) /\ Cardinality(fresh) \in Nat
      /\ Cardinality(gone) \in Nat \ {0}
      /\ Cardinality(fresh \ gone) = Cardinality(fresh) - Cardinality(gone)
  <2>1. IsFiniteSet(fresh)
    BY FS_Subset
  <2>2. IsFiniteSet(gone)
    BY <2>1, FS_Subset
  <2>3. Cardinality(fresh) \in Nat /\ Cardinality(gone) \in Nat
    BY <2>1, <2>2, FS_CardinalityType
  <2>4. Cardinality(gone) # 0
    BY <1>3, <2>2, FS_EmptySet
  <2>5. fresh \cap gone = gone
    OBVIOUS
  <2>6. Cardinality(fresh \ gone) = Cardinality(fresh) - Cardinality(gone)
    BY <2>1, <2>5, FS_Difference
  <2> QED
    BY <2>1, <2>2, <2>3, <2>4, <2>6
<1>5. Cardinality(S!In(new)) = MaxItems
  <2>1. Cardinality(gone) = Cardinality(fresh) - MaxItems
    BY <1>1, <1>4
  <2> HIDE DEF stale, fresh
  <2> QED
    BY <1>2, <1>4, <2>1, FlightAssumption
<1>6. ASSUME NEW f \in S!In(new) PROVE ~S!IsTerminal(s.txs[f])
  <2>1. ~S!Before(s.txs[f], s.txs[e])
    BY <1>1, <1>2, <1>3
  <2> QED
    BY <2>1 DEF S!Before
<1> QED
  BY <1>5, <1>6

(* Whatever the ages: an eviction takes an entry that is in flight only if  *)
(* what it leaves is full of entries in flight, and exactly as many as the  *)
(* cap allows (reducers.ts:129-142).                                        *)
THEOREM EvictsAlwaysSettledFirst == Spec => EvictsSettledFirst
<1>1. ASSUME Inv, Evict, NEW e \in S!In(store[mounted]) \ S!In(store'[mounted]),
             ~S!IsTerminal(store[mounted].txs[e])
      PROVE  /\ Cardinality(S!In(store'[mounted])) = MaxItems
             /\ \A f \in S!In(store'[mounted]) : ~S!IsTerminal(store[mounted].txs[f])
  <2>1. mounted \in Stores
    BY <1>1, InvParts, StoresOf DEF Evict
  <2>2. PICK s \in S!EvictReducer(store[mounted], MaxItems, Retention, now) : TakeOff(mounted, s)
    BY <1>1 DEF Evict
  <2>3. store'[mounted] = s
    BY <1>1, <2>1, <2>2, InvParts DEF TakeOff, SetState, StoresSound
  <2>4. IsFiniteSet(S!In(store[mounted]))
    BY <1>1, <2>1, InvParts, FS_Subset DEF Created
  <2> QED
    BY <1>1, <2>2, <2>3, <2>4, EvictSpares
<1>2. Inv /\ [Next]_vars =>
        [Evict => \A e \in S!In(store[mounted]) \ S!In(store'[mounted]) :
           ~S!IsTerminal(store[mounted].txs[e]) =>
             /\ Cardinality(S!In(store'[mounted])) = MaxItems
             /\ \A f \in S!In(store'[mounted]) : ~S!IsTerminal(store[mounted].txs[f])]_vars
  BY <1>1
<1> QED
  BY <1>2, InvAlways, PTL DEF Spec, EvictsSettledFirst
=================================================================================
