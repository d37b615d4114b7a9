----------------------------- MODULE TxRegistry -----------------------------
(***************************************************************************)
(* The other half of createTxTracker (packages/tx-tracker/src/tracker.ts): *)
(* who is told, which records live, and what is persisted.  Subscriptions  *)
(* share a record per hash, bulk selectors add subscriptions of their own, *)
(* durable records are put to a store and read back by start(), and stop() *)
(* or a crash ends a session.                                              *)
(*                                                                         *)
(* What the observations are is TxObserver's subject.  Here they are steps *)
(* 1..Final of a record's status, Final being terminal; the block and      *)
(* mempool paths patch the status and then emit, a poll emits and then     *)
(* patches, and that order decides what a put inside emit persists.        *)
(*                                                                         *)
(* A record is named by its hash and a life: an unsubscribe handle, or a   *)
(* poll in flight, keeps the record it was made for, which is not always   *)
(* the one the hash has now.  The store applies a call when it is made, as *)
(* both stores of the package do, and outlives a crash, as localStorage    *)
(* does.  `told` and `missed` are bookkeeping.                             *)
(***************************************************************************)
EXTENDS Integers, Sequences, SequencesExt

CONSTANTS
  None,
  Hashes,
  Consumers,    \* calls of subscribe() or track()
  Bulks,        \* calls of trackFromAddress, trackToAddress, trackPredicate
  Callback,     \* the callback of each consumer; two may pass the same one
  Durable,      \* consumers that ask for durable: true
  Ids,          \* their subscriptionId, or None
  Iterating,    \* consumers that use track(), the async iterator
  Matches,      \* the transactions each bulk selector matches
  AutoTrack,    \* bulk subscriptions with autoTrackMatched
  MaxBulk,      \* maxBulkSubscriptions
  Legacy,       \* what an earlier version may have left in the store
  Final,        \* the terminal status
  Polled,       \* hashes with a poll
  Receipts,     \* hashes with withReceipts: onBlock awaits their receipts
  Patient,      \* consumers await ready() before anything else
  Prompt,       \* listDurable is answered before the next block, as both stores do
  Tidy,         \* consumers drop their handle when told `stopped`
  MaxLives,     \* bound: records of one hash somebody refers to at a time
  MaxParked,    \* bound: next() calls a consumer has outstanding
  MaxQueued     \* bound: events an iterator leaves unread

It == INSTANCE EventIterator
Lives == 1..MaxLives
Callbacks == {Callback[c] : c \in Consumers}
Autos == Bulks \X Hashes           \* auto-tracked subscriptions, a closure each
Names == {"sub"} \cup {Ids[c] : c \in Durable}   \* what an entry may be called

ASSUME RegistryAssumption ==
  /\ Durable \subseteq Consumers /\ Iterating \subseteq Consumers
  /\ Matches \in [Bulks -> SUBSET Hashes] /\ AutoTrack \subseteq Bulks
  /\ MaxBulk \in Nat /\ Final \in Nat \ {0}
  /\ Polled \subseteq Hashes /\ Receipts \subseteq Hashes
  /\ {Patient, Prompt, Tidy} \subseteq BOOLEAN
  /\ MaxParked \in Nat \ {0} /\ MaxQueued \in Nat
  /\ MaxLives \in Nat \ {0}
  /\ Legacy \subseteq [status : Nat, persisted : Seq(Names)]

ASSUME NoneAssumption ==
  None \notin Lives \cup [hash : Hashes, life : Lives] \cup [status : Nat, persisted : Seq(Names)]

VARIABLES
  started,  \* `started`
  tip,      \* `latestTip` is not null
  tracked,  \* `tracked`: the life of the hash's record, None without one
  rec,      \* the records, dropped ones that someone refers to included
  handle,   \* consumers: the record their unsubscribe handle closes over
  told,     \* consumers: was told `stopped`
  missed,   \* consumers: the global stream told what they were not told, or not so
  iter,     \* the iterators of the consumers that use track()
  bulk,     \* `bulkSubs`: "off", "live" or "stopped"
  auto,     \* `autoTrackedUnsubs`
  matches,  \* the iterators over bulk matches
  listings, \* store.listDurable answers that doRehydration awaits
  held,     \* onBlock calls that await receipts: the block's transactions
  polls,    \* records with a poll in flight
  stored,   \* the store: records
  log,      \* the store: event logs
  threw     \* onBlock was rejected, and nobody catches it

consumers == <<handle, told, missed, iter>>
bulks == <<bulk, auto, matches>>
disk == <<stored, log>>
vars == <<started, tip, tracked, rec, consumers, bulks, listings, held, polls,
          disk, threw>>

NoRecord ==
  [status |-> 0, durable |-> FALSE, persisted |-> <<>>, receipts |-> FALSE,
   subs |-> {}]

Live == {h \in Hashes : tracked[h] # None}
Current(h) == rec[h][tracked[h]]
IsCurrent(r) == tracked[r.hash] = r.life


\* The records somebody still refers to; the others are forgotten.
Handles == {handle[c] : c \in Consumers} \ {None}
FreshLives(h) == {i \in Lives : /\ tracked[h] # i
                                /\ [hash |-> h, life |-> i] \notin Handles \cup polls}
Fresh(h) == CHOOSE i \in FreshLives(h) : \A j \in FreshLives(h) : i <= j
Room(hashes) == \A h \in hashes : h \in Live \/ FreshLives(h) # {}
Kept(recs) ==
  [h \in Hashes |-> [i \in Lives |->
     IF tracked'[h] = i \/ [hash |-> h, life |-> i] \in polls'
        \/ \E c \in Consumers : handle'[c] = [hash |-> h, life |-> i]
     THEN recs[h][i] ELSE NoRecord]]

Put(h, r) == [stored EXCEPT ![h] = [status |-> r.status, persisted |-> r.persisted]]

\* appendEvent; of the log only its end and its continuity matter.
EmptyLog == [last |-> 0, gap |-> FALSE]
Appended(l, n) == [last |-> n, gap |-> l.gap \/ (l.last > 0 /\ n > l.last + 1)]

-----------------------------------------------------------------------------
(* Mutant: a subscriber that throws ends the loop over the others. *)
HearsUntilOneThrows(c, trk, recs) ==
  /\ handle[c] # None
  /\ LET h == handle[c].hash
     IN trk[h] # None /\ c = CHOOSE d \in Consumers : Callback[d] \in recs[h][trk[h]].subs

\* emit(): the observation evs[h], 0 for none, and for a hash in `ends` the
\* event `stopped`, to the subscribers of the record the hash has in `trk`.
Hears(c, trk, recs) ==
  /\ handle[c] # None
  /\ LET h == handle[c].hash
     IN trk[h] # None /\ Callback[c] \in recs[h][trk[h]].subs

(* Mutant: a record is dropped without a word. *)
HearsNoEnd(c, trk, recs, ends) == FALSE

HearsEnd(c, trk, recs, ends) == Hears(c, trk, recs) /\ handle[c].hash \in ends

Fed(it, n, closes) ==
  LET one == IF n = 0 THEN it ELSE It!Push(it, 1)
  IN IF closes THEN It!Close(one) ELSE one

Announce(trk, recs, evs, ends) ==
  LET Hearing == {c \in Consumers : Hears(c, trk, recs)}
      Joined  == {c \in Consumers : handle[c] # None /\ ~told[c]}
      Of(c)   == handle[c].hash
  IN /\ missed' = [c \in Consumers |->
                    \/ missed[c]
                    \/ c \in Joined \ Hearing /\ evs[Of(c)] > 0]
     /\ told' = [c \in Consumers |->
                    told[c] \/ HearsEnd(c, trk, recs, ends)]
     /\ iter' = [c \in Iterating |->
                    IF c \in Hearing
                    THEN Fed(iter[c], evs[Of(c)], HearsEnd(c, trk, recs, ends))
                    ELSE iter[c]]
     /\ \A c \in Iterating : iter'[c].queued <= MaxQueued

\* A decision for each record in `seen`, patched before it is emitted.
Seen(recs, trk, seen) ==
  [h \in Hashes |-> IF h \notin seen THEN recs[h]
                    ELSE [recs[h] EXCEPT ![trk[h]].status = @ + 1]]
Events(recs, trk, seen) ==
  [h \in Hashes |-> IF h \in seen THEN recs[h][trk[h]].status + 1 ELSE 0]
Observable(trk, recs) == {h \in Hashes : trk[h] # None /\ recs[h][trk[h]].status < Final}

(* Mutant: store.delete leaves the event log. *)
PersistKeepsLog(trk, recs, evs, expired) ==
  LET durable == {h \in Hashes : evs[h] > 0 /\ recs[h][trk[h]].durable}
  IN /\ stored' = [h \in Hashes |->
          IF h \in expired THEN None
          ELSE IF h \in durable
          THEN [status |-> recs[h][trk[h]].status,
                persisted |-> recs[h][trk[h]].persisted]
          ELSE stored[h]]
     /\ log' = [h \in Hashes |->
          IF h \in durable THEN Appended(log[h], evs[h]) ELSE log[h]]

\* What emit persists of the observations, and store.delete of the expired.
Persist(trk, recs, evs, expired) ==
  LET durable == {h \in Hashes : evs[h] > 0 /\ recs[h][trk[h]].durable}
  IN /\ stored' = [h \in Hashes |->
          IF h \in expired THEN None
          ELSE IF h \in durable
          THEN [status |-> recs[h][trk[h]].status,
                persisted |-> recs[h][trk[h]].persisted]
          ELSE stored[h]]
     /\ log' = [h \in Hashes |->
          IF h \in expired THEN EmptyLog
          ELSE IF h \in durable THEN Appended(log[h], evs[h]) ELSE log[h]]

-----------------------------------------------------------------------------
Init ==
  /\ started = FALSE /\ tip = FALSE
  /\ tracked = [h \in Hashes |-> None]
  /\ rec = [h \in Hashes |-> [i \in Lives |-> NoRecord]]
  /\ handle = [c \in Consumers |-> None]
  /\ told = [c \in Consumers |-> FALSE]
  /\ missed = [c \in Consumers |-> FALSE]
  /\ iter = [c \in Iterating |-> It!Opened]
  /\ bulk = [b \in Bulks |-> "off"] /\ auto = [b \in Bulks |-> {}]
  /\ matches = [b \in Bulks |-> It!Opened]
  /\ listings = <<>> /\ held = {} /\ polls = {}
  /\ stored \in [Hashes -> {None} \cup Legacy] /\ log = [h \in Hashes |-> EmptyLog]
  /\ threw = FALSE

Ready == started /\ listings = <<>>

-----------------------------------------------------------------------------
\* subscribe() and its handle.

\* The durable part: an entry is added unless there is one for the same id,
\* or, without an id, one for the hash.
Enlisted(c, r) ==
  LET known == IF Ids[c] = None THEN Len(r.persisted) > 0
               ELSE Ids[c] \in Range(r.persisted)
  IN IF known THEN r.persisted
     ELSE Append(r.persisted, IF Ids[c] = None THEN "sub" ELSE Ids[c])

Subscribe(c, h) ==
  /\ handle[c] = None
  /\ Patient => Ready
  /\ Room({h})
  /\ LET i == IF h \in Live THEN tracked[h] ELSE Fresh(h)
         r == IF h \in Live THEN Current(h) ELSE NoRecord
         p == IF c \in Durable THEN Enlisted(c, r) ELSE r.persisted
         s == [r EXCEPT !.durable = @ \/ c \in Durable,
                        !.persisted = p,
                        !.receipts = @ \/ h \in Receipts,
                        !.subs = @ \cup {Callback[c]}]
     IN /\ tracked' = [tracked EXCEPT ![h] = i]
        /\ handle' = [handle EXCEPT ![c] = [hash |-> h, life |-> i]]
        /\ stored' = IF p = r.persisted THEN stored ELSE Put(h, s)
        /\ UNCHANGED polls
        /\ rec' = Kept([rec EXCEPT ![h][i] = s])
  /\ told' = [told EXCEPT ![c] = FALSE]
  /\ missed' = [missed EXCEPT ![c] = FALSE]
  /\ iter' = [k \in Iterating |->
                IF k = c THEN It!Push(It!Opened, 1) ELSE iter[k]]   \* `started`
  /\ UNCHANGED <<started, tip, bulks, listings, held, log, threw>>

(* Mutant: a record without subscribers goes, durable or not. *)
CleanupIgnoresDurable(h, i, left) ==
  IF left = {} THEN [tracked EXCEPT ![h] = None] ELSE tracked

\* cleanupRecord(): by hash, whichever record it is that has nothing to live for.
CleanupRecord(h, i, left) ==
  IF left = {} /\ ~rec[h][i].durable THEN [tracked EXCEPT ![h] = None] ELSE tracked

\* The handle is called: a last `stopped`, then the callback leaves the record
\* and cleanupRecord drops the hash if that record has nothing to live for.
Unsubscribe(c) ==
  /\ handle[c] # None
  /\ Tidy => ~told[c]
  /\ LET h == handle[c].hash
         i == handle[c].life
         left == rec[h][i].subs \ {Callback[c]}
     IN /\ tracked' = CleanupRecord(h, i, left)
        /\ handle' = [handle EXCEPT ![c] = None]
        /\ UNCHANGED polls
        /\ rec' = Kept([rec EXCEPT ![h][i].subs = left])
  /\ told' = [told EXCEPT ![c] = TRUE]
  /\ missed' = [missed EXCEPT ![c] = FALSE]
  /\ iter' = [k \in Iterating |->
                IF k = c THEN [It!Returned(It!Close(iter[k])) EXCEPT !.queued = 0]
                ELSE iter[k]]      \* and nobody reads what is left
  /\ UNCHANGED <<started, tip, bulks, listings, held, disk, threw>>

\* A consumer told `stopped` lets go of its handle.
Drop(c) ==
  /\ handle[c] # None /\ told[c]
  /\ handle' = [handle EXCEPT ![c] = None]
  /\ missed' = [missed EXCEPT ![c] = FALSE]
  /\ UNCHANGED <<tracked, polls>> /\ rec' = Kept(rec)
  /\ UNCHANGED <<started, tip, told, iter, bulks, listings, held, disk, threw>>

NextEvent(c) ==
  /\ c \in Iterating /\ iter[c].parked < MaxParked
  /\ handle[c] # None \/ told[c]
  /\ iter' = [iter EXCEPT ![c] = It!NextCall(@, FALSE)]
  /\ UNCHANGED <<started, tip, tracked, rec, handle, told, missed, bulks,
                 listings, held, polls, disk, threw>>

-----------------------------------------------------------------------------
\* Bulk subscriptions.

TrackBulk(b) ==
  /\ bulk[b] = "off"
  /\ Cardinality({k \in Bulks : bulk[k] = "live"}) < MaxBulk
  /\ bulk' = [bulk EXCEPT ![b] = "live"]
  /\ UNCHANGED <<started, tip, tracked, rec, consumers, auto, matches, listings,
                 held, polls, disk, threw>>

StopBulk(b) ==
  /\ bulk[b] = "live"
  /\ bulk' = [bulk EXCEPT ![b] = "stopped"]
  /\ UNCHANGED <<started, tip, tracked, rec, consumers, auto, matches, listings,
                 held, polls, disk, threw>>

NextMatch(b) ==
  /\ bulk[b] # "off" /\ matches[b].parked < MaxParked
  /\ matches' = [matches EXCEPT ![b] = It!NextCall(@, bulk[b] = "stopped")]
  /\ UNCHANGED <<started, tip, tracked, rec, consumers, bulk, auto, listings,
                 held, polls, disk, threw>>

\* fanOutBulkMatches: each match to its iterator, and a subscription for a
\* hash that the selector has not met yet.
Matched(txs) == {a \in Autos : bulk[a[1]] = "live" /\ a[2] \in Matches[a[1]] \cap txs}
ToAuto(txs) == {a \in Matched(txs) : a[1] \in AutoTrack /\ a[2] \notin auto[a[1]]}
\* The records after the matches of `txs`, in a map that already has lives for
\* the hashes met for the first time.
Tracking(txs) ==
  [h \in Hashes |-> IF tracked[h] = None /\ \E b \in Bulks : <<b, h>> \in ToAuto(txs)
                    THEN Fresh(h) ELSE tracked[h]]
Attached(txs) ==
  [h \in Hashes |-> [i \in Lives |->
     IF Tracking(txs)[h] # i THEN rec[h][i]
     ELSE [rec[h][i] EXCEPT !.subs = @ \cup {a \in ToAuto(txs) : a[2] = h}]]]
FanOut(txs) ==
  /\ auto' = [b \in Bulks |-> auto[b] \cup {h \in Hashes : <<b, h>> \in ToAuto(txs)}]
  /\ matches' = [b \in Bulks |->
       It!Push(matches[b], Cardinality({h \in Hashes : <<b, h>> \in Matched(txs)}))]
  /\ \A b \in Bulks : matches'[b].queued <= MaxQueued
  /\ UNCHANGED bulk

-----------------------------------------------------------------------------
\* onBlock, onMempool and the polls.

\* The loop over the records, the end of those past retention, and the polls
\* it dispatches: these read latestTip, which stop() may have reset since.
Finish(trk, recs) ==
  /\ \E seen \in SUBSET Observable(trk, recs) :
     \E expired \in SUBSET {h \in Hashes : trk[h] # None /\ recs[h][trk[h]].status = Final} :
       LET after == Seen(recs, trk, seen)
           evs   == Events(recs, trk, seen)
           left  == [h \in Hashes |-> IF h \in expired THEN None ELSE trk[h]]
           kept  == {h \in Hashes : left[h] # None}
       IN /\ Announce(trk, after, evs, expired)
          /\ Persist(trk, after, evs, expired)
          /\ tracked' = left
          /\ threw' = (threw \/ (~tip' /\ kept # {}))
          /\ polls' = IF ~tip' THEN polls
                      ELSE polls \cup {[hash |-> h, life |-> left[h]] : h \in kept \cap Polled}
          /\ UNCHANGED handle
          /\ rec' = Kept(after)

Awaiting(txs) == {h \in txs : h \in Live /\ Current(h).receipts} # {}

OnBlock(txs) ==
  /\ started /\ ~threw
  /\ Prompt => listings = <<>>
  /\ Room(txs)
  /\ tip' = TRUE
  /\ FanOut(txs)
  /\ \/ Awaiting(txs) /\ held' = held \cup {txs}
        /\ tracked' = Tracking(txs)
        /\ UNCHANGED <<consumers, polls, disk, threw>>
        /\ rec' = Kept(Attached(txs))
     \/ ~Awaiting(txs) /\ UNCHANGED held
        /\ Finish(Tracking(txs), Attached(txs))
  /\ UNCHANGED <<started, listings>>

\* The receipts are there: the rest of onBlock, over whatever is tracked now.
ResumeBlock ==
  /\ \E txs \in held : held' = held \ {txs}
  /\ UNCHANGED tip
  /\ Finish(tracked, rec)
  /\ UNCHANGED <<started, bulks, listings>>

OnMempool(txs) ==
  /\ started /\ ~threw
  /\ Prompt => listings = <<>>
  /\ Room(txs)
  /\ FanOut(txs)
  /\ tracked' = Tracking(txs)
  /\ \E seen \in SUBSET Observable(tracked, rec) :
       LET evs == Events(rec, tracked, seen)
       IN /\ Announce(tracked, rec, evs, {})
          /\ Persist(tracked, Seen(rec, tracked, seen), evs, {})
          /\ UNCHANGED <<handle, polls>>
          /\ rec' = Kept(Seen(Attached(txs), tracked, seen))
  /\ UNCHANGED <<started, tip, listings, held, threw>>

\* A poll answers: nothing if the hash has another record by now, and else
\* perhaps an observation, emitted before the status is patched.
AnswerPoll(r) ==
  /\ polls' = polls \ {r}
  /\ UNCHANGED <<tracked, handle>>
  /\ \/ UNCHANGED <<told, missed, iter, disk>> /\ rec' = Kept(rec)
     \/ /\ IsCurrent(r) /\ Current(r.hash).status + 1 < Final
        /\ LET seen == {r.hash}
           IN /\ Announce(tracked, rec, Events(rec, tracked, seen), {})
              /\ Persist(tracked, rec, Events(rec, tracked, seen), {})
              /\ rec' = Kept(Seen(rec, tracked, seen))
  /\ UNCHANGED <<started, tip, bulks, listings, held, threw>>

-----------------------------------------------------------------------------
\* start(), stop() and a crash.

Start ==
  /\ ~started /\ started' = TRUE
  /\ listings' = Append(listings, stored)
  /\ UNCHANGED <<tip, tracked, rec, consumers, bulks, held, polls, disk, threw>>

\* The rest of doRehydration.  Entries that differ in their id only are one.
Deduped(entries) == IF entries = <<>> THEN <<>> ELSE <<Head(entries)>>

Rehydrate ==
  /\ listings # <<>> /\ listings' = Tail(listings)
  /\ Room(Hashes)
  /\ LET listed == Head(listings)
         back == {h \in Hashes : listed[h] # None /\ tracked[h] = None}
         Read(h) == [NoRecord EXCEPT !.status = listed[h].status, !.durable = TRUE,
                                     !.persisted = Deduped(listed[h].persisted)]
     IN /\ tracked' = [h \in Hashes |-> IF h \in back THEN Fresh(h) ELSE tracked[h]]
        /\ UNCHANGED <<handle, polls>>
        /\ rec' = Kept([h \in Hashes |-> IF h \in back
                        THEN [rec[h] EXCEPT ![Fresh(h)] = Read(h)] ELSE rec[h]])
        /\ stored' = [h \in Hashes |->
             IF h \in back /\ Len(listed[h].persisted) > 1
             THEN [status |-> listed[h].status, persisted |-> Read(h).persisted]
             ELSE stored[h]]
  /\ UNCHANGED <<started, tip, told, missed, iter, bulks, held, log, threw>>

Stop ==
  /\ started /\ started' = FALSE
  /\ Patient => Ready
  /\ Announce(tracked, rec, [h \in Hashes |-> 0], Hashes)
  /\ tracked' = [h \in Hashes |-> None]
  /\ UNCHANGED <<handle, polls>> /\ rec' = Kept(rec)
  /\ bulk' = [b \in Bulks |-> IF bulk[b] = "live" THEN "stopped" ELSE bulk[b]]
  /\ tip' = FALSE
  /\ UNCHANGED <<auto, matches, listings, held, disk, threw>>

\* The process ends; the next one finds the store.
Crash ==
  /\ started' = FALSE /\ tip' = FALSE
  /\ tracked' = [h \in Hashes |-> None]
  /\ rec' = [h \in Hashes |-> [i \in Lives |-> NoRecord]]
  /\ handle' = [c \in Consumers |-> None]
  /\ told' = [c \in Consumers |-> FALSE]
  /\ missed' = [c \in Consumers |-> FALSE]
  /\ iter' = [c \in Iterating |-> It!Opened]
  /\ bulk' = [b \in Bulks |-> "off"] /\ auto' = [b \in Bulks |-> {}]
  /\ matches' = [b \in Bulks |-> It!Opened]
  /\ listings' = <<>> /\ held' = {} /\ polls' = {} /\ threw' = FALSE
  /\ UNCHANGED disk

Next ==
  \/ \E c \in Consumers : \/ \E h \in Hashes : Subscribe(c, h)
                          \/ Unsubscribe(c) \/ Drop(c) \/ NextEvent(c)
  \/ \E b \in Bulks : TrackBulk(b) \/ StopBulk(b) \/ NextMatch(b)
  \/ \E txs \in SUBSET Hashes : OnBlock(txs) \/ OnMempool(txs)
  \/ ResumeBlock
  \/ \E r \in polls : AnswerPoll(r)
  \/ Start \/ Rehydrate \/ Stop \/ Crash

Spec == Init /\ [][Next]_vars

-----------------------------------------------------------------------------
\* A subscription nobody ended is one of the record the tracker has for the
\* hash: no stop, restart, retention or other consumer's unsubscribe silences it.
ServedOrTold ==
  \A c \in Consumers : handle[c] # None /\ ~told[c] =>
    /\ IsCurrent(handle[c])
    /\ Callback[c] \in Current(handle[c].hash).subs

\* Whoever subscribes to a hash is told what the global stream says of it, all
\* of it and in its order (docs/tx-tracker-spec.md:556, strict consistency).
OneStream ==
  \A c \in Consumers : handle[c] # None /\ ~told[c] => ~missed[c]

\* What the store lists as durable is tracked, and as durable, whenever the
\* tracker is ready: no crash, restart or other subscription loses it.
DurableKept ==
  Ready => \A h \in Hashes : stored[h] # None => h \in Live /\ Current(h).durable

\* The event log of a durable record misses no observation, and the status
\* beside it is the last one logged or the one before.
LogWhole ==
  \A h \in Hashes : log[h] # EmptyLog =>
    /\ ~log[h].gap
    /\ stored[h] # None /\ log[h].last \in {stored[h].status, stored[h].status + 1}

\* No match iterator waits for a bulk subscription that was stopped.
BulkIterationEnds == \A b \in Bulks : bulk[b] = "stopped" => matches[b].parked = 0

\* A live bulk subscription is told of every hash it has auto-tracked.
AutoServed ==
  \A b \in Bulks : bulk[b] = "live" =>
    \A h \in auto[b] : h \in Live /\ <<b, h>> \in Current(h).subs

\* onBlock is never rejected: latestTip is set when the polls are dispatched.
TipIsSet == ~threw
=============================================================================
