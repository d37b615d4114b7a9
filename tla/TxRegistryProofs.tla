-------------------------- MODULE TxRegistryProofs --------------------------
(***************************************************************************)
(* Who is told and what is persisted, in TxRegistry, for every set of      *)
(* hashes, consumers and bulk selectors, under the care the documentation  *)
(* asks of an application.                                                 *)
(***************************************************************************)
EXTENDS TxRegistry, WellFoundedInduction, TLAPS

-----------------------------------------------------------------------------
\* The least member of a set of naturals, which stands for induction.

LEMMA HasLeast ==
  ASSUME NEW T \in SUBSET Nat, T # {}
  PROVE  \E x \in T : \A y \in T : x <= y
<1>1. OpToRel(<, Nat) = {p \in Nat \X Nat : p[1] < p[2]}
  BY DEF OpToRel
<1>2. PICK x \in T : \A y \in T : ~(<<y, x>> \in {p \in Nat \X Nat : p[1] < p[2]})
  BY <1>1, WFMin, NatLessThanWellFounded
<1>3. \A y \in T : ~(y < x)
  BY <1>2
<1> QED
  BY <1>3

\* Consumers wait for ready(), pass callbacks of their own and forget a handle
\* once told `stopped`; the store answers listDurable before the next block.
Careful ==
  /\ Patient /\ Prompt /\ Tidy
  /\ \A c, d \in Consumers : Callback[c] = Callback[d] => c = d

-----------------------------------------------------------------------------
(* The invariant. *)

Handle == [hash : Hashes, life : Lives]
Entry == [status : Nat, persisted : Seq(Names)]
Log == [last : Nat, gap : BOOLEAN]
Records == [status : Nat, durable : BOOLEAN, persisted : Seq(Names), receipts : BOOLEAN,
            subs : SUBSET (Callbacks \cup Autos)]
Maps == [Hashes -> Lives \cup {None}]

TypeInv ==
  /\ started \in BOOLEAN
  /\ tracked \in Maps
  /\ rec \in [Hashes -> [Lives -> Records]]
  /\ handle \in [Consumers -> Handle \cup {None}]
  /\ told \in [Consumers -> BOOLEAN] /\ missed \in [Consumers -> BOOLEAN]
  /\ stored \in [Hashes -> Entry \cup {None}]
  /\ log \in [Hashes -> Log]
  /\ polls \subseteq Handle

\* Nothing is tracked before the store is read back, and until then the store
\* is as it was listed.
SessionInv ==
  /\ Live # {} => Ready
  /\ listings # <<>> => started /\ listings = <<stored>>

\* A record nobody refers to is as good as new.
Forgotten == \A h \in Hashes : \A i \in FreshLives(h) : rec[h][i] = NoRecord

Served ==
  \A c \in Consumers : handle[c] # None /\ ~told[c] =>
    /\ IsCurrent(handle[c])
    /\ Callback[c] \in Current(handle[c].hash).subs
    /\ ~missed[c]

\* A record and what is persisted of it: the log is at the record's status or,
\* after a crash within emit, one ahead of what was read back.
Fits(r, s, l) ==
  /\ r.durable => s # None /\ (l # EmptyLog => l.last \in {r.status, r.status + 1})
  /\ ~r.durable => s = None /\ r.persisted = <<>>

LogFits(s, l) ==
  l # EmptyLog => ~l.gap /\ s # None /\ l.last \in {s.status, s.status + 1}

StoreInv ==
  \A h \in Hashes :
    /\ LogFits(stored[h], log[h])
    /\ h \in Live => Fits(Current(h), stored[h], log[h])
    /\ Ready /\ h \notin Live => stored[h] = None

IInv == TypeInv /\ SessionInv /\ Forgotten /\ Served /\ StoreInv

-----------------------------------------------------------------------------
(* Records: what is kept of them from one state to the next. *)

LEMMA NewRecord ==
  /\ NoRecord \in Records /\ ~NoRecord.durable /\ NoRecord.persisted = <<>>
  /\ NoRecord.status = 0 /\ NoRecord.subs = {}
  BY DEF NoRecord, Records

LEMMA NewLog == EmptyLog \in Log /\ EmptyLog.last = 0 /\ ~EmptyLog.gap
  BY DEF EmptyLog, Log

LEMMA NoneIsNot ==
  /\ None \notin Lives /\ None \notin Handle /\ None \notin Entry
  BY NoneAssumption DEF Handle, Entry

LEMMA LiveIs ==
  ASSUME TypeInv, NEW h \in Hashes
  PROVE  /\ h \in Live <=> tracked[h] # None
         /\ h \in Live => tracked[h] \in Lives /\ Current(h) \in Records
                          /\ Current(h) = rec[h][tracked[h]]
  BY DEF TypeInv, Live, Current, Maps

\* A life to make a record in, whenever there is room.
LEMMA FreshIs ==
  ASSUME NEW h \in Hashes, FreshLives(h) # {}
  PROVE  Fresh(h) \in FreshLives(h) /\ Fresh(h) \in Lives
<1>1. FreshLives(h) \in SUBSET Nat /\ FreshLives(h) \subseteq Lives
  BY DEF FreshLives, Lives
<1>2. \E i \in FreshLives(h) : \A j \in FreshLives(h) : i <= j
  BY <1>1, HasLeast
<1>3. Fresh(h) \in FreshLives(h)
  BY <1>2, Zenon DEF Fresh
<1> QED
  BY <1>1, <1>3

\* What becomes of records once the forgotten ones are dropped.
LEMMA KeptIs ==
  ASSUME NEW recs \in [Hashes -> [Lives -> Records]], rec' = Kept(recs),
         tracked' \in Maps, handle' \in [Consumers -> Handle \cup {None}]
  PROVE  /\ rec' \in [Hashes -> [Lives -> Records]]
         /\ \A h \in Hashes : tracked'[h] # None => rec'[h][tracked'[h]] = recs[h][tracked'[h]]
         /\ Forgotten'
<1>1. \A h \in Hashes, i \in Lives :
        rec'[h][i] = IF tracked'[h] = i \/ [hash |-> h, life |-> i] \in polls'
                        \/ \E c \in Consumers : handle'[c] = [hash |-> h, life |-> i]
                     THEN recs[h][i] ELSE NoRecord
  BY DEF Kept
<1>2. rec' \in [Hashes -> [Lives -> Records]]
  BY NewRecord DEF Kept
<1>3. ASSUME NEW h \in Hashes, tracked'[h] # None
      PROVE  rec'[h][tracked'[h]] = recs[h][tracked'[h]]
  <2>1. tracked'[h] \in Lives
    BY <1>3 DEF Maps
  <2> QED
    BY <1>1, <2>1
<1>4. ASSUME NEW h \in Hashes, NEW i \in FreshLives(h)' PROVE rec'[h][i] = NoRecord
  <2>1. /\ i \in Lives /\ tracked'[h] # i
        /\ [hash |-> h, life |-> i] \notin polls'
        /\ [hash |-> h, life |-> i] \notin Handles'
    BY <1>4 DEF FreshLives
  <2>2. [hash |-> h, life |-> i] \in Handle
    BY <2>1 DEF Handle
  <2>3. [hash |-> h, life |-> i] # None
    BY <2>2, NoneIsNot
  <2>4. ~\E c \in Consumers : handle'[c] = [hash |-> h, life |-> i]
    BY <2>1, <2>3 DEF Handles
  <2> QED
    BY <1>1, <2>1, <2>4
<1> QED
  BY <1>2, <1>3, <1>4 DEF Forgotten

-----------------------------------------------------------------------------
(* emit: what subscribers hear of it. *)

\* A subscriber that is served hears all there is, up to the end of its record.
LEMMA AnnounceIs ==
  ASSUME TypeInv, Served, NEW trk, NEW recs, NEW evs, NEW ends,
         Announce(trk, recs, evs, ends), handle' = handle,
         \A c \in Consumers : handle[c] # None /\ ~told[c] =>
           /\ trk[handle[c].hash] # None
           /\ Callback[c] \in recs[handle[c].hash][trk[handle[c].hash]].subs
  PROVE  /\ told' \in [Consumers -> BOOLEAN] /\ missed' \in [Consumers -> BOOLEAN]
         /\ \A c \in Consumers : handle'[c] # None /\ ~told'[c] =>
              handle[c] # None /\ ~told[c] /\ ~missed'[c] /\ handle[c].hash \notin ends
<1> DEFINE Hearing == {c \in Consumers : Hears(c, trk, recs)}
           Joined  == {c \in Consumers : handle[c] # None /\ ~told[c]}
<1>1. Joined \subseteq Hearing
  BY DEF Hears
<1>2. /\ missed' = [c \in Consumers |->
                     \/ missed[c]
                     \/ c \in Joined \ Hearing /\ evs[handle[c].hash] > 0]
      /\ told' = [c \in Consumers |-> told[c] \/ HearsEnd(c, trk, recs, ends)]
  BY DEF Announce
<1> HIDE DEF Joined
<1>3. \A c \in Consumers : missed'[c] = missed[c]
  BY <1>1, <1>2 DEF TypeInv
<1>4. told' \in [Consumers -> BOOLEAN] /\ missed' \in [Consumers -> BOOLEAN]
  BY <1>1, <1>2 DEF TypeInv, HearsEnd, Hears
<1>5. ASSUME NEW c \in Consumers, handle'[c] # None, ~told'[c]
      PROVE  handle[c] # None /\ ~told[c] /\ ~missed'[c] /\ handle[c].hash \notin ends
  <2>1. handle[c] # None /\ ~told[c] /\ ~HearsEnd(c, trk, recs, ends)
    BY <1>2, <1>5
  <2>2. Hears(c, trk, recs)
    BY <1>1, <2>1 DEF Joined
  <2> QED
    BY <1>3, <2>1, <2>2 DEF HearsEnd, Served
<1> QED
  BY <1>4, <1>5

-----------------------------------------------------------------------------
(* Decisions and matches: the records they leave. *)

AllRecords == [Hashes -> [Lives -> Records]]

LEMMA StatusMoves ==
  ASSUME NEW r \in Records
  PROVE  LET s == [r EXCEPT !.status = r.status + 1]
         IN /\ s \in Records /\ s.status = r.status + 1 /\ s.durable = r.durable
            /\ s.persisted = r.persisted /\ s.subs = r.subs
<1>1. r.status + 1 \in Nat
  BY DEF Records
<1> QED
  BY <1>1 DEF Records

\* A record with a decision moves on by one step, the others stay.
LEMMA SeenIs ==
  ASSUME NEW recs \in AllRecords, NEW trk \in Maps, NEW seen \in SUBSET Hashes,
         \A h \in seen : trk[h] # None
  PROVE  /\ Seen(recs, trk, seen) \in AllRecords
         /\ \A h \in Hashes : trk[h] # None =>
              LET r == recs[h][trk[h]]
                  s == Seen(recs, trk, seen)[h][trk[h]]
              IN /\ s.status = IF h \in seen THEN r.status + 1 ELSE r.status
                 /\ s.durable = r.durable /\ s.persisted = r.persisted /\ s.subs = r.subs
<1> DEFINE after == Seen(recs, trk, seen)
<1>1. ASSUME NEW h \in Hashes, h \notin seen PROVE after[h] = recs[h] /\ recs[h] \in [Lives -> Records]
  BY <1>1 DEF Seen, AllRecords
<1>2. ASSUME NEW h \in seen
      PROVE  LET r == recs[h][trk[h]]
             IN /\ after[h] \in [Lives -> Records]
                /\ after[h][trk[h]].status = r.status + 1
                /\ after[h][trk[h]].durable = r.durable
                /\ after[h][trk[h]].persisted = r.persisted
                /\ after[h][trk[h]].subs = r.subs
  <2> DEFINE r == recs[h][trk[h]]
             s == [r EXCEPT !.status = r.status + 1]
  <2>1. trk[h] \in Lives /\ recs[h] \in [Lives -> Records] /\ r \in Records
    BY DEF Maps, AllRecords
  <2>2. /\ s \in Records /\ s.status = r.status + 1 /\ s.durable = r.durable
        /\ s.persisted = r.persisted /\ s.subs = r.subs
    BY <2>1, StatusMoves
  <2>3. after[h] = [recs[h] EXCEPT ![trk[h]] = s]
    BY DEF Seen
  <2> HIDE DEF s, after
  <2>4. after[h] \in [Lives -> Records] /\ after[h][trk[h]] = s
    BY <2>1, <2>2, <2>3
  <2> QED
    BY <2>2, <2>4
<1>3. after = [h \in Hashes |-> after[h]]
  BY DEF Seen
<1> HIDE DEF after
<1>4. after \in AllRecords
  BY <1>1, <1>2, <1>3 DEF AllRecords
<1>5. ASSUME NEW h \in Hashes, trk[h] # None
      PROVE  LET r == recs[h][trk[h]]
                 s == after[h][trk[h]]
             IN /\ s.status = IF h \in seen THEN r.status + 1 ELSE r.status
                /\ s.durable = r.durable /\ s.persisted = r.persisted /\ s.subs = r.subs
  BY <1>1, <1>2
<1> QED
  BY <1>4, <1>5 DEF after

\* A bulk selector adds subscribers to records there are, and records as good
\* as new.
LEMMA AttachedIs ==
  ASSUME TypeInv, Forgotten, NEW txs \in SUBSET Hashes, Room(txs)
  PROVE  /\ Attached(txs) \in AllRecords /\ Tracking(txs) \in Maps
         /\ \A h \in Hashes : tracked[h] # None =>
              LET r == Current(h)
                  s == Attached(txs)[h][tracked[h]]
              IN /\ Tracking(txs)[h] = tracked[h]
                 /\ s.status = r.status /\ s.durable = r.durable /\ s.persisted = r.persisted
                 /\ r.subs \subseteq s.subs
         /\ \A h \in Hashes : tracked[h] = None /\ Tracking(txs)[h] # None =>
              LET s == Attached(txs)[h][Tracking(txs)[h]]
              IN s.status = 0 /\ ~s.durable /\ s.persisted = <<>>
<1> DEFINE New(h) == {a \in ToAuto(txs) : a[2] = h}
           Grown(h, i) == [rec[h][i] EXCEPT !.subs = rec[h][i].subs \cup New(h)]
<1>1. \A b \in Bulks, h \in Hashes : <<b, h>> \in ToAuto(txs) => h \in txs
  BY DEF ToAuto, Matched
<1>2. ASSUME NEW h \in Hashes, tracked[h] = None, Tracking(txs)[h] # None
      PROVE  Tracking(txs)[h] = Fresh(h) /\ Fresh(h) \in Lives /\ rec[h][Fresh(h)] = NoRecord
  <2>1. Tracking(txs)[h] = Fresh(h) /\ \E b \in Bulks : <<b, h>> \in ToAuto(txs)
    BY <1>2 DEF Tracking
  <2>2. h \in txs /\ h \notin Live
    BY <1>1, <1>2, <2>1 DEF Live
  <2>3. FreshLives(h) # {}
    BY <2>2 DEF Room
  <2> QED
    BY <2>1, <2>3, FreshIs DEF Forgotten
<1>3. \A h \in Hashes : tracked[h] # None => Tracking(txs)[h] = tracked[h]
  BY DEF Tracking
<1>4. Tracking(txs) \in Maps
  <2>1. Tracking(txs) = [h \in Hashes |-> Tracking(txs)[h]]
    BY DEF Tracking
  <2>2. \A h \in Hashes : Tracking(txs)[h] \in Lives \cup {None}
    BY <1>2, <1>3 DEF TypeInv, Maps
  <2> QED
    BY <2>1, <2>2 DEF Maps
<1>5. ASSUME NEW h \in Hashes, NEW i \in Lives
      PROVE  /\ Grown(h, i) \in Records
             /\ Grown(h, i).status = rec[h][i].status
             /\ Grown(h, i).durable = rec[h][i].durable
             /\ Grown(h, i).persisted = rec[h][i].persisted
             /\ rec[h][i].subs \subseteq Grown(h, i).subs
  <2>1. rec[h][i] \in Records
    BY DEF TypeInv
  <2>2. New(h) \subseteq Autos
    BY DEF ToAuto, Matched
  <2> HIDE DEF New
  <2> QED
    BY <2>1, <2>2 DEF Records
<1>6. \A h \in Hashes, i \in Lives :
        Attached(txs)[h][i] = IF Tracking(txs)[h] # i THEN rec[h][i] ELSE Grown(h, i)
  BY DEF Attached
<1>7. Attached(txs) = [h \in Hashes |-> [i \in Lives |-> Attached(txs)[h][i]]]
  BY DEF Attached
<1> HIDE DEF Grown
<1>8. \A h \in Hashes, i \in Lives : Attached(txs)[h][i] \in Records
  BY <1>5, <1>6 DEF TypeInv
<1>9. Attached(txs) \in AllRecords
  BY <1>7, <1>8 DEF AllRecords
<1>10. ASSUME NEW h \in Hashes, tracked[h] # None
       PROVE  LET r == Current(h)
                  s == Attached(txs)[h][tracked[h]]
              IN /\ Tracking(txs)[h] = tracked[h]
                 /\ s.status = r.status /\ s.durable = r.durable /\ s.persisted = r.persisted
                 /\ r.subs \subseteq s.subs
  <2>1. tracked[h] \in Lives /\ Current(h) = rec[h][tracked[h]]
    BY <1>10, LiveIs
  <2>2. Attached(txs)[h][tracked[h]] = Grown(h, tracked[h])
    BY <1>3, <1>6, <1>10, <2>1
  <2> QED
    BY <1>3, <1>5, <1>10, <2>1, <2>2
<1>11. ASSUME NEW h \in Hashes, tracked[h] = None, Tracking(txs)[h] # None
       PROVE  LET s == Attached(txs)[h][Tracking(txs)[h]]
              IN s.status = 0 /\ ~s.durable /\ s.persisted = <<>>
  BY <1>2, <1>5, <1>6, <1>11, NewRecord
<1> QED
  BY <1>4, <1>9, <1>10, <1>11

-----------------------------------------------------------------------------
(* emit: what is persisted of it. *)

\* One record: the put is of its status before the step or after it, and the
\* log gets the step either way.
LEMMA EmitFits ==
  ASSUME NEW r \in Records, NEW s, NEW l \in Log, Fits(r, s, l), LogFits(s, l), r.durable,
         NEW n, n = r.status + 1, NEW k \in {r.status, r.status + 1}
  PROVE  LET put == [status |-> k, persisted |-> r.persisted]
             new == Appended(l, n)
         IN /\ put \in Entry /\ new \in Log /\ LogFits(put, new)
            /\ \A q : q.durable = r.durable /\ q.status = n => Fits(q, put, new)
<1> DEFINE put == [status |-> k, persisted |-> r.persisted]
           new == Appended(l, n)
<1>1. r.status \in Nat /\ n \in Nat /\ k \in Nat /\ r.persisted \in Seq(Names)
  BY DEF Records
<1>2. put \in Entry /\ put.status = k
  BY <1>1 DEF Entry
<1>3. put # None
  BY <1>2, NoneIsNot
<1>4. ~l.gap /\ (l.last > 0 => n <= l.last + 1) /\ l.last \in Nat
  <2>1. CASE l = EmptyLog
    BY <2>1, NewLog DEF Log
  <2>2. CASE l # EmptyLog
    BY <1>1, <2>2 DEF Fits, LogFits, Log
  <2> QED
    BY <2>1, <2>2
<1>5. new = [last |-> n, gap |-> FALSE]
  <2>1. ~(l.gap \/ (l.last > 0 /\ n > l.last + 1))
    BY <1>1, <1>4
  <2>2. (l.gap \/ (l.last > 0 /\ n > l.last + 1)) = FALSE
    BY <2>1
  <2> QED
    BY <2>2, Zenon DEF Appended
<1> HIDE DEF put, new
<1>6. new \in Log /\ new.last = n /\ ~new.gap
  BY <1>1, <1>5 DEF Log
<1>7. LogFits(put, new)
  BY <1>1, <1>2, <1>3, <1>6 DEF LogFits
<1>8. ASSUME NEW q, q.durable = r.durable, q.status = n PROVE Fits(q, put, new)
  BY <1>1, <1>3, <1>6, <1>8 DEF Fits
<1> QED
  BY <1>2, <1>6, <1>7, <1>8 DEF put, new

\* Fits tells nothing but these fields of a record apart.
LEMMA FitsAlike ==
  ASSUME NEW r, NEW q, NEW s, NEW l, Fits(r, s, l),
         q.status = r.status, q.durable = r.durable, q.persisted = r.persisted
  PROVE  Fits(q, s, l)
  BY DEF Fits

\* emit for every decision of a step, and the deletion of what is past retention.
LEMMA PersistIs ==
  ASSUME TypeInv, NEW recs \in AllRecords, NEW trk \in Maps,
         NEW seen \in SUBSET Hashes, \A h \in seen : trk[h] # None,
         NEW expired \in SUBSET Hashes,
         \A h \in Hashes : LogFits(stored[h], log[h]),
         \A h \in Hashes : trk[h] # None => Fits(recs[h][trk[h]], stored[h], log[h]),
         NEW said, said = recs \/ said = Seen(recs, trk, seen),
         Persist(trk, said, Events(recs, trk, seen), expired)
  PROVE  /\ stored' \in [Hashes -> Entry \cup {None}] /\ log' \in [Hashes -> Log]
         /\ \A h \in Hashes :
              /\ LogFits(stored'[h], log'[h])
              /\ h \in expired => stored'[h] = None
              /\ trk[h] = None /\ h \notin expired => stored'[h] = stored[h]
              /\ trk[h] # None /\ h \notin expired =>
                   Fits(Seen(recs, trk, seen)[h][trk[h]], stored'[h], log'[h])
<1> DEFINE evs == Events(recs, trk, seen)
           after == Seen(recs, trk, seen)
           durable == {h \in Hashes : evs[h] > 0 /\ said[h][trk[h]].durable}
           put(h) == [status |-> said[h][trk[h]].status, persisted |-> said[h][trk[h]].persisted]
<1>1. /\ stored' = [h \in Hashes |-> IF h \in expired THEN None
                                     ELSE IF h \in durable THEN put(h) ELSE stored[h]]
      /\ log' = [h \in Hashes |-> IF h \in expired THEN EmptyLog
                                  ELSE IF h \in durable THEN Appended(log[h], evs[h]) ELSE log[h]]
  BY DEF Persist
<1>2. ASSUME NEW h \in Hashes, trk[h] # None
      PROVE  LET r == recs[h][trk[h]]
                 s == after[h][trk[h]]
             IN /\ r \in Records
                /\ s.status = IF h \in seen THEN r.status + 1 ELSE r.status
                /\ s.durable = r.durable /\ s.persisted = r.persisted
                /\ said[h][trk[h]] = r \/ said[h][trk[h]] = s
                /\ evs[h] = IF h \in seen THEN r.status + 1 ELSE 0
  <2>1. recs[h][trk[h]] \in Records
    BY <1>2 DEF AllRecords, Maps
  <2> QED
    BY <1>2, <2>1, SeenIs DEF Events
<1>3. \A h \in Hashes : trk[h] = None => evs[h] = 0
  BY DEF Events
<1> HIDE DEF evs, after
<1>4. ASSUME NEW h \in durable
      PROVE  /\ h \in Hashes /\ trk[h] # None
             /\ put(h) \in Entry /\ Appended(log[h], evs[h]) \in Log
             /\ LogFits(put(h), Appended(log[h], evs[h]))
             /\ Fits(after[h][trk[h]], put(h), Appended(log[h], evs[h]))
  <2>1. h \in seen /\ trk[h] # None /\ h \in Hashes /\ said[h][trk[h]].durable
    BY <1>2, <1>3
  <2> DEFINE r == recs[h][trk[h]]
             s == after[h][trk[h]]
  <2>2. /\ r \in Records /\ s.status = r.status + 1 /\ s.durable = r.durable
        /\ s.persisted = r.persisted /\ r.durable /\ evs[h] = r.status + 1
        /\ said[h][trk[h]].status \in {r.status, r.status + 1}
        /\ said[h][trk[h]].persisted = r.persisted
    BY <1>2, <2>1
  <2>3. Fits(r, stored[h], log[h]) /\ LogFits(stored[h], log[h]) /\ log[h] \in Log
    BY <2>1 DEF TypeInv
  <2> HIDE DEF r, s
  <2>4. PICK k \in {r.status, r.status + 1} : put(h) = [status |-> k, persisted |-> r.persisted]
    BY <2>2
  <2> HIDE DEF put
  <2>5. /\ put(h) \in Entry /\ Appended(log[h], evs[h]) \in Log
        /\ LogFits(put(h), Appended(log[h], evs[h]))
        /\ Fits(s, put(h), Appended(log[h], evs[h]))
    BY <2>2, <2>3, <2>4, EmitFits
  <2> QED
    BY <2>1, <2>5 DEF s
<1>5. ASSUME NEW h \in Hashes, trk[h] # None, h \notin durable
      PROVE  Fits(after[h][trk[h]], stored[h], log[h])
  <2> DEFINE r == recs[h][trk[h]]
             s == after[h][trk[h]]
  <2>1. Fits(r, stored[h], log[h])
    BY <1>5
  <2>2. CASE h \notin seen
    BY <1>2, <1>5, <2>1, <2>2, FitsAlike
  <2>3. CASE h \in seen
    <3>1. evs[h] > 0
      BY <1>2, <1>5, <2>3 DEF Records
    <3>2. ~r.durable /\ ~s.durable /\ s.persisted = r.persisted
      BY <1>2, <1>5, <3>1
    <3> QED
      BY <2>1, <3>2 DEF Fits
  <2> QED
    BY <2>2, <2>3
<1> HIDE DEF durable, put
<1>6. ASSUME NEW h \in Hashes
      PROVE  /\ stored'[h] \in Entry \cup {None} /\ log'[h] \in Log
             /\ LogFits(stored'[h], log'[h])
             /\ h \in expired => stored'[h] = None
             /\ trk[h] = None /\ h \notin expired => stored'[h] = stored[h]
             /\ trk[h] # None /\ h \notin expired => Fits(after[h][trk[h]], stored'[h], log'[h])
  <2>1. CASE h \in expired
    BY <1>1, <2>1, NewLog DEF LogFits
  <2>2. CASE h \notin expired /\ h \in durable
    BY <1>1, <1>4, <2>2
  <2>3. CASE h \notin expired /\ h \notin durable
    BY <1>1, <1>5, <2>3 DEF TypeInv
  <2> QED
    BY <2>1, <2>2, <2>3
<1>7. stored' \in [Hashes -> Entry \cup {None}] /\ log' \in [Hashes -> Log]
  BY <1>1, <1>6
<1> QED
  BY <1>6, <1>7 DEF after

-----------------------------------------------------------------------------
(* The steps. *)

\* IInv of the next state, in terms of the records before the forgotten ones
\* are dropped.
LEMMA Rebuilt ==
  ASSUME NEW after \in AllRecords, rec' = Kept(after),
         started' \in BOOLEAN, tracked' \in Maps, polls' \subseteq Handle,
         handle' \in [Consumers -> Handle \cup {None}],
         told' \in [Consumers -> BOOLEAN], missed' \in [Consumers -> BOOLEAN],
         stored' \in [Hashes -> Entry \cup {None}], log' \in [Hashes -> Log],
         \A c \in Consumers : handle'[c] # None /\ ~told'[c] =>
           /\ tracked'[handle'[c].hash] = handle'[c].life
           /\ Callback[c] \in after[handle'[c].hash][handle'[c].life].subs
           /\ ~missed'[c],
         \A h \in Hashes : LogFits(stored'[h], log'[h]),
         \A h \in Hashes : tracked'[h] # None =>
           Ready' /\ Fits(after[h][tracked'[h]], stored'[h], log'[h]),
         Ready' => \A h \in Hashes : tracked'[h] = None => stored'[h] = None,
         listings' # <<>> => started' /\ listings' = <<stored'>>
  PROVE  IInv'
<1>1. /\ rec' \in AllRecords
      /\ \A h \in Hashes : tracked'[h] # None => rec'[h][tracked'[h]] = after[h][tracked'[h]]
      /\ Forgotten'
  BY KeptIs DEF AllRecords
<1>2. TypeInv'
  BY <1>1 DEF TypeInv, AllRecords
<1>3. \A h \in Hashes : /\ (h \in Live)' <=> tracked'[h] # None
                        /\ Current(h)' = rec'[h][tracked'[h]]
  BY DEF Live, Current
<1>4. SessionInv'
  BY <1>3 DEF SessionInv, Live
<1>5. Served'
  <2>1. ASSUME NEW c \in Consumers, handle'[c] # None, ~told'[c]
        PROVE  /\ IsCurrent(handle[c])'
               /\ (Callback[c] \in Current(handle[c].hash).subs)'
               /\ ~missed'[c]
    <3>1. handle'[c].hash \in Hashes /\ handle'[c].life \in Lives /\ handle'[c].life # None
      BY <2>1, NoneIsNot DEF Handle
    <3>2. tracked'[handle'[c].hash] = handle'[c].life /\ ~missed'[c]
          /\ Callback[c] \in after[handle'[c].hash][handle'[c].life].subs
      BY <2>1
    <3>3. rec'[handle'[c].hash][tracked'[handle'[c].hash]] = after[handle'[c].hash][handle'[c].life]
      BY <1>1, <3>1, <3>2
    <3> QED
      BY <3>2, <3>3 DEF IsCurrent, Current
  <2> QED
    BY <2>1 DEF Served
<1>6. StoreInv'
  BY <1>1, <1>3 DEF StoreInv
<1> QED
  BY <1>1, <1>2, <1>4, <1>5, <1>6 DEF IInv

\* The record of a subscription that goes on.
LEMMA ServedIs ==
  ASSUME IInv, NEW c \in Consumers, handle[c] # None, ~told[c]
  PROVE  /\ handle[c].hash \in Hashes /\ handle[c].life \in Lives
         /\ tracked[handle[c].hash] = handle[c].life /\ handle[c].hash \in Live
         /\ Callback[c] \in rec[handle[c].hash][handle[c].life].subs
         /\ ~missed[c]
<1>1. handle[c].hash \in Hashes /\ handle[c].life \in Lives /\ handle[c].life # None
  BY NoneIsNot DEF IInv, TypeInv, Handle
<1> QED
  BY <1>1 DEF IInv, Served, IsCurrent, Current, Live

\* What the records and the store say of each other, one hash at a time.
LEMMA StoreIs ==
  ASSUME IInv
  PROVE  /\ rec \in AllRecords /\ tracked \in Maps
         /\ \A h \in Hashes : /\ LogFits(stored[h], log[h])
                              /\ tracked[h] # None =>
                                   Ready /\ Fits(rec[h][tracked[h]], stored[h], log[h])
                              /\ Ready /\ tracked[h] = None => stored[h] = None
  BY DEF IInv, TypeInv, AllRecords, StoreInv, SessionInv, Live, Current

\* Steps that change no record, no store and no session.
LEMMA IdleKeeps ==
  IInv /\ UNCHANGED <<started, tracked, rec, handle, told, missed, listings, polls, disk>> => IInv'
  BY DEF IInv, TypeInv, SessionInv, Forgotten, Served, StoreInv, Live, Ready, FreshLives, Handles,
     IsCurrent, Current, disk

\* A poll that finds nothing, a handle that is let go.
LEMMA LetGoKeeps ==
  ASSUME IInv, rec' = Kept(rec), UNCHANGED <<started, tracked, told, listings, disk>>,
         polls' \subseteq polls,
         handle' \in [Consumers -> Handle \cup {None}],
         missed' \in [Consumers -> BOOLEAN],
         \A c \in Consumers : handle'[c] # None => handle'[c] = handle[c] /\ missed'[c] = missed[c]
  PROVE  IInv'
<1>1. Ready' = Ready /\ stored' = stored /\ log' = log
  BY DEF Ready, disk
<1>2. \A c \in Consumers : handle'[c] # None /\ ~told'[c] =>
        /\ tracked'[handle'[c].hash] = handle'[c].life
        /\ Callback[c] \in rec[handle'[c].hash][handle'[c].life].subs
        /\ ~missed'[c]
  BY ServedIs
<1>3. /\ started' \in BOOLEAN /\ tracked' \in Maps /\ polls' \subseteq Handle
      /\ told' \in [Consumers -> BOOLEAN]
      /\ stored' \in [Hashes -> Entry \cup {None}] /\ log' \in [Hashes -> Log]
      /\ listings' # <<>> => started' /\ listings' = <<stored'>>
  BY <1>1 DEF IInv, TypeInv, SessionInv
<1> QED
  BY <1>1, <1>2, <1>3, StoreIs, Rebuilt

\* A durable subscription is in the record's entries, and was put with them.
LEMMA EnlistedIs ==
  ASSUME NEW c \in Durable, NEW r \in Records
  PROVE  /\ Enlisted(c, r) \in Seq(Names)
         /\ Enlisted(c, r) = r.persisted => r.persisted # <<>>
<1> DEFINE id == IF Ids[c] = None THEN "sub" ELSE Ids[c]
           known == IF Ids[c] = None THEN Len(r.persisted) > 0 ELSE Ids[c] \in Range(r.persisted)
<1>1. id \in Names /\ r.persisted \in Seq(Names)
  BY DEF Records, Names
<1>2. CASE known
  <2>1. r.persisted # <<>>
    <3>1. CASE Ids[c] = None
      BY <1>1, <1>2, <3>1
    <3>2. CASE Ids[c] # None
      BY <1>2, <3>2 DEF Range
    <3> QED
      BY <3>1, <3>2
  <2> QED
    BY <1>1, <1>2, <2>1 DEF Enlisted
<1>3. CASE ~known
  <2>1. Enlisted(c, r) = Append(r.persisted, id)
    BY <1>3 DEF Enlisted
  <2> HIDE DEF id
  <2>2. Len(Append(r.persisted, id)) = Len(r.persisted) + 1 /\ Len(r.persisted) \in Nat
    BY <1>1
  <2> QED
    BY <1>1, <2>1, <2>2
<1> QED
  BY <1>2, <1>3

LEMMA SubscribeKeeps ==
  ASSUME Careful, IInv, NEW c \in Consumers, NEW h \in Hashes, Subscribe(c, h)
  PROVE  IInv'
<1>1. PICK i : i = IF h \in Live THEN tracked[h] ELSE Fresh(h)
  OBVIOUS
<1>2. PICK r : r = IF h \in Live THEN Current(h) ELSE NoRecord
  OBVIOUS
<1>3. PICK p : p = IF c \in Durable THEN Enlisted(c, r) ELSE r.persisted
  OBVIOUS
<1> DEFINE durable == r.durable \/ c \in Durable
           receipts == r.receipts \/ h \in Receipts
           subs == r.subs \cup {Callback[c]}
<1>4. PICK s : s = [r EXCEPT !.durable = durable, !.persisted = p, !.receipts = receipts,
                             !.subs = subs]
  OBVIOUS
<1>5. /\ handle[c] = None /\ Ready /\ Room({h})
      /\ tracked' = [tracked EXCEPT ![h] = i]
      /\ handle' = [handle EXCEPT ![c] = [hash |-> h, life |-> i]]
      /\ stored' = IF p = r.persisted THEN stored ELSE Put(h, s)
      /\ rec' = Kept([rec EXCEPT ![h][i] = s])
      /\ told' = [told EXCEPT ![c] = FALSE] /\ missed' = [missed EXCEPT ![c] = FALSE]
      /\ UNCHANGED <<started, listings, polls, log>>
  BY <1>1, <1>2, <1>3, <1>4 DEF Subscribe, Careful
<1>6. /\ i \in Lives /\ r \in Records /\ (tracked[h] # None => tracked[h] = i)
      /\ h \in Live => r = rec[h][i]
      /\ h \notin Live => tracked[h] = None /\ r = NoRecord
  <2>1. CASE h \in Live
    BY <1>1, <1>2, <2>1, LiveIs DEF IInv
  <2>2. CASE h \notin Live
    <3>1. FreshLives(h) # {}
      BY <1>5, <2>2 DEF Room
    <3> QED
      BY <1>1, <1>2, <2>2, <3>1, FreshIs, NewRecord DEF Live
  <2> QED
    BY <2>1, <2>2
<1>7. p \in Seq(Names) /\ (c \in Durable /\ p = r.persisted => r.persisted # <<>>)
  BY <1>3, <1>6, EnlistedIs DEF Records
<1>8. /\ s \in Records /\ s.status = r.status /\ s.persisted = p
      /\ s.durable = (r.durable \/ c \in Durable)
      /\ s.subs = r.subs \cup {Callback[c]}
  <2>1. durable \in BOOLEAN /\ receipts \in BOOLEAN /\ subs \in SUBSET (Callbacks \cup Autos)
    BY <1>6 DEF Records, Callbacks
  <2> HIDE DEF durable, receipts, subs
  <2>2. /\ s \in Records /\ s.status = r.status /\ s.persisted = p
        /\ s.durable = durable /\ s.subs = subs
    BY <1>4, <1>6, <1>7, <2>1 DEF Records
  <2> QED
    BY <2>2 DEF durable, subs
<1> DEFINE after == [rec EXCEPT ![h][i] = s]
<1>9. /\ after \in AllRecords /\ after[h][i] = s
      /\ \A k \in Hashes, j \in Lives : k # h \/ j # i => after[k][j] = rec[k][j]
  BY <1>6, <1>8, StoreIs DEF AllRecords
<1>10. Fits(r, stored[h], log[h]) /\ LogFits(stored[h], log[h])
  <2>1. CASE h \in Live
    <3>1. tracked[h] # None /\ tracked[h] = i /\ r = rec[h][i]
      BY <1>6, <2>1, LiveIs DEF IInv
    <3> QED
      BY <3>1, StoreIs
  <2>2. CASE h \notin Live
    BY <1>5, <1>6, <2>2, StoreIs, NewRecord DEF Fits, LogFits
  <2> QED
    BY <2>1, <2>2
<1>11. /\ stored' \in [Hashes -> Entry \cup {None}]
       /\ \A k \in Hashes \ {h} : stored'[k] = stored[k]
       /\ Fits(s, stored'[h], log[h]) /\ LogFits(stored'[h], log[h])
  <2>1. CASE p = r.persisted
    BY <1>5, <1>7, <1>8, <1>10, <2>1 DEF IInv, TypeInv, Fits
  <2>2. CASE p # r.persisted
    <3> DEFINE put == [status |-> r.status, persisted |-> p]
    <3>1. stored' = [stored EXCEPT ![h] = put] /\ s.durable
      BY <1>3, <1>5, <1>8, <2>2 DEF Put
    <3>2. put \in Entry /\ put.status = r.status
      BY <1>6, <1>7 DEF Entry, Records
    <3>3. put # None
      BY <3>2, NoneIsNot
    <3>4. log[h] # EmptyLog => r.durable /\ ~log[h].gap /\ log[h].last \in {r.status, r.status + 1}
      BY <1>10 DEF Fits, LogFits
    <3> HIDE DEF put
    <3>5. stored' \in [Hashes -> Entry \cup {None}] /\ stored'[h] = put
          /\ \A k \in Hashes \ {h} : stored'[k] = stored[k]
      BY <3>1, <3>2 DEF IInv, TypeInv
    <3>6. Fits(s, put, log[h]) /\ LogFits(put, log[h])
      BY <1>8, <3>1, <3>2, <3>3, <3>4 DEF Fits, LogFits
    <3> QED
      BY <3>5, <3>6
  <2> QED
    BY <2>1, <2>2
<1>12. /\ tracked' \in Maps /\ tracked'[h] = i /\ i # None
       /\ \A k \in Hashes \ {h} : tracked'[k] = tracked[k]
  BY <1>5, <1>6, StoreIs, NoneIsNot DEF Maps
<1>13. [hash |-> h, life |-> i] \in Handle
  BY <1>6 DEF Handle
<1> HIDE DEF after
<1>14. ASSUME NEW d \in Consumers, handle'[d] # None, ~told'[d]
       PROVE  /\ tracked'[handle'[d].hash] = handle'[d].life
              /\ Callback[d] \in after[handle'[d].hash][handle'[d].life].subs
              /\ ~missed'[d]
  <2>1. CASE d = c
    <3>1. handle'[d].hash = h /\ handle'[d].life = i /\ ~missed'[d]
      BY <1>5, <2>1 DEF IInv, TypeInv
    <3> QED
      BY <1>8, <1>9, <1>12, <2>1, <3>1
  <2>2. CASE d # c
    <3>1. handle'[d] = handle[d] /\ told'[d] = told[d] /\ missed'[d] = missed[d]
      BY <1>5, <2>2 DEF IInv, TypeInv
    <3>2. /\ handle[d].hash \in Hashes /\ handle[d].life \in Lives
          /\ tracked[handle[d].hash] = handle[d].life /\ handle[d].hash \in Live
          /\ Callback[d] \in rec[handle[d].hash][handle[d].life].subs
          /\ ~missed[d]
      BY <1>14, <3>1, ServedIs
    <3>3. tracked'[handle[d].hash] = handle[d].life
      BY <1>6, <1>12, <3>2, NoneIsNot
    <3>4. Callback[d] \in after[handle[d].hash][handle[d].life].subs
      BY <1>6, <1>8, <1>9, <3>2
    <3> QED
      BY <3>1, <3>2, <3>3, <3>4
  <2> QED
    BY <2>1, <2>2
<1>15. ASSUME NEW k \in Hashes
       PROVE  /\ LogFits(stored'[k], log'[k])
              /\ tracked'[k] # None => Ready' /\ Fits(after[k][tracked'[k]], stored'[k], log'[k])
              /\ tracked'[k] = None => stored'[k] = None
  <2>1. CASE k = h
    BY <1>5, <1>9, <1>11, <1>12, <2>1 DEF Ready
  <2>2. CASE k # h
    <3>1. tracked[k] # None => after[k][tracked[k]] = rec[k][tracked[k]]
      BY <1>9, <2>2, StoreIs DEF Maps
    <3> QED
      BY <1>5, <1>11, <1>12, <2>2, <3>1, StoreIs DEF Ready
  <2> QED
    BY <2>1, <2>2
<1>16. /\ started' \in BOOLEAN /\ polls' \subseteq Handle /\ log' \in [Hashes -> Log]
       /\ handle' \in [Consumers -> Handle \cup {None}]
       /\ told' \in [Consumers -> BOOLEAN] /\ missed' \in [Consumers -> BOOLEAN]
  BY <1>5, <1>13 DEF IInv, TypeInv
<1>17. rec' = Kept(after) /\ listings' = <<>>
  BY <1>5 DEF after, Ready
<1> QED
  BY <1>9, <1>11, <1>12, <1>14, <1>15, <1>16, <1>17, Rebuilt

\* The records a step decides about: those there are, with what bulk selectors add.
Extending(trk, recs) ==
  /\ trk \in Maps /\ recs \in AllRecords
  /\ \A h \in Hashes : tracked[h] # None =>
       trk[h] = tracked[h] /\ Current(h).subs \subseteq recs[h][trk[h]].subs
  /\ \A h \in Hashes : trk[h] # None =>
       Ready /\ Fits(recs[h][trk[h]], stored[h], log[h])

LEMMA SameExtends == IInv => Extending(tracked, rec)
  BY StoreIs DEF Extending, Current

LEMMA AttachedExtends ==
  ASSUME IInv, Ready, NEW txs \in SUBSET Hashes, Room(txs)
  PROVE  Extending(Tracking(txs), Attached(txs))
<1>1. TypeInv /\ Forgotten
  BY DEF IInv
<1>2. Attached(txs) \in AllRecords /\ Tracking(txs) \in Maps
  BY <1>1, AttachedIs
<1>3. ASSUME NEW h \in Hashes, tracked[h] # None
      PROVE  /\ Tracking(txs)[h] = tracked[h]
             /\ Current(h).subs \subseteq Attached(txs)[h][Tracking(txs)[h]].subs
             /\ Fits(Attached(txs)[h][Tracking(txs)[h]], stored[h], log[h])
  <2>1. Fits(Current(h), stored[h], log[h])
    BY <1>3, StoreIs DEF Current
  <2> QED
    BY <1>1, <1>3, <2>1, AttachedIs, FitsAlike
<1>4. ASSUME NEW h \in Hashes, tracked[h] = None, Tracking(txs)[h] # None
      PROVE  Fits(Attached(txs)[h][Tracking(txs)[h]], stored[h], log[h])
  <2>1. stored[h] = None
    BY <1>4, StoreIs
  <2> QED
    BY <1>1, <1>4, <2>1, AttachedIs DEF Fits
<1> QED
  BY <1>2, <1>3, <1>4 DEF Extending

LEMMA ExtendingServes ==
  ASSUME IInv, NEW trk, NEW recs, Extending(trk, recs),
         NEW c \in Consumers, handle[c] # None, ~told[c]
  PROVE  /\ handle[c].hash \in Hashes /\ handle[c].life \in Lives
         /\ trk[handle[c].hash] = handle[c].life /\ handle[c].life # None
         /\ Callback[c] \in recs[handle[c].hash][handle[c].life].subs
<1>1. /\ handle[c].hash \in Hashes /\ handle[c].life \in Lives
      /\ tracked[handle[c].hash] = handle[c].life
      /\ Callback[c] \in rec[handle[c].hash][handle[c].life].subs
  BY ServedIs
<1>2. handle[c].life # None
  BY <1>1, NoneIsNot
<1> QED
  BY <1>1, <1>2 DEF Extending, Current

\* The rest of onBlock keeps IInv, whatever records it finds.
LEMMA FinishKeeps ==
  ASSUME IInv, NEW trk, NEW recs, Extending(trk, recs), Finish(trk, recs),
         UNCHANGED <<started, listings>>
  PROVE  IInv'
<1>1. PICK seen \in SUBSET Observable(trk, recs),
           expired \in SUBSET {h \in Hashes : trk[h] # None /\ recs[h][trk[h]].status = Final} :
        /\ Announce(trk, Seen(recs, trk, seen), Events(recs, trk, seen), expired)
        /\ Persist(trk, Seen(recs, trk, seen), Events(recs, trk, seen), expired)
        /\ tracked' = [h \in Hashes |-> IF h \in expired THEN None ELSE trk[h]]
        /\ polls' = polls \/ polls' = polls \cup
             {[hash |-> h, life |-> tracked'[h]] : h \in {k \in Hashes : tracked'[k] # None} \cap Polled}
        /\ handle' = handle /\ rec' = Kept(Seen(recs, trk, seen))
  BY DEF Finish
<1> DEFINE after == Seen(recs, trk, seen)
           evs == Events(recs, trk, seen)
<1>2. /\ seen \in SUBSET Hashes /\ expired \in SUBSET Hashes
      /\ \A h \in seen : trk[h] # None
      /\ \A h \in expired : trk[h] # None
      /\ trk \in Maps /\ recs \in AllRecords /\ TypeInv /\ Served
  BY DEF Observable, Extending, IInv
<1>3. /\ after \in AllRecords
      /\ \A h \in Hashes : trk[h] # None => after[h][trk[h]].subs = recs[h][trk[h]].subs
  BY <1>2, SeenIs
<1>4. /\ stored' \in [Hashes -> Entry \cup {None}] /\ log' \in [Hashes -> Log]
      /\ \A h \in Hashes :
           /\ LogFits(stored'[h], log'[h])
           /\ h \in expired => stored'[h] = None
           /\ trk[h] = None /\ h \notin expired => stored'[h] = stored[h]
           /\ trk[h] # None /\ h \notin expired => Fits(after[h][trk[h]], stored'[h], log'[h])
  <2>1. /\ \A h \in Hashes : LogFits(stored[h], log[h])
        /\ \A h \in Hashes : trk[h] # None => Fits(recs[h][trk[h]], stored[h], log[h])
        /\ Persist(trk, after, evs, expired)
    BY <1>1, StoreIs DEF Extending
  <2> QED
    BY <1>2, <2>1, PersistIs
<1> HIDE DEF after, evs
<1>5. \A c \in Consumers : handle[c] # None /\ ~told[c] =>
        /\ handle[c].hash \in Hashes /\ trk[handle[c].hash] = handle[c].life
        /\ trk[handle[c].hash] # None
        /\ Callback[c] \in after[handle[c].hash][trk[handle[c].hash]].subs
  BY <1>3, ExtendingServes
<1>6. Announce(trk, after, evs, expired)
  BY <1>1 DEF after, evs
<1>7. /\ told' \in [Consumers -> BOOLEAN] /\ missed' \in [Consumers -> BOOLEAN]
      /\ \A c \in Consumers : handle'[c] # None /\ ~told'[c] =>
           handle[c] # None /\ ~told[c] /\ ~missed'[c] /\ handle[c].hash \notin expired
  BY <1>1, <1>2, <1>5, <1>6, AnnounceIs
<1>8. /\ tracked' \in Maps /\ started' \in BOOLEAN /\ rec' = Kept(after)
      /\ handle' \in [Consumers -> Handle \cup {None}]
  BY <1>1, <1>2 DEF after, Maps, TypeInv
<1>9. polls' \subseteq Handle
  BY <1>1, <1>2, <1>8 DEF Maps, TypeInv, Handle
<1>10. \A c \in Consumers : handle'[c] # None /\ ~told'[c] =>
         /\ tracked'[handle'[c].hash] = handle'[c].life
         /\ Callback[c] \in after[handle'[c].hash][handle'[c].life].subs
         /\ ~missed'[c]
  BY <1>1, <1>5, <1>7
<1>11. Ready' = Ready /\ listings' = listings
  BY DEF Ready
<1>12. \A h \in Hashes : tracked'[h] # None => Ready' /\ Fits(after[h][tracked'[h]], stored'[h], log'[h])
  BY <1>1, <1>4, <1>11 DEF Extending
<1>13. Ready' => \A h \in Hashes : tracked'[h] = None => stored'[h] = None
  <2> SUFFICES ASSUME Ready, NEW h \in Hashes, tracked'[h] = None PROVE stored'[h] = None
    BY <1>11
  <2>1. CASE h \in expired
    BY <1>4, <2>1
  <2>2. CASE h \notin expired
    <3>1. trk[h] = None /\ tracked[h] = None
      BY <1>1, <2>2 DEF Extending
    <3> QED
      BY <1>4, <2>2, <3>1, StoreIs
  <2> QED
    BY <2>1, <2>2
<1>14. listings' # <<>> => started' /\ listings' = <<stored'>>
  <2> SUFFICES ASSUME listings # <<>> PROVE started /\ listings = <<stored'>>
    BY <1>11
  <2>1. started /\ listings = <<stored>> /\ ~Ready
    BY DEF IInv, SessionInv, Ready
  <2>2. \A h \in Hashes : trk[h] = None
    BY <2>1 DEF Extending
  <2>3. \A h \in Hashes : stored'[h] = stored[h]
    BY <1>2, <1>4, <2>2
  <2>4. stored' = stored
    BY <1>2, <1>4, <2>3 DEF TypeInv
  <2> QED
    BY <2>1, <2>4
<1> QED
  BY <1>3, <1>4, <1>7, <1>8, <1>9, <1>10, <1>12, <1>13, <1>14, Rebuilt

\* A handle is called: its record is the one tracked, for a consumer that was
\* told of the end has no handle.
LEMMA UnsubscribeKeeps ==
  ASSUME Careful, IInv, NEW c \in Consumers, Unsubscribe(c)
  PROVE  IInv'
<1>1. PICK h : h = handle[c].hash
  OBVIOUS
<1>2. PICK i : i = handle[c].life
  OBVIOUS
<1>3. PICK left : left = rec[h][i].subs \ {Callback[c]}
  OBVIOUS
<1>4. PICK s : s = [rec[h][i] EXCEPT !.subs = left]
  OBVIOUS
<1>5. /\ handle[c] # None /\ ~told[c]
      /\ tracked' = CleanupRecord(h, i, left)
      /\ handle' = [handle EXCEPT ![c] = None]
      /\ rec' = Kept([rec EXCEPT ![h][i] = s])
      /\ told' = [told EXCEPT ![c] = TRUE] /\ missed' = [missed EXCEPT ![c] = FALSE]
      /\ UNCHANGED <<started, listings, polls, stored, log>>
  BY <1>1, <1>2, <1>3, <1>4 DEF Unsubscribe, Careful, disk
<1>6. h \in Hashes /\ i \in Lives /\ tracked[h] = i /\ tracked[h] # None /\ Ready
  <2>1. h \in Hashes /\ i \in Lives /\ tracked[h] = i
    BY <1>1, <1>2, <1>5, ServedIs
  <2> QED
    BY <2>1, NoneIsNot, StoreIs
<1>7. /\ s \in Records /\ s.status = rec[h][i].status /\ s.durable = rec[h][i].durable
      /\ s.persisted = rec[h][i].persisted /\ s.subs = left
  <2>1. rec[h][i] \in Records
    BY <1>6, StoreIs DEF AllRecords
  <2>2. left \in SUBSET (Callbacks \cup Autos)
    BY <1>3, <2>1 DEF Records
  <2> QED
    BY <1>4, <2>1, <2>2 DEF Records
<1> DEFINE after == [rec EXCEPT ![h][i] = s]
<1>8. /\ after \in AllRecords /\ after[h][i] = s
      /\ \A k \in Hashes, j \in Lives : k # h \/ j # i => after[k][j] = rec[k][j]
  BY <1>6, <1>7, StoreIs DEF AllRecords
<1>9. /\ tracked' \in Maps
      /\ \A k \in Hashes \ {h} : tracked'[k] = tracked[k]
      /\ tracked'[h] = i \/ (left = {} /\ ~rec[h][i].durable /\ tracked'[h] = None)
  BY <1>5, <1>6, StoreIs DEF CleanupRecord, Maps
<1>10. Fits(rec[h][i], stored[h], log[h])
  BY <1>6, StoreIs
<1> HIDE DEF after
<1>11. ASSUME NEW d \in Consumers, handle'[d] # None, ~told'[d]
       PROVE  /\ tracked'[handle'[d].hash] = handle'[d].life
              /\ Callback[d] \in after[handle'[d].hash][handle'[d].life].subs
              /\ ~missed'[d]
  <2>1. d # c /\ handle'[d] = handle[d] /\ told'[d] = told[d] /\ missed'[d] = missed[d]
    BY <1>5, <1>11 DEF IInv, TypeInv
  <2>2. /\ handle[d].hash \in Hashes /\ handle[d].life \in Lives
        /\ tracked[handle[d].hash] = handle[d].life
        /\ Callback[d] \in rec[handle[d].hash][handle[d].life].subs
        /\ ~missed[d]
    BY <1>11, <2>1, ServedIs
  <2>3. CASE handle[d].hash = h
    <3>1. handle[d].life = i
      BY <1>6, <2>2, <2>3
    <3>2. Callback[d] \in left
      BY <1>3, <2>1, <2>2, <2>3, <3>1 DEF Careful
    <3> QED
      BY <1>7, <1>8, <1>9, <2>1, <2>2, <2>3, <3>1, <3>2
  <2>4. CASE handle[d].hash # h
    BY <1>8, <1>9, <2>1, <2>2, <2>4
  <2> QED
    BY <2>3, <2>4
<1>12. ASSUME NEW k \in Hashes
       PROVE  /\ LogFits(stored'[k], log'[k])
              /\ tracked'[k] # None => Ready' /\ Fits(after[k][tracked'[k]], stored'[k], log'[k])
              /\ Ready' /\ tracked'[k] = None => stored'[k] = None
  <2>1. LogFits(stored[k], log[k])
    BY StoreIs
  <2>2. CASE k = h
    <3>1. Fits(s, stored[h], log[h])
      BY <1>7, <1>10, FitsAlike
    <3>2. tracked'[h] = None => stored[h] = None
      BY <1>6, <1>9, <1>10 DEF Fits
    <3> QED
      BY <1>5, <1>6, <1>8, <1>9, <2>1, <2>2, <3>1, <3>2 DEF Ready
  <2>3. CASE k # h
    <3>1. tracked[k] # None => after[k][tracked[k]] = rec[k][tracked[k]]
      BY <1>8, <2>3, StoreIs DEF Maps
    <3> QED
      BY <1>5, <1>9, <2>1, <2>3, <3>1, StoreIs DEF Ready
  <2> QED
    BY <2>2, <2>3
<1>13. /\ started' \in BOOLEAN /\ polls' \subseteq Handle
       /\ stored' \in [Hashes -> Entry \cup {None}] /\ log' \in [Hashes -> Log]
       /\ handle' \in [Consumers -> Handle \cup {None}]
       /\ told' \in [Consumers -> BOOLEAN] /\ missed' \in [Consumers -> BOOLEAN]
  BY <1>5 DEF IInv, TypeInv
<1>14. rec' = Kept(after) /\ listings' = <<>>
  BY <1>5, <1>6 DEF after, Ready
<1> QED
  BY <1>8, <1>9, <1>11, <1>12, <1>13, <1>14, Rebuilt

LEMMA DropKeeps ==
  ASSUME IInv, NEW c \in Consumers, Drop(c)
  PROVE  IInv'
<1>1. /\ rec' = Kept(rec) /\ UNCHANGED <<started, tracked, told, listings, disk, polls>>
      /\ handle' = [handle EXCEPT ![c] = None] /\ missed' = [missed EXCEPT ![c] = FALSE]
  BY DEF Drop
<1>2. /\ handle' \in [Consumers -> Handle \cup {None}] /\ missed' \in [Consumers -> BOOLEAN]
      /\ \A d \in Consumers : handle'[d] # None => handle'[d] = handle[d] /\ missed'[d] = missed[d]
  BY <1>1 DEF IInv, TypeInv
<1> QED
  BY <1>1, <1>2, LetGoKeeps

\* A block: all of onBlock, or what comes before it awaits receipts.
LEMMA OnBlockKeeps ==
  ASSUME Careful, IInv, NEW txs \in SUBSET Hashes, OnBlock(txs)
  PROVE  IInv'
<1>1. Ready /\ Room(txs) /\ UNCHANGED <<started, listings>>
  BY DEF OnBlock, Careful, Ready
<1>2. Extending(Tracking(txs), Attached(txs))
  BY <1>1, AttachedExtends
<1>3. CASE /\ tracked' = Tracking(txs) /\ rec' = Kept(Attached(txs))
           /\ UNCHANGED <<consumers, polls, disk>>
  <2>1. /\ Attached(txs) \in AllRecords /\ tracked' \in Maps
        /\ UNCHANGED <<handle, told, missed, stored, log>> /\ listings' = <<>> /\ Ready'
    BY <1>1, <1>2, <1>3 DEF Extending, consumers, disk, Ready
  <2>2. \A c \in Consumers : handle'[c] # None /\ ~told'[c] =>
          /\ tracked'[handle'[c].hash] = handle'[c].life
          /\ Callback[c] \in Attached(txs)[handle'[c].hash][handle'[c].life].subs
          /\ ~missed'[c]
    BY <1>2, <1>3, <2>1, ExtendingServes, ServedIs
  <2>3. \A h \in Hashes : /\ LogFits(stored'[h], log'[h])
                          /\ tracked'[h] # None =>
                               Fits(Attached(txs)[h][tracked'[h]], stored'[h], log'[h])
                          /\ tracked'[h] = None => stored'[h] = None
    BY <1>1, <1>2, <1>3, <2>1, StoreIs DEF Extending
  <2>4. /\ started' \in BOOLEAN /\ polls' \subseteq Handle
        /\ stored' \in [Hashes -> Entry \cup {None}] /\ log' \in [Hashes -> Log]
        /\ handle' \in [Consumers -> Handle \cup {None}]
        /\ told' \in [Consumers -> BOOLEAN] /\ missed' \in [Consumers -> BOOLEAN]
    BY <1>1, <1>3, <2>1 DEF IInv, TypeInv
  <2> QED
    BY <1>3, <2>1, <2>2, <2>3, <2>4, Rebuilt
<1>4. CASE Finish(Tracking(txs), Attached(txs))
  BY <1>1, <1>2, <1>4, FinishKeeps
<1> QED
  BY <1>3, <1>4 DEF OnBlock

LEMMA ResumeBlockKeeps == IInv /\ ResumeBlock => IInv'
<1> SUFFICES ASSUME IInv, ResumeBlock PROVE IInv'
  OBVIOUS
<1>1. Finish(tracked, rec) /\ UNCHANGED <<started, listings>> /\ Extending(tracked, rec)
  BY SameExtends DEF ResumeBlock
<1> QED
  BY <1>1, FinishKeeps

\* The mempool: decisions about the records there are, emitted before a bulk
\* selector's new subscribers are theirs.
LEMMA OnMempoolKeeps ==
  ASSUME Careful, IInv, NEW txs \in SUBSET Hashes, OnMempool(txs)
  PROVE  IInv'
<1>1. /\ Ready /\ Room(txs) /\ tracked' = Tracking(txs)
      /\ UNCHANGED <<started, listings, handle, polls>>
  BY DEF OnMempool, Careful, Ready
<1>2. PICK seen \in SUBSET Observable(tracked, rec) :
        /\ Announce(tracked, rec, Events(rec, tracked, seen), {})
        /\ Persist(tracked, Seen(rec, tracked, seen), Events(rec, tracked, seen), {})
        /\ rec' = Kept(Seen(Attached(txs), tracked, seen))
  BY DEF OnMempool
<1>3. /\ seen \in SUBSET Hashes /\ \A h \in seen : tracked[h] # None
      /\ TypeInv /\ Forgotten /\ Served
  BY DEF Observable, IInv
<1>4. Extending(Tracking(txs), Attached(txs)) /\ Extending(tracked, rec)
  BY <1>1, AttachedExtends, SameExtends
<1> DEFINE trk == Tracking(txs)
           mid == Seen(rec, tracked, seen)
           after == Seen(Attached(txs), tracked, seen)
<1>5. /\ \A h \in Hashes : tracked[h] # None =>
           /\ trk[h] = tracked[h]
           /\ after[h][tracked[h]].status = mid[h][tracked[h]].status
           /\ after[h][tracked[h]].durable = mid[h][tracked[h]].durable
           /\ after[h][tracked[h]].persisted = mid[h][tracked[h]].persisted
           /\ rec[h][tracked[h]].subs \subseteq after[h][tracked[h]].subs
      /\ after \in AllRecords
  <2>1. rec \in AllRecords /\ Attached(txs) \in AllRecords /\ tracked \in Maps
    BY <1>4 DEF Extending
  <2>2. after \in AllRecords
    BY <1>3, <2>1, SeenIs
  <2>3. ASSUME NEW h \in Hashes, tracked[h] # None
        PROVE  /\ trk[h] = tracked[h]
               /\ after[h][tracked[h]].status = mid[h][tracked[h]].status
               /\ after[h][tracked[h]].durable = mid[h][tracked[h]].durable
               /\ after[h][tracked[h]].persisted = mid[h][tracked[h]].persisted
               /\ rec[h][tracked[h]].subs \subseteq after[h][tracked[h]].subs
    <3> DEFINE r == rec[h][tracked[h]]
               s == Attached(txs)[h][tracked[h]]
    <3>1. /\ trk[h] = tracked[h] /\ s.status = r.status /\ s.durable = r.durable
          /\ s.persisted = r.persisted /\ r.subs \subseteq s.subs
      BY <1>1, <1>3, <2>3, AttachedIs DEF Current
    <3>2. /\ mid[h][tracked[h]].status = IF h \in seen THEN r.status + 1 ELSE r.status
          /\ mid[h][tracked[h]].durable = r.durable
          /\ mid[h][tracked[h]].persisted = r.persisted
      BY <1>3, <2>1, <2>3, SeenIs
    <3>3. /\ after[h][tracked[h]].status = IF h \in seen THEN s.status + 1 ELSE s.status
          /\ after[h][tracked[h]].durable = s.durable
          /\ after[h][tracked[h]].persisted = s.persisted
          /\ after[h][tracked[h]].subs = s.subs
      BY <1>3, <2>1, <2>3, SeenIs
    <3> HIDE DEF r, s, mid, after, trk
    <3>4. r.subs \subseteq after[h][tracked[h]].subs
      BY <3>1, <3>3
    <3> QED
      BY <3>1, <3>2, <3>3, <3>4 DEF r
  <2> QED
    BY <2>2, <2>3
<1>6. /\ stored' \in [Hashes -> Entry \cup {None}] /\ log' \in [Hashes -> Log]
      /\ \A h \in Hashes :
           /\ LogFits(stored'[h], log'[h])
           /\ tracked[h] = None => stored'[h] = stored[h]
           /\ tracked[h] # None => Fits(mid[h][tracked[h]], stored'[h], log'[h])
  <2>1. /\ rec \in AllRecords /\ tracked \in Maps
        /\ \A h \in Hashes : LogFits(stored[h], log[h])
        /\ \A h \in Hashes : tracked[h] # None => Fits(rec[h][tracked[h]], stored[h], log[h])
    BY StoreIs
  <2>2. PICK none \in SUBSET Hashes : none = {}
    OBVIOUS
  <2>3. Persist(tracked, mid, Events(rec, tracked, seen), none) /\ mid = Seen(rec, tracked, seen)
    BY <1>2, <2>2
  <2> HIDE DEF mid
  <2>4. /\ stored' \in [Hashes -> Entry \cup {None}] /\ log' \in [Hashes -> Log]
        /\ \A h \in Hashes :
             /\ LogFits(stored'[h], log'[h])
             /\ tracked[h] = None /\ h \notin none => stored'[h] = stored[h]
             /\ tracked[h] # None /\ h \notin none =>
                  Fits(Seen(rec, tracked, seen)[h][tracked[h]], stored'[h], log'[h])
    BY <1>3, <2>1, <2>3, PersistIs
  <2> QED
    BY <2>2, <2>3, <2>4
<1>7. \A h \in Hashes : tracked[h] = None /\ trk[h] # None =>
        Fits(after[h][trk[h]], stored'[h], log'[h])
  <2> SUFFICES ASSUME NEW h \in Hashes, tracked[h] = None, trk[h] # None
               PROVE  Fits(after[h][trk[h]], stored'[h], log'[h])
    OBVIOUS
  <2>1. stored'[h] = None /\ after[h] = Attached(txs)[h]
    BY <1>1, <1>3, <1>6, StoreIs DEF Seen
  <2>2. ~Attached(txs)[h][trk[h]].durable /\ Attached(txs)[h][trk[h]].persisted = <<>>
    BY <1>1, <1>3, AttachedIs
  <2> QED
    BY <2>1, <2>2 DEF Fits
<1>8. /\ told' \in [Consumers -> BOOLEAN] /\ missed' \in [Consumers -> BOOLEAN]
      /\ \A c \in Consumers : handle'[c] # None /\ ~told'[c] =>
           handle[c] # None /\ ~told[c] /\ ~missed'[c]
  <2>1. \A c \in Consumers : handle[c] # None /\ ~told[c] =>
          /\ tracked[handle[c].hash] # None
          /\ Callback[c] \in rec[handle[c].hash][tracked[handle[c].hash]].subs
    BY <1>4, ExtendingServes
  <2> QED
    BY <1>1, <1>2, <1>3, <2>1, AnnounceIs
<1> HIDE DEF mid, after, trk
<1>9. \A c \in Consumers : handle'[c] # None /\ ~told'[c] =>
        /\ tracked'[handle'[c].hash] = handle'[c].life
        /\ Callback[c] \in after[handle'[c].hash][handle'[c].life].subs
        /\ ~missed'[c]
  <2> SUFFICES ASSUME NEW c \in Consumers, handle[c] # None, ~told[c]
               PROVE  /\ trk[handle[c].hash] = handle[c].life
                      /\ Callback[c] \in after[handle[c].hash][handle[c].life].subs
    BY <1>1, <1>8 DEF trk
  <2>1. /\ handle[c].hash \in Hashes /\ tracked[handle[c].hash] = handle[c].life
        /\ tracked[handle[c].hash] # None
        /\ Callback[c] \in rec[handle[c].hash][tracked[handle[c].hash]].subs
    BY <1>4, ExtendingServes
  <2> QED
    BY <1>5, <2>1
<1>10. /\ tracked' = trk /\ trk \in Maps /\ Ready' /\ listings' = <<>>
       /\ \A h \in Hashes : trk[h] = None => tracked[h] = None
  BY <1>1, <1>4 DEF trk, Extending, Ready
<1>11. \A h \in Hashes : /\ trk[h] # None => Fits(after[h][trk[h]], stored'[h], log'[h])
                         /\ trk[h] = None => stored'[h] = None
  <2>1. ASSUME NEW h \in Hashes, tracked[h] # None
        PROVE  Fits(after[h][trk[h]], stored'[h], log'[h])
    BY <1>5, <1>6, <2>1, FitsAlike
  <2> QED
    BY <1>1, <1>6, <1>7, <1>10, <2>1, StoreIs
<1>12. /\ started' \in BOOLEAN /\ polls' \subseteq Handle
       /\ handle' \in [Consumers -> Handle \cup {None}] /\ rec' = Kept(after)
  BY <1>1, <1>2 DEF IInv, TypeInv, after
<1> QED
  BY <1>5, <1>6, <1>8, <1>9, <1>10, <1>11, <1>12, Rebuilt

\* A poll: its answer is of the record the hash still has, or of none.
LEMMA AnswerPollKeeps ==
  ASSUME IInv, NEW r \in polls, AnswerPoll(r)
  PROVE  IInv'
<1>1. /\ polls' = polls \ {r} /\ UNCHANGED <<started, listings, tracked, handle>>
      /\ r \in Handle /\ TypeInv /\ Served
  BY DEF AnswerPoll, IInv, TypeInv
<1>2. CASE UNCHANGED <<told, missed, iter, disk>> /\ rec' = Kept(rec)
  BY <1>1, <1>2, LetGoKeeps DEF TypeInv
<1>3. CASE /\ IsCurrent(r)
           /\ Announce(tracked, rec, Events(rec, tracked, {r.hash}), {})
           /\ Persist(tracked, rec, Events(rec, tracked, {r.hash}), {})
           /\ rec' = Kept(Seen(rec, tracked, {r.hash}))
  <2> DEFINE seen == {r.hash}
             after == Seen(rec, tracked, seen)
  <2>1. /\ seen \in SUBSET Hashes /\ \A h \in seen : tracked[h] # None
        /\ rec \in AllRecords /\ tracked \in Maps
    BY <1>1, <1>3, NoneIsNot, StoreIs DEF IsCurrent, Handle
  <2>2. /\ after \in AllRecords
        /\ \A h \in Hashes : tracked[h] # None =>
             after[h][tracked[h]].subs = rec[h][tracked[h]].subs
    BY <2>1, SeenIs
  <2>3. /\ stored' \in [Hashes -> Entry \cup {None}] /\ log' \in [Hashes -> Log]
        /\ \A h \in Hashes :
             /\ LogFits(stored'[h], log'[h])
             /\ tracked[h] = None => stored'[h] = stored[h]
             /\ tracked[h] # None => Fits(after[h][tracked[h]], stored'[h], log'[h])
    <3>1. /\ \A h \in Hashes : LogFits(stored[h], log[h])
          /\ \A h \in Hashes : tracked[h] # None => Fits(rec[h][tracked[h]], stored[h], log[h])
      BY StoreIs
    <3>2. PICK none \in SUBSET Hashes : none = {}
      OBVIOUS
    <3>3. Persist(tracked, rec, Events(rec, tracked, seen), none)
      BY <1>3, <3>2
    <3> HIDE DEF seen
    <3>4. /\ stored' \in [Hashes -> Entry \cup {None}] /\ log' \in [Hashes -> Log]
          /\ \A h \in Hashes :
               /\ LogFits(stored'[h], log'[h])
               /\ tracked[h] = None /\ h \notin none => stored'[h] = stored[h]
               /\ tracked[h] # None /\ h \notin none =>
                    Fits(Seen(rec, tracked, seen)[h][tracked[h]], stored'[h], log'[h])
      BY <1>1, <2>1, <3>1, <3>3, PersistIs
    <3> QED
      BY <3>2, <3>4
  <2>4. \A c \in Consumers : handle[c] # None /\ ~told[c] =>
          /\ handle[c].hash \in Hashes /\ tracked[handle[c].hash] = handle[c].life
          /\ tracked[handle[c].hash] # None
          /\ Callback[c] \in rec[handle[c].hash][tracked[handle[c].hash]].subs
    BY SameExtends, ExtendingServes
  <2>5. /\ told' \in [Consumers -> BOOLEAN] /\ missed' \in [Consumers -> BOOLEAN]
        /\ \A c \in Consumers : handle'[c] # None /\ ~told'[c] =>
             handle[c] # None /\ ~told[c] /\ ~missed'[c]
    BY <1>1, <1>3, <2>4, AnnounceIs
  <2>6. /\ started' \in BOOLEAN /\ polls' \subseteq Handle /\ tracked' \in Maps
        /\ handle' \in [Consumers -> Handle \cup {None}] /\ rec' = Kept(after)
        /\ Ready' = Ready
    BY <1>1, <1>3, <2>1 DEF TypeInv, Ready
  <2> HIDE DEF seen, after
  <2>7. \A c \in Consumers : handle'[c] # None /\ ~told'[c] =>
          /\ tracked'[handle'[c].hash] = handle'[c].life
          /\ Callback[c] \in after[handle'[c].hash][handle'[c].life].subs
          /\ ~missed'[c]
    BY <1>1, <2>2, <2>4, <2>5
  <2>8. Ready /\ listings' = <<>>
    <3>1. r.hash \in Hashes /\ tracked[r.hash] # None
      BY <1>1, <1>3, NoneIsNot DEF IsCurrent, Handle
    <3> QED
      BY <1>1, <3>1, StoreIs DEF Ready
  <2>9. \A h \in Hashes : /\ tracked'[h] # None => Fits(after[h][tracked'[h]], stored'[h], log'[h])
                          /\ tracked'[h] = None => stored'[h] = None
    BY <1>1, <2>3, <2>8, StoreIs
  <2> QED
    BY <2>2, <2>3, <2>5, <2>6, <2>7, <2>8, <2>9, Rebuilt
<1> QED
  BY <1>2, <1>3 DEF AnswerPoll

LEMMA StartKeeps == IInv /\ Start => IInv'
<1> SUFFICES ASSUME IInv, Start PROVE IInv'
  OBVIOUS
<1>1. /\ UNCHANGED <<tracked, rec, handle, told, missed, polls, stored, log>>
      /\ started' = TRUE /\ listings = <<>> /\ listings' = <<stored>> /\ ~Ready
  <2>1. listings = <<>> /\ ~started
    BY DEF Start, IInv, SessionInv
  <2>2. Append(listings, stored) = <<stored>>
    BY <2>1
  <2> QED
    BY <2>1, <2>2, Zenon DEF Start, consumers, disk, Ready
<1>2. ~Ready' /\ Live' = Live /\ Live = {}
  BY <1>1 DEF Ready, Live, IInv, SessionInv
<1>3. TypeInv' /\ Forgotten'
  BY <1>1 DEF IInv, TypeInv, Forgotten, FreshLives, Handles
<1>4. SessionInv' /\ Served'
  BY <1>1, <1>2 DEF IInv, SessionInv, Served, IsCurrent, Current
<1>5. StoreInv'
  BY <1>1, <1>2 DEF IInv, StoreInv
<1> QED
  BY <1>3, <1>4, <1>5 DEF IInv

\* What a record read back from the store is.
LEMMA DedupedIs ==
  ASSUME NEW e \in Seq(Names)
  PROVE  Deduped(e) \in Seq(Names)
  BY DEF Deduped

\* The store is read back into a tracker that has no record yet.
LEMMA RehydrateKeeps ==
  ASSUME IInv, Rehydrate
  PROVE  IInv'
<1> DEFINE back == {h \in Hashes : stored[h] # None}
           Read(h) == [NoRecord EXCEPT !.status = stored[h].status, !.durable = TRUE,
                                       !.persisted = Deduped(stored[h].persisted)]
           put(h) == [status |-> stored[h].status, persisted |-> Read(h).persisted]
           after == [h \in Hashes |-> IF h \in back THEN [rec[h] EXCEPT ![Fresh(h)] = Read(h)]
                                      ELSE rec[h]]
<1>1. /\ listings = <<stored>> /\ listings' = <<>> /\ started /\ started' = started
      /\ \A h \in Hashes : tracked[h] = None
  <2>1. listings # <<>>
    BY DEF Rehydrate
  <2>2. listings = <<stored>> /\ started /\ ~Ready
    BY <2>1 DEF IInv, SessionInv, Ready
  <2>3. \A h \in Hashes : tracked[h] = None
    BY <2>2, StoreIs
  <2>4. Tail(listings) = <<>>
    BY <2>2
  <2> QED
    BY <2>2, <2>3, <2>4 DEF Rehydrate
<1>2. /\ Room(Hashes) /\ UNCHANGED <<handle, polls, told, missed, log>>
      /\ tracked' = [h \in Hashes |-> IF h \in back THEN Fresh(h) ELSE tracked[h]]
      /\ rec' = Kept(after)
      /\ stored' = [h \in Hashes |-> IF h \in back /\ Len(stored[h].persisted) > 1
                                     THEN put(h) ELSE stored[h]]
  <2>1. Head(listings) = stored
    BY <1>1
  <2>2. \A h \in Hashes : tracked[h] = None
    BY <1>1
  <2>3. {h \in Hashes : stored[h] # None /\ tracked[h] = None} = back
    BY <2>2
  <2> QED
    BY <2>1, <2>3, Zenon DEF Rehydrate
<1>3. ASSUME NEW h \in Hashes PROVE Fresh(h) \in Lives /\ Fresh(h) # None
  <2>1. FreshLives(h) # {}
    BY <1>1, <1>2 DEF Room, Live
  <2> QED
    BY <2>1, FreshIs, NoneIsNot
<1>4. ASSUME NEW h \in back
      PROVE  /\ h \in Hashes /\ stored[h] \in Entry /\ put(h) \in Entry
             /\ Read(h) \in Records /\ Read(h).durable /\ Read(h).status = stored[h].status
             /\ put(h).status = stored[h].status
  <2>1. stored[h] \in Entry /\ h \in Hashes
    BY DEF IInv, TypeInv
  <2>2. PICK e \in Seq(Names) : e = Deduped(stored[h].persisted)
    BY <2>1, DedupedIs DEF Entry
  <2>3. PICK n \in Nat : n = stored[h].status
    BY <2>1 DEF Entry
  <2>4. Read(h) = [NoRecord EXCEPT !.status = n, !.durable = TRUE, !.persisted = e]
    BY <2>2, <2>3
  <2> HIDE DEF Read
  <2>5. Read(h) \in Records /\ Read(h).durable /\ Read(h).status = n /\ Read(h).persisted = e
    BY <2>4, NewRecord DEF Records
  <2> QED
    BY <2>1, <2>3, <2>5 DEF Entry
<1> HIDE DEF Read, put
<1>5. ASSUME NEW h \in Hashes
      PROVE  /\ after[h] \in [Lives -> Records]
             /\ h \in back => after[h][Fresh(h)] = Read(h)
  <2>1. rec[h] \in [Lives -> Records]
    BY DEF IInv, TypeInv
  <2> QED
    BY <1>3, <1>4, <2>1
<1>6. after \in AllRecords
  <2>1. \A h \in Hashes : after[h] \in [Lives -> Records]
    BY <1>5
  <2>2. after = [h \in Hashes |-> after[h]]
    OBVIOUS
  <2> HIDE DEF after
  <2> QED
    BY <2>1, <2>2 DEF AllRecords
<1> HIDE DEF after
<1>7. ASSUME NEW h \in Hashes
      PROVE  /\ tracked'[h] \in Lives \cup {None}
             /\ stored'[h] \in Entry \cup {None}
             /\ LogFits(stored'[h], log'[h])
             /\ tracked'[h] # None => Fits(after[h][tracked'[h]], stored'[h], log'[h])
             /\ tracked'[h] = None => stored'[h] = None
  <2>1. LogFits(stored[h], log[h]) /\ log' = log
    BY <1>2, StoreIs
  <2>2. CASE h \in back
    <3>1. tracked'[h] = Fresh(h) /\ after[h][tracked'[h]] = Read(h) /\ tracked'[h] # None
      BY <1>2, <1>3, <1>5, <2>2
    <3>2. stored'[h] \in Entry /\ stored'[h].status = stored[h].status
      BY <1>2, <1>4, <2>2
    <3>3. stored'[h] # None
      BY <3>2, NoneIsNot
    <3> HIDE DEF back
    <3>4. LogFits(stored'[h], log[h])
      BY <2>1, <3>2, <3>3 DEF LogFits
    <3>5. Fits(Read(h), stored'[h], log[h])
      BY <1>4, <2>1, <2>2, <3>3 DEF LogFits, Fits
    <3> QED
      BY <1>3, <2>1, <3>1, <3>2, <3>4, <3>5
  <2>3. CASE h \notin back
    BY <1>1, <1>2, <2>1, <2>3
  <2> QED
    BY <2>2, <2>3
<1>8. tracked' \in Maps /\ stored' \in [Hashes -> Entry \cup {None}] /\ log' \in [Hashes -> Log]
  <2>1. log' \in [Hashes -> Log]
    BY <1>2 DEF IInv, TypeInv
  <2>2. tracked' = [h \in Hashes |-> tracked'[h]] /\ stored' = [h \in Hashes |-> stored'[h]]
    BY <1>2
  <2> QED
    BY <1>7, <2>1, <2>2 DEF Maps
<1>9. \A c \in Consumers : ~(handle'[c] # None /\ ~told'[c])
  BY <1>1, <1>2, ServedIs DEF Live
<1>10. /\ started' \in BOOLEAN /\ polls' \subseteq Handle /\ Ready'
       /\ handle' \in [Consumers -> Handle \cup {None}]
       /\ told' \in [Consumers -> BOOLEAN] /\ missed' \in [Consumers -> BOOLEAN]
  BY <1>1, <1>2 DEF IInv, TypeInv, Ready
<1> QED
  BY <1>1, <1>2, <1>6, <1>7, <1>8, <1>9, <1>10, Rebuilt

\* stop() tells every subscriber there is.
LEMMA StopKeeps ==
  ASSUME Careful, IInv, Stop
  PROVE  IInv'
<1>1. /\ UNCHANGED <<handle, polls, listings, stored, log>> /\ rec' = Kept(rec)
      /\ started' = FALSE /\ listings = <<>> /\ tracked' = [h \in Hashes |-> None]
      /\ Announce(tracked, rec, [h \in Hashes |-> 0], Hashes)
  BY DEF Stop, Careful, Ready, disk
<1>2. \A c \in Consumers : handle[c] # None /\ ~told[c] =>
        /\ handle[c].hash \in Hashes
        /\ tracked[handle[c].hash] # None
        /\ Callback[c] \in rec[handle[c].hash][tracked[handle[c].hash]].subs
  BY SameExtends, ExtendingServes
<1>3. /\ told' \in [Consumers -> BOOLEAN] /\ missed' \in [Consumers -> BOOLEAN]
      /\ \A c \in Consumers : ~(handle'[c] # None /\ ~told'[c])
  <2>1. TypeInv /\ Served
    BY DEF IInv
  <2>2. PICK ends : ends = Hashes
    OBVIOUS
  <2>3. PICK evs : evs = [h \in Hashes |-> 0]
    OBVIOUS
  <2>4. Announce(tracked, rec, evs, ends)
    BY <1>1, <2>2, <2>3
  <2>5. /\ told' \in [Consumers -> BOOLEAN] /\ missed' \in [Consumers -> BOOLEAN]
        /\ \A c \in Consumers : handle'[c] # None /\ ~told'[c] =>
             handle[c] # None /\ ~told[c] /\ handle[c].hash \notin ends
    BY <1>1, <1>2, <2>1, <2>4, AnnounceIs
  <2> QED
    BY <1>2, <2>2, <2>5
<1>4. /\ started' \in BOOLEAN /\ tracked' \in Maps /\ polls' \subseteq Handle /\ ~Ready'
      /\ handle' \in [Consumers -> Handle \cup {None}] /\ listings' = <<>>
      /\ stored' \in [Hashes -> Entry \cup {None}] /\ log' \in [Hashes -> Log]
  BY <1>1 DEF IInv, TypeInv, Maps, Ready
<1>5. /\ \A h \in Hashes : LogFits(stored'[h], log'[h]) /\ tracked'[h] = None
      /\ rec \in AllRecords
  BY <1>1, StoreIs
<1> QED
  BY <1>1, <1>3, <1>4, <1>5, Rebuilt

\* The process ends, and the store stays.
LEMMA CrashKeeps == IInv /\ Crash => IInv'
<1> SUFFICES ASSUME IInv, Crash PROVE IInv'
  OBVIOUS
<1>1. /\ started' = FALSE /\ tracked' = [h \in Hashes |-> None]
      /\ rec' = [h \in Hashes |-> [i \in Lives |-> NoRecord]]
      /\ handle' = [c \in Consumers |-> None]
      /\ told' = [c \in Consumers |-> FALSE] /\ missed' = [c \in Consumers |-> FALSE]
      /\ listings' = <<>> /\ polls' = {} /\ stored' = stored /\ log' = log
  BY DEF Crash, disk
<1>2. TypeInv'
  BY <1>1, NewRecord DEF IInv, TypeInv, Maps
<1>3. Live' = {} /\ ~Ready'
  BY <1>1 DEF Live, Ready
<1>4. SessionInv' /\ Forgotten' /\ Served'
  BY <1>1, <1>3 DEF SessionInv, Forgotten, FreshLives, Served
<1>5. StoreInv'
  BY <1>1, <1>3, StoreIs DEF StoreInv
<1> QED
  BY <1>2, <1>4, <1>5 DEF IInv

LEMMA InitKeeps == Init => IInv
<1> SUFFICES ASSUME Init PROVE IInv
  OBVIOUS
<1>1. /\ started = FALSE /\ tracked = [h \in Hashes |-> None]
      /\ rec = [h \in Hashes |-> [i \in Lives |-> NoRecord]]
      /\ handle = [c \in Consumers |-> None]
      /\ told = [c \in Consumers |-> FALSE] /\ missed = [c \in Consumers |-> FALSE]
      /\ listings = <<>> /\ polls = {}
      /\ stored \in [Hashes -> {None} \cup Legacy] /\ log = [h \in Hashes |-> EmptyLog]
  BY DEF Init
<1>2. stored \in [Hashes -> Entry \cup {None}]
  BY <1>1, RegistryAssumption DEF Entry
<1>3. TypeInv
  BY <1>1, <1>2, NewRecord, NewLog DEF TypeInv, Maps
<1>4. Live = {} /\ ~Ready
  BY <1>1 DEF Live, Ready
<1>5. SessionInv /\ Forgotten /\ Served
  BY <1>1, <1>4 DEF SessionInv, Forgotten, FreshLives, Served
<1>6. StoreInv
  BY <1>1, <1>4 DEF StoreInv, LogFits
<1> QED
  BY <1>3, <1>5, <1>6 DEF IInv

LEMMA NextKeeps ==
  ASSUME Careful, IInv, [Next]_vars
  PROVE  IInv'
<1>1. CASE \E c \in Consumers : \/ \E h \in Hashes : Subscribe(c, h)
                                \/ Unsubscribe(c) \/ Drop(c)
  BY <1>1, SubscribeKeeps, UnsubscribeKeeps, DropKeeps
<1>2. CASE \/ \E c \in Consumers : NextEvent(c)
           \/ \E b \in Bulks : TrackBulk(b) \/ StopBulk(b) \/ NextMatch(b)
           \/ UNCHANGED vars
  <2>1. UNCHANGED <<started, tracked, rec, handle, told, missed, listings, polls, disk>>
    BY <1>2 DEF NextEvent, TrackBulk, StopBulk, NextMatch, vars, consumers
  <2> QED
    BY <2>1, IdleKeeps
<1>3. CASE \E txs \in SUBSET Hashes : OnBlock(txs) \/ OnMempool(txs)
  BY <1>3, OnBlockKeeps, OnMempoolKeeps
<1>4. CASE ResumeBlock
  BY <1>4, ResumeBlockKeeps
<1>5. CASE \E r \in polls : AnswerPoll(r)
  BY <1>5, AnswerPollKeeps
<1>6. CASE Start \/ Rehydrate \/ Stop \/ Crash
  BY <1>6, StartKeeps, RehydrateKeeps, StopKeeps, CrashKeeps
<1> QED
  BY <1>1, <1>2, <1>3, <1>4, <1>5, <1>6 DEF Next

-----------------------------------------------------------------------------
(* The theorems. *)

LEMMA Invariance == Careful => (Spec => []IInv)
<1> SUFFICES ASSUME Careful PROVE Spec => []IInv
  OBVIOUS
<1>1. Init => IInv
  BY InitKeeps
<1>2. IInv /\ [Next]_vars => IInv'
  BY NextKeeps
<1> QED
  BY <1>1, <1>2, PTL DEF Spec

\* A subscription that was not ended is one of the record its hash has:
\* tracker.ts drops no record, and restarts with none, that has one to serve.
THEOREM StaysServed == Careful => (Spec => []ServedOrTold)
<1> SUFFICES ASSUME Careful PROVE Spec => []ServedOrTold
  OBVIOUS
<1>1. IInv => ServedOrTold
  BY DEF IInv, Served, ServedOrTold
<1> QED
  BY <1>1, Invariance, PTL

\* emit tells every subscriber of a hash what the global stream says of it.
THEOREM HearsTheStream == Careful => (Spec => []OneStream)
<1> SUFFICES ASSUME Careful PROVE Spec => []OneStream
  OBVIOUS
<1>1. IInv => OneStream
  BY DEF IInv, Served, OneStream
<1> QED
  BY <1>1, Invariance, PTL

\* Once doRehydration is over, what the store has is tracked as durable, after
\* any sequence of subscriptions, stops and crashes.
THEOREM DurableStays == Careful => (Spec => []DurableKept)
<1> SUFFICES ASSUME Careful PROVE Spec => []DurableKept
  OBVIOUS
<1>1. IInv => DurableKept
  BY DEF IInv, StoreInv, Fits, DurableKept
<1> QED
  BY <1>1, Invariance, PTL

\* The event log that emit appends to has no gap, and the put beside it is at
\* its end or one observation behind, whichever of the two paths wrote it.
THEOREM LogHasNoGap == Careful => (Spec => []LogWhole)
<1> SUFFICES ASSUME Careful PROVE Spec => []LogWhole
  OBVIOUS
<1>1. IInv => LogWhole
  BY DEF IInv, StoreInv, LogFits, LogWhole
<1> QED
  BY <1>1, Invariance, PTL
=============================================================================
