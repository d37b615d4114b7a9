----------------------------- MODULE TxObservation -----------------------------
(***************************************************************************)
(* The pure per-record decisions of @valve-tech/tx-tracker,                *)
(* packages/tx-tracker/src/observations.ts, and the merge rule of the      *)
(* polls in tracker.ts: what one block, one mempool snapshot or one poll   *)
(* answer does to a tracked record, and which events it emits.             *)
(*                                                                         *)
(* A decision is [rec |-> the record after it, events |-> what it emits].  *)
(* Left out of the record and the events: timestamps, the event source,    *)
(* raw transactions, transaction indexes and receipts.                     *)
(***************************************************************************)
EXTENDS ReorgRing, Integers

CONSTANTS
  Txs,        \* transaction hashes
  SlotOf,     \* the (from, nonce) of each transaction
  None        \* null, undefined

Never == -1   \* a block number that is null; 0n is a number the code uses

PollKinds == {"receipt", "probe", "status"}

\* TrackedRecord.  `id` tells apart the records one hash has had; `at`, `conf`
\* are lastSeenInBlock; `first`, `last`, `terminal` the ...AtBlock numbers;
\* `bucket` lastSeenInMempool.bucket; `known` a non-null identity.
NewRecord(id, threshold) ==
  [id |-> id, threshold |-> threshold, at |-> None, conf |-> 0,
   first |-> Never, last |-> Never, terminal |-> Never, streak |-> 0,
   bucket |-> None, inPool |-> FALSE, replaced |-> None, known |-> FALSE,
   pollSaid |-> None, ticks |-> [k \in PollKinds |-> 0]]

\* Events.
SeenInBlock(b, n)    == [kind |-> "seen-in-block", block |-> b, conf |-> n]
ConfirmedTerminal(n) == [kind |-> "confirmed-terminal", conf |-> n]
ReplacedBy(t)        == [kind |-> "replaced-by", by |-> t]
UnseenForN(n)        == [kind |-> "unseen-for-N-blocks", blocks |-> n]
SeenInMempool(bkt)   == [kind |-> "seen-in-mempool", bucket |-> bkt]
LeftMempool          == [kind |-> "left-mempool"]
Vanished(old, new)   == [kind |-> "vanished-from-block", old |-> old, new |-> new]

Or(n, m) == IF n = Never THEN m ELSE n      \* n ?? m

\* Status patches.
Sight(r, n) ==
  [r EXCEPT !.streak = 0, !.first = Or(@, n), !.last = n, !.known = TRUE]
SetBlock(r, b, n) == [r EXCEPT !.at = b, !.conf = n]
SetLast(r, n)     == [r EXCEPT !.last = n]
SetStreak(r, n)   == [r EXCEPT !.streak = n]
SetPool(r, bkt, in) == [r EXCEPT !.bucket = bkt, !.inPool = in]
SetReplaced(r, t) == [r EXCEPT !.replaced = t]
SetPolled(r, said, known) == [r EXCEPT !.pollSaid = said, !.known = known]
SetFirst(r, n)    == [r EXCEPT !.first = Or(@, n)]

\* Mutant: the latest terminal observation anchors retention.
EndAgain(r, n) == [r EXCEPT !.terminal = n]

\* The first terminal observation stays.
End(r, n)         == [r EXCEPT !.terminal = Or(@, n)]
EndIf(done, r, n) == IF done THEN End(r, n) ELSE r

Decision(r, events) == [rec |-> r, events |-> events]
NoChange(r) == Decision(r, {})

Rivals(t) == {u \in Txs \ {t} : SlotOf[u] = SlotOf[t]}

-----------------------------------------------------------------------------
\* decideBlockObservation.

\* Mutant: the gate that makes the terminal event fire once is missing.
ReachedAgain(r, n, needed) == needed # Never /\ n >= needed

ReachedConfirmed(r, n, needed) ==
  needed # Never /\ n >= needed /\ r.terminal = Never

\* Path 1: t is in block b.
Included(r, b, needed) ==
  LET fresh == r.at # b
      conf  == IF fresh THEN 1 ELSE r.conf
      done  == ReachedConfirmed(r, conf, needed)
  IN Decision(EndIf(done, SetBlock(Sight(r, Number(b)), b, conf), Number(b)),
              (IF fresh THEN {SeenInBlock(b, conf)} ELSE {})
                \cup (IF done THEN {ConfirmedTerminal(conf)} ELSE {}))

\* Mutant: the count moves on and no event says so.
BumpedQuietly(r, b, needed) ==
  LET conf == r.conf + 1
      done == ReachedConfirmed(r, conf, needed)
  IN Decision(EndIf(done, SetBlock(SetLast(r, Number(b)), r.at, conf), Number(b)),
              IF done THEN {ConfirmedTerminal(conf)} ELSE {})

\* Path 2: t was included before.
Bumped(r, b, needed) ==
  LET conf == r.conf + 1
      done == ReachedConfirmed(r, conf, needed)
  IN Decision(EndIf(done, SetBlock(SetLast(r, Number(b)), r.at, conf), Number(b)),
              {SeenInBlock(r.at, conf)}
                \cup (IF done THEN {ConfirmedTerminal(conf)} ELSE {}))

\* Path 3: the block holds another transaction u of the same slot.
ReplacedInBlock(r, u, b) ==
  Decision(End(SetReplaced(SetLast(r, Number(b)), u), Number(b)),
           IF r.replaced # u THEN {ReplacedBy(u)} ELSE {})

\* Mutant: the threshold is passed one block late.
UnseenLate(r, b) ==
  LET reached == r.streak = r.threshold
  IN Decision(EndIf(reached, SetStreak(r, r.streak + 1), Number(b)),
              IF reached THEN {UnseenForN(r.streak + 1)} ELSE {})

\* Path 4: nothing of t in the block.
Unseen(r, b) ==
  LET reached == r.streak + 1 = r.threshold
  IN Decision(EndIf(reached, SetStreak(r, r.streak + 1), Number(b)),
              IF reached THEN {UnseenForN(r.streak + 1)} ELSE {})

DecideBlock(r, t, b, hadTip, needed) ==
  LET rivals == Rivals(t) \cap Transactions(b)
  IN IF t \in Transactions(b) THEN Included(r, b, needed)
     ELSE IF r.at # None /\ hadTip THEN Bumped(r, b, needed)
     ELSE IF r.known /\ rivals # {}
          THEN ReplacedInBlock(r, CHOOSE u \in rivals : TRUE, b)
     ELSE IF r.first = Never THEN NoChange(r)
     ELSE Unseen(r, b)

-----------------------------------------------------------------------------
\* decideMempoolObservation.  A snapshot gives each transaction a bucket or
\* None, and has one transaction a slot in each bucket.
Buckets == {"pending", "queued"}

Snapshots ==
  {s \in [Txs -> Buckets \cup {None}] :
     \A t \in Txs : s[t] # None => \A u \in Rivals(t) : s[u] # s[t]}

RivalIn(s, t) ==
  LET In(bkt) == {u \in Rivals(t) : s[u] = bkt}
  IN IF In("pending") # {} THEN CHOOSE u \in In("pending") : TRUE
     ELSE IF In("queued") # {} THEN CHOOSE u \in In("queued") : TRUE
     ELSE None

\* First sight, or sight in another bucket.
Entered(r, bkt, patched) ==
  Decision(SetPool(patched, bkt, TRUE),
           IF ~r.inPool \/ r.bucket # bkt THEN {SeenInMempool(bkt)} ELSE {})

\* Mutant: a sight in the mempool does not end the streak of unseen blocks.
PresenceKeepsStreak(r, bkt, tip) ==
  IF bkt # None THEN Entered(r, bkt, SetStreak(Sight(r, tip), r.streak))
  ELSE IF r.inPool THEN Decision(SetPool(r, r.bucket, FALSE), {LeftMempool})
  ELSE NoChange(r)

\* The presence half: the transaction is in the snapshot, or no longer is.
Presence(r, bkt, tip) ==
  IF bkt # None THEN Entered(r, bkt, Sight(r, tip))
  ELSE IF r.inPool THEN Decision(SetPool(r, r.bucket, FALSE), {LeftMempool})
  ELSE NoChange(r)

\* Mutant: a replacement seen in the mempool is no terminal observation.
ReplacementForgets(r, d, rival, tip) ==
  IF r.known /\ r.replaced = None /\ rival # None
  THEN Decision(SetReplaced(d.rec, rival), d.events \cup {ReplacedBy(rival)})
  ELSE d

\* The replacement half, on top of the presence d; it goes by what the record
\* r knew before this snapshot.
Replacement(r, d, rival, tip) ==
  IF r.known /\ r.replaced = None /\ rival # None
  THEN Decision(End(SetReplaced(d.rec, rival), tip), d.events \cup {ReplacedBy(rival)})
  ELSE d

DecideMempool(r, t, s, tip) ==
  Replacement(r, Presence(r, s[t], tip), RivalIn(s, t), tip)

-----------------------------------------------------------------------------
\* The merge rule the polls share: an inclusion counts only above the recorded
\* one.  A poll that finds t pending speaks once until a poll finds it mined.
Higher(r, b) == r.at = None \/ Number(r.at) < Number(b)

\* Mutant: the record keeps the confirmations of its earlier inclusion.
PolledKeepsCount(r, k, b, tip) ==
  IF Higher(r, b)
  THEN Decision(SetBlock(SetLast(r, tip), b, r.conf), {SeenInBlock(b, 1)})
  ELSE NoChange(r)

PolledMined(r, k, b, tip) ==
  LET merged == SetBlock(SetLast(r, tip), b, 1)
  IN IF ~Higher(r, b) THEN NoChange(r)
     ELSE Decision(IF k = "status" THEN SetPolled(merged, "mined", TRUE) ELSE merged,
                   {SeenInBlock(b, 1)})

PolledPending(r, tip) ==
  IF r.pollSaid = "pending" THEN NoChange(r)
  ELSE Decision(SetPool(SetPolled(SetLast(SetFirst(r, tip), tip), "pending", TRUE),
                        "pending", r.inPool),
                {SeenInMempool("pending")})
================================================================================
