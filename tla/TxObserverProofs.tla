--------------------------- MODULE TxObserverProofs ---------------------------
(* Theorems about TxObserver, with the proofs TLAPS checks. *)
EXTENDS TxObserver, WellFoundedInduction, FiniteSetTheorems, TLAPS

-----------------------------------------------------------------------------
\* The least member of a set of naturals, which stands for induction.

LEMMA HasLeast ==
  ASSUME NEW T \in SUBSET Nat, T # {}
  PROVE  \E x \in T : \A y \in T : x <= y
<1>1. OpToRel(<, Nat) = {p \in Nat \X Nat : p[1] < p[2]}
  BY DEF OpToRel
<1>2. PICK x \in T : \A y \in T : ~(<<y, x>> \in {p \in Nat \X Nat : p[1] < p[2]})
  BY <1>1, WFMin, NatLessThanWellFounded
<1>3. \A y \in T : ~(y < x)
  BY <1>2
<1> QED
  BY <1>3

-----------------------------------------------------------------------------
\* What a subscriber knows and what the record holds.
Agree(r, w) ==
  /\ w.at = r.at /\ w.conf = r.conf /\ w.bucket = r.bucket
  /\ r.inPool => w.inPool
  /\ r.terminal # Never <=> w.ended
  /\ r.replaced # None => r.terminal # Never
  /\ w.confirmed <= 1 /\ (w.confirmed = 1 => w.ended)

\* What every decision about record r, whose subscriber knows w, keeps.
Sound(r, w, d) ==
  /\ d.rec \in Records /\ Hear(w, d.events) \in Notices
  /\ Agree(d.rec, Hear(w, d.events))
  /\ d.rec.id = r.id
  /\ r.terminal # Never => d.rec.terminal = r.terminal
  /\ Hear(w, d.events).stopped = w.stopped

LEMMA TheOne ==
  ASSUME NEW events, NEW kind, NEW e \in events, e.kind = kind,
         \A f \in events : f.kind = kind => f = e
  PROVE  Fired(events, kind) /\ The(events, kind) = e
BY DEF Fired, The

LEMMA NumberNat == \A b \in Chains : Number(b) \in Nat /\ b # None
BY ConstantsAssumption DEF ConstantsAssumption

LEMMA HearNothing ==
  ASSUME NEW w \in Notices PROVE Hear(w, {}) = w
<1>1. \A k : ~Fired({}, k)
  BY DEF Fired
<1> QED
  BY <1>1 DEF Hear, Notices

LEMMA NoChangeSound ==
  ASSUME NEW r \in Records, NEW w \in Notices, Agree(r, w)
  PROVE  Sound(r, w, NoChange(r))
BY HearNothing DEF Sound, NoChange, Decision

\* Hearing of an inclusion, of the confirmed-terminal event, or of both.
LEMMA HearInclusion ==
  ASSUME NEW w \in Notices, NEW fresh \in BOOLEAN, NEW done \in BOOLEAN,
         NEW b, NEW n, NEW m, NEW E,
         \A f \in E : (fresh /\ f = SeenInBlock(b, n))
                        \/ (done /\ f = ConfirmedTerminal(m)),
         fresh => SeenInBlock(b, n) \in E,
         done => ConfirmedTerminal(m) \in E
  PROVE  Hear(w, E) =
           [at |-> IF fresh THEN b ELSE w.at,
            conf |-> IF fresh THEN n ELSE w.conf,
            bucket |-> w.bucket, inPool |-> w.inPool,
            ended |-> w.ended \/ done,
            confirmed |-> IF done THEN w.confirmed + 1 ELSE w.confirmed,
            unseen |-> w.unseen, vanished |-> w.vanished, lost |-> w.lost,
            stopped |-> w.stopped]
<1>0. /\ SeenInBlock(b, n).kind = "seen-in-block"
      /\ ConfirmedTerminal(m).kind = "confirmed-terminal"
  BY DEF SeenInBlock, ConfirmedTerminal
<1> DEFINE S == SeenInBlock(b, n)
           C == ConfirmedTerminal(m)
<1>a. /\ \A f \in E : (fresh /\ f = S) \/ (done /\ f = C)
      /\ fresh => S \in E
      /\ done => C \in E
  OBVIOUS
<1> HIDE DEF S, C
<1>1. /\ Fired(E, "seen-in-block") <=> fresh
      /\ Fired(E, "confirmed-terminal") <=> done
      /\ ~Fired(E, "vanished-from-block")
      /\ ~Fired(E, "seen-in-mempool") /\ ~Fired(E, "left-mempool")
      /\ ~Fired(E, "replaced-by") /\ ~Fired(E, "unseen-for-N-blocks")
  <2>1. S.kind = "seen-in-block" /\ C.kind = "confirmed-terminal"
    BY <1>0 DEF S, C
  <2> QED  BY <1>a, <2>1 DEF Fired
<1>2. fresh => The(E, "seen-in-block") = SeenInBlock(b, n)
  <2> SUFFICES ASSUME fresh PROVE The(E, "seen-in-block") = S
    BY DEF S
  <2>1. S \in E /\ S.kind = "seen-in-block"
    BY <1>a, <1>0 DEF S
  <2>2. \A f \in E : f.kind = "seen-in-block" => f = S
    BY <1>a, <1>0 DEF C
  <2> QED  BY <2>1, <2>2, TheOne
<1>3. SeenInBlock(b, n).block = b /\ SeenInBlock(b, n).conf = n
  BY DEF SeenInBlock
<1> QED  BY <1>1, <1>2, <1>3 DEF Hear, Notices

\* The same when the inclusion is always there.
LEMMA HearBump ==
  ASSUME NEW w \in Notices, NEW done \in BOOLEAN,
         NEW b, NEW n, NEW m, NEW E,
         \A f \in E : f = SeenInBlock(b, n)
                        \/ (done /\ f = ConfirmedTerminal(m)),
         SeenInBlock(b, n) \in E,
         done => ConfirmedTerminal(m) \in E
  PROVE  Hear(w, E) =
           [at |-> b,
            conf |-> n,
            bucket |-> w.bucket, inPool |-> w.inPool,
            ended |-> w.ended \/ done,
            confirmed |-> IF done THEN w.confirmed + 1 ELSE w.confirmed,
            unseen |-> w.unseen, vanished |-> w.vanished, lost |-> w.lost,
            stopped |-> w.stopped]
<1>0. /\ SeenInBlock(b, n).kind = "seen-in-block"
      /\ ConfirmedTerminal(m).kind = "confirmed-terminal"
  BY DEF SeenInBlock, ConfirmedTerminal
<1> DEFINE S == SeenInBlock(b, n)
           C == ConfirmedTerminal(m)
<1>a. /\ \A f \in E : f = S \/ (done /\ f = C)
      /\ S \in E
      /\ done => C \in E
  OBVIOUS
<1> HIDE DEF S, C
<1>1. /\ Fired(E, "seen-in-block")
      /\ Fired(E, "confirmed-terminal") <=> done
      /\ ~Fired(E, "vanished-from-block")
      /\ ~Fired(E, "seen-in-mempool") /\ ~Fired(E, "left-mempool")
      /\ ~Fired(E, "replaced-by") /\ ~Fired(E, "unseen-for-N-blocks")
  <2>1. S.kind = "seen-in-block" /\ C.kind = "confirmed-terminal"
    BY <1>0 DEF S, C
  <2> QED  BY <1>a, <2>1 DEF Fired
<1>2. The(E, "seen-in-block") = SeenInBlock(b, n)
  <2>1. S \in E /\ S.kind = "seen-in-block"
    BY <1>a, <1>0 DEF S
  <2>2. \A f \in E : f.kind = "seen-in-block" => f = S
    BY <1>a, <1>0 DEF C
  <2>3. The(E, "seen-in-block") = S
    BY <2>1, <2>2, TheOne
  <2> QED  BY <2>3 DEF S
<1>3. SeenInBlock(b, n).block = b /\ SeenInBlock(b, n).conf = n
  BY DEF SeenInBlock
<1> QED  BY <1>1, <1>2, <1>3 DEF Hear, Notices

Endings == {"replaced-by", "unseen-for-N-blocks"}

\* Hearing of the mempool and of the end of a transaction: the inclusion stays.
LEMMA HearPool ==
  ASSUME NEW w \in Notices, NEW bkt \in Buckets, NEW E,
         \A f \in E : f = SeenInMempool(bkt) \/ f = LeftMempool \/ f.kind \in Endings
  PROVE  /\ Hear(w, E) \in Notices
         /\ Hear(w, E).at = w.at /\ Hear(w, E).conf = w.conf
         /\ Hear(w, E).bucket = IF SeenInMempool(bkt) \in E THEN bkt ELSE w.bucket
         /\ Hear(w, E).inPool <=>
              SeenInMempool(bkt) \in E \/ (LeftMempool \notin E /\ w.inPool)
         /\ Hear(w, E).ended <=> w.ended \/ \E f \in E : f.kind \in Endings
         /\ Hear(w, E).confirmed = w.confirmed /\ Hear(w, E).stopped = w.stopped
<1>0. /\ SeenInMempool(bkt).kind = "seen-in-mempool"
      /\ SeenInMempool(bkt).bucket = bkt
      /\ LeftMempool.kind = "left-mempool"
  BY DEF SeenInMempool, LeftMempool
<1> DEFINE S == SeenInMempool(bkt)
           G == LeftMempool
<1>a. /\ \A f \in E : f = S \/ f = G \/ f.kind \in Endings
      /\ S.kind = "seen-in-mempool" /\ G.kind = "left-mempool" /\ S.bucket = bkt
  BY <1>0
<1> HIDE DEF S, G
<1>1. /\ Fired(E, "seen-in-mempool") <=> S \in E
      /\ Fired(E, "left-mempool") <=> G \in E
      /\ ~Fired(E, "vanished-from-block") /\ ~Fired(E, "seen-in-block")
      /\ ~Fired(E, "confirmed-terminal")
      /\ (Fired(E, "replaced-by") \/ Fired(E, "unseen-for-N-blocks"))
           <=> \E f \in E : f.kind \in Endings
  BY <1>a DEF Fired, Endings
<1>2. S \in E => The(E, "seen-in-mempool") = S
  <2> SUFFICES ASSUME S \in E PROVE The(E, "seen-in-mempool") = S
    OBVIOUS
  <2>1. \A f \in E : f.kind = "seen-in-mempool" => f = S
    BY <1>a DEF Endings
  <2> QED  BY <2>1, <1>a, TheOne
<1>3. bkt \in Opt(Buckets)
  BY DEF Opt
<1> DEFINE h == Hear(w, E)
<1>4. h = [at |-> w.at, conf |-> w.conf,
           bucket |-> IF S \in E THEN bkt ELSE w.bucket,
           inPool |-> (S \in E \/ (G \notin E /\ w.inPool)),
           ended |-> w.ended \/ Fired(E, "replaced-by")
                             \/ Fired(E, "unseen-for-N-blocks"),
           confirmed |-> w.confirmed,
           unseen |-> w.unseen \/ Fired(E, "unseen-for-N-blocks"),
           vanished |-> w.vanished, lost |-> w.lost, stopped |-> w.stopped]
  BY <1>a, <1>1, <1>2 DEF Hear, Notices
<1> HIDE DEF h
<1>5. h \in Notices
  BY <1>3, <1>4 DEF Notices
<1>6. /\ h.at = w.at /\ h.conf = w.conf
      /\ h.bucket = IF S \in E THEN bkt ELSE w.bucket
      /\ h.inPool <=> S \in E \/ (G \notin E /\ w.inPool)
      /\ h.ended <=> w.ended \/ \E f \in E : f.kind \in Endings
      /\ h.confirmed = w.confirmed /\ h.stopped = w.stopped
  BY <1>1, <1>4
<1> QED  BY <1>5, <1>6 DEF h, S, G

\* Hearing of the end of a transaction alone.
LEMMA HearEnd ==
  ASSUME NEW w \in Notices, NEW E, \A f \in E : f.kind \in Endings
  PROVE  /\ Hear(w, E) \in Notices
         /\ Hear(w, E).at = w.at /\ Hear(w, E).conf = w.conf
         /\ Hear(w, E).bucket = w.bucket /\ (Hear(w, E).inPool <=> w.inPool)
         /\ Hear(w, E).ended <=> w.ended \/ E # {}
         /\ Hear(w, E).confirmed = w.confirmed /\ Hear(w, E).stopped = w.stopped
<1>1. PICK bkt \in Buckets : TRUE
  BY DEF Buckets
<1>2. SeenInMempool(bkt) \notin E /\ LeftMempool \notin E
  BY DEF SeenInMempool, LeftMempool, Endings
<1>3. \A f \in E : f = SeenInMempool(bkt) \/ f = LeftMempool \/ f.kind \in Endings
  OBVIOUS
<1>4. (\E f \in E : f.kind \in Endings) <=> E # {}
  OBVIOUS
<1>5. /\ Hear(w, E) \in Notices
      /\ Hear(w, E).at = w.at /\ Hear(w, E).conf = w.conf
      /\ Hear(w, E).bucket = IF SeenInMempool(bkt) \in E THEN bkt ELSE w.bucket
      /\ Hear(w, E).inPool <=>
           SeenInMempool(bkt) \in E \/ (LeftMempool \notin E /\ w.inPool)
      /\ Hear(w, E).ended <=> w.ended \/ \E f \in E : f.kind \in Endings
      /\ Hear(w, E).confirmed = w.confirmed /\ Hear(w, E).stopped = w.stopped
  BY <1>3, HearPool
<1> QED  BY <1>2, <1>4, <1>5

\* The patches keep a record a record and touch the fields they name.
LEMMA OrInt == \A n, m \in Int : Or(n, m) \in Int
BY DEF Or

LEMMA SightKeeps ==
  ASSUME NEW r \in Records, NEW n \in Int
  PROVE  LET s == Sight(r, n) IN
         /\ s \in Records /\ s.id = r.id /\ s.at = r.at /\ s.conf = r.conf
         /\ s.bucket = r.bucket /\ s.inPool = r.inPool
         /\ s.replaced = r.replaced /\ s.terminal = r.terminal
<1>1. Or(r.first, n) \in Int
  BY OrInt DEF Records
<1> QED  BY <1>1 DEF Sight, Records

LEMMA SetBlockKeeps ==
  ASSUME NEW r \in Records, NEW b \in Opt(Chains), NEW n \in Nat
  PROVE  LET s == SetBlock(r, b, n) IN
         /\ s \in Records /\ s.id = r.id /\ s.at = b /\ s.conf = n
         /\ s.bucket = r.bucket /\ s.inPool = r.inPool
         /\ s.replaced = r.replaced /\ s.terminal = r.terminal
BY DEF SetBlock, Records

LEMMA SetLastKeeps ==
  ASSUME NEW r \in Records, NEW n \in Int
  PROVE  LET s == SetLast(r, n) IN
         /\ s \in Records /\ s.id = r.id /\ s.at = r.at /\ s.conf = r.conf
         /\ s.bucket = r.bucket /\ s.inPool = r.inPool
         /\ s.replaced = r.replaced /\ s.terminal = r.terminal
BY DEF SetLast, Records

LEMMA SetStreakKeeps ==
  ASSUME NEW r \in Records, NEW n \in Nat
  PROVE  LET s == SetStreak(r, n) IN
         /\ s \in Records /\ s.id = r.id /\ s.at = r.at /\ s.conf = r.conf
         /\ s.bucket = r.bucket /\ s.inPool = r.inPool
         /\ s.replaced = r.replaced /\ s.terminal = r.terminal
BY DEF SetStreak, Records

LEMMA SetPoolKeeps ==
  ASSUME NEW r \in Records, NEW bkt \in Opt(Buckets), NEW in \in BOOLEAN
  PROVE  LET s == SetPool(r, bkt, in) IN
         /\ s \in Records /\ s.id = r.id /\ s.at = r.at /\ s.conf = r.conf
         /\ s.bucket = bkt /\ s.inPool = in
         /\ s.replaced = r.replaced /\ s.terminal = r.terminal
BY DEF SetPool, Records

LEMMA SetReplacedKeeps ==
  ASSUME NEW r \in Records, NEW t \in Opt(Txs)
  PROVE  LET s == SetReplaced(r, t) IN
         /\ s \in Records /\ s.id = r.id /\ s.at = r.at /\ s.conf = r.conf
         /\ s.bucket = r.bucket /\ s.inPool = r.inPool
         /\ s.replaced = t /\ s.terminal = r.terminal
BY DEF SetReplaced, Records

LEMMA SetPolledKeeps ==
  ASSUME NEW r \in Records, NEW said \in Opt({"pending", "mined"}), NEW known \in BOOLEAN
  PROVE  LET s == SetPolled(r, said, known) IN
         /\ s \in Records /\ s.id = r.id /\ s.at = r.at /\ s.conf = r.conf
         /\ s.bucket = r.bucket /\ s.inPool = r.inPool
         /\ s.replaced = r.replaced /\ s.terminal = r.terminal
BY DEF SetPolled, Records

LEMMA SetFirstKeeps ==
  ASSUME NEW r \in Records, NEW n \in Int
  PROVE  LET s == SetFirst(r, n) IN
         /\ s \in Records /\ s.id = r.id /\ s.at = r.at /\ s.conf = r.conf
         /\ s.bucket = r.bucket /\ s.inPool = r.inPool
         /\ s.replaced = r.replaced /\ s.terminal = r.terminal
<1>1. Or(r.first, n) \in Int
  BY OrInt DEF Records
<1> QED  BY <1>1 DEF SetFirst, Records

LEMMA EndKeeps ==
  ASSUME NEW r \in Records, NEW n \in Int
  PROVE  LET s == End(r, n) IN
         /\ s \in Records /\ s.id = r.id /\ s.at = r.at /\ s.conf = r.conf
         /\ s.bucket = r.bucket /\ s.inPool = r.inPool
         /\ s.replaced = r.replaced /\ s.terminal = Or(r.terminal, n)
<1>1. Or(r.terminal, n) \in Int
  BY OrInt DEF Records
<1> QED  BY <1>1 DEF End, Records

LEMMA EndIfKeeps ==
  ASSUME NEW r \in Records, NEW done \in BOOLEAN, NEW n \in Int
  PROVE  LET s == EndIf(done, r, n) IN
         /\ s \in Records /\ s.id = r.id /\ s.at = r.at /\ s.conf = r.conf
         /\ s.bucket = r.bucket /\ s.inPool = r.inPool /\ s.replaced = r.replaced
         /\ s.terminal = IF done THEN Or(r.terminal, n) ELSE r.terminal
BY EndKeeps DEF EndIf

\* A terminal block number stays what it is, and is one once set.
LEMMA OrAnchors ==
  ASSUME NEW m \in Int, NEW n \in Nat
  PROVE  Or(m, n) # Never /\ (m # Never => Or(m, n) = m)
BY DEF Or, Never

-----------------------------------------------------------------------------
\* The decisions about a block.

LEMMA IncludedSound ==
  ASSUME NEW r \in Records, NEW w \in Notices, Agree(r, w), NEW b \in Chains
  PROVE  Sound(r, w, Included(r, b, Confirmations))
<1> DEFINE fresh == r.at # b
           conf  == IF fresh THEN 1 ELSE r.conf
           done  == ReachedConfirmed(r, conf, Confirmations)
           s1    == Sight(r, Number(b))
           s2    == SetBlock(s1, b, conf)
           s     == EndIf(done, s2, Number(b))
           E     == (IF fresh THEN {SeenInBlock(b, conf)} ELSE {})
                      \cup (IF done THEN {ConfirmedTerminal(conf)} ELSE {})
           h     == Hear(w, E)
<1>0. /\ Number(b) \in Nat /\ b \in Opt(Chains)
      /\ conf \in Nat /\ fresh \in BOOLEAN /\ done \in BOOLEAN
  BY NumberNat DEF Records, ReachedConfirmed, Opt
<1>1. Included(r, b, Confirmations) = Decision(s, E)
  BY DEF Included
<1>2. done => r.terminal = Never
  BY DEF ReachedConfirmed
<1>3. /\ s1 \in Records /\ s1.id = r.id /\ s1.terminal = r.terminal
      /\ s1.bucket = r.bucket /\ s1.inPool = r.inPool /\ s1.replaced = r.replaced
  BY <1>0, SightKeeps
<1> HIDE DEF s1, done
<1>4. /\ s2 \in Records /\ s2.id = r.id /\ s2.terminal = r.terminal
      /\ s2.bucket = r.bucket /\ s2.inPool = r.inPool /\ s2.replaced = r.replaced
      /\ s2.at = b /\ s2.conf = conf
  BY <1>0, <1>3, SetBlockKeeps
<1> HIDE DEF s2
<1>5. /\ s \in Records /\ s.id = r.id /\ s.at = b /\ s.conf = conf
      /\ s.bucket = r.bucket /\ s.inPool = r.inPool /\ s.replaced = r.replaced
      /\ s.terminal = IF done THEN Or(r.terminal, Number(b)) ELSE r.terminal
  BY <1>0, <1>4, EndIfKeeps
<1>6. h = [at |-> IF fresh THEN b ELSE w.at,
           conf |-> IF fresh THEN conf ELSE w.conf,
           bucket |-> w.bucket, inPool |-> w.inPool,
           ended |-> w.ended \/ done,
           confirmed |-> IF done THEN w.confirmed + 1 ELSE w.confirmed,
           unseen |-> w.unseen, vanished |-> w.vanished, lost |-> w.lost,
           stopped |-> w.stopped]
  <2>1. /\ \A f \in E : (fresh /\ f = SeenInBlock(b, conf))
                           \/ (done /\ f = ConfirmedTerminal(conf))
        /\ fresh => SeenInBlock(b, conf) \in E
        /\ done => ConfirmedTerminal(conf) \in E
    OBVIOUS
  <2> HIDE DEF fresh, conf, E
  <2> QED  BY <1>0, <2>1, HearInclusion
<1> HIDE DEF s, h
<1>7. h \in Notices
  BY <1>0, <1>6 DEF Notices
<1>8. s.terminal # Never <=> (r.terminal # Never \/ done)
  BY <1>0, <1>2, <1>5, OrAnchors DEF Records
<1>9. Agree(s, h)
  BY <1>0, <1>2, <1>5, <1>6, <1>8 DEF Agree, Notices
<1>10. Decision(s, E).rec = s /\ Decision(s, E).events = E
  BY DEF Decision
<1> QED  BY <1>1, <1>2, <1>5, <1>6, <1>7, <1>9, <1>10 DEF Sound, h

LEMMA BumpedSound ==
  ASSUME NEW r \in Records, NEW w \in Notices, Agree(r, w), NEW b \in Chains
  PROVE  Sound(r, w, Bumped(r, b, Confirmations))
<1> DEFINE conf == r.conf + 1
           done == ReachedConfirmed(r, conf, Confirmations)
           s1   == SetLast(r, Number(b))
           s2   == SetBlock(s1, r.at, conf)
           s    == EndIf(done, s2, Number(b))
           E    == {SeenInBlock(r.at, conf)}
                     \cup (IF done THEN {ConfirmedTerminal(conf)} ELSE {})
           h    == Hear(w, E)
<1>0. /\ Number(b) \in Nat /\ Number(b) \in Int
      /\ conf \in Nat /\ done \in BOOLEAN /\ r.at \in Opt(Chains)
  BY NumberNat DEF Records, ReachedConfirmed
<1>1. Bumped(r, b, Confirmations) = Decision(s, E)
  BY DEF Bumped
<1>2. done => r.terminal = Never
  BY DEF ReachedConfirmed
<1>3. /\ s1 \in Records /\ s1.id = r.id /\ s1.terminal = r.terminal
      /\ s1.bucket = r.bucket /\ s1.inPool = r.inPool /\ s1.replaced = r.replaced
  <2> HIDE DEF conf, done
  <2> QED  BY <1>0, SetLastKeeps
<1> HIDE DEF s1, done
<1>4. /\ s2 \in Records /\ s2.id = r.id /\ s2.terminal = r.terminal
      /\ s2.bucket = r.bucket /\ s2.inPool = r.inPool /\ s2.replaced = r.replaced
      /\ s2.at = r.at /\ s2.conf = conf
  BY <1>0, <1>3, SetBlockKeeps
<1> HIDE DEF s2
<1>5. /\ s \in Records /\ s.id = r.id /\ s.at = r.at /\ s.conf = conf
      /\ s.bucket = r.bucket /\ s.inPool = r.inPool /\ s.replaced = r.replaced
      /\ s.terminal = IF done THEN Or(r.terminal, Number(b)) ELSE r.terminal
  BY <1>0, <1>4, EndIfKeeps
<1>6. h = [at |-> r.at, conf |-> conf,
           bucket |-> w.bucket, inPool |-> w.inPool,
           ended |-> w.ended \/ done,
           confirmed |-> IF done THEN w.confirmed + 1 ELSE w.confirmed,
           unseen |-> w.unseen, vanished |-> w.vanished, lost |-> w.lost,
           stopped |-> w.stopped]
  <2>1. /\ \A f \in E : f = SeenInBlock(r.at, conf)
                           \/ (done /\ f = ConfirmedTerminal(conf))
        /\ SeenInBlock(r.at, conf) \in E
        /\ done => ConfirmedTerminal(conf) \in E
    OBVIOUS
  <2> HIDE DEF conf, E
  <2> QED  BY <1>0, <2>1, HearBump
<1> HIDE DEF s, h
<1>7. h \in Notices
  BY <1>0, <1>6 DEF Notices
<1>8. s.terminal # Never <=> (r.terminal # Never \/ done)
  BY <1>0, <1>2, <1>5, OrAnchors DEF Records
<1>9. Agree(s, h)
  BY <1>0, <1>2, <1>5, <1>6, <1>8 DEF Agree, Notices
<1>10. Decision(s, E).rec = s /\ Decision(s, E).events = E
  BY DEF Decision
<1> QED  BY <1>1, <1>2, <1>5, <1>6, <1>7, <1>9, <1>10 DEF Sound, h

LEMMA RivalsAreTxs == \A t, u : u \in Rivals(t) => u \in Opt(Txs) /\ u # None
BY ConstantsAssumption DEF Rivals, Opt, ConstantsAssumption

LEMMA ReplacedInBlockSound ==
  ASSUME NEW r \in Records, NEW w \in Notices, Agree(r, w),
         NEW b \in Chains, NEW u \in Opt(Txs), u # None
  PROVE  Sound(r, w, ReplacedInBlock(r, u, b))
<1> DEFINE s1 == SetLast(r, Number(b))
           s2 == SetReplaced(s1, u)
           s  == End(s2, Number(b))
           E  == IF r.replaced # u THEN {ReplacedBy(u)} ELSE {}
           h  == Hear(w, E)
<1>0. Number(b) \in Nat /\ Number(b) \in Int
  BY NumberNat
<1>1. ReplacedInBlock(r, u, b) = Decision(s, E)
  BY DEF ReplacedInBlock
<1>3. /\ s1 \in Records /\ s1.id = r.id /\ s1.terminal = r.terminal
      /\ s1.at = r.at /\ s1.conf = r.conf
      /\ s1.bucket = r.bucket /\ s1.inPool = r.inPool
  BY <1>0, SetLastKeeps
<1> HIDE DEF s1
<1>4. /\ s2 \in Records /\ s2.id = r.id /\ s2.terminal = r.terminal
      /\ s2.at = r.at /\ s2.conf = r.conf
      /\ s2.bucket = r.bucket /\ s2.inPool = r.inPool
  BY <1>3, SetReplacedKeeps
<1> HIDE DEF s2
<1>5. /\ s \in Records /\ s.id = r.id /\ s.at = r.at /\ s.conf = r.conf
      /\ s.bucket = r.bucket /\ s.inPool = r.inPool
      /\ s.terminal = Or(r.terminal, Number(b))
  BY <1>0, <1>4, EndKeeps
<1>6. /\ \A f \in E : f.kind \in Endings
      /\ E = {} <=> r.replaced = u
  <2> DEFINE e == ReplacedBy(u)
  <2>1. e.kind \in Endings
    BY DEF ReplacedBy, Endings
  <2> HIDE DEF e
  <2>2. E = IF r.replaced # u THEN {e} ELSE {}
    BY DEF e
  <2> HIDE DEF E
  <2> QED  BY <2>1, <2>2
<1> HIDE DEF s, E
<1>7. /\ h \in Notices /\ h.at = w.at /\ h.conf = w.conf
      /\ h.bucket = w.bucket /\ (h.inPool <=> w.inPool)
      /\ h.ended <=> w.ended \/ r.replaced # u
      /\ h.confirmed = w.confirmed /\ h.stopped = w.stopped
  BY <1>6, HearEnd
<1> HIDE DEF h
<1>8. s.terminal # Never /\ (r.terminal # Never => s.terminal = r.terminal)
  BY <1>0, <1>5, OrAnchors DEF Records
<1>9. Agree(s, h)
  BY <1>5, <1>7, <1>8 DEF Agree
<1>10. Decision(s, E).rec = s /\ Decision(s, E).events = E
  BY DEF Decision
<1> QED  BY <1>1, <1>5, <1>7, <1>8, <1>9, <1>10 DEF Sound, h

LEMMA UnseenSound ==
  ASSUME NEW r \in Records, NEW w \in Notices, Agree(r, w), NEW b \in Chains
  PROVE  Sound(r, w, Unseen(r, b))
<1> DEFINE reached == r.streak + 1 = r.threshold
           s1 == SetStreak(r, r.streak + 1)
           s  == EndIf(reached, s1, Number(b))
           E  == IF reached THEN {UnseenForN(r.streak + 1)} ELSE {}
           h  == Hear(w, E)
<1>0. /\ Number(b) \in Nat /\ Number(b) \in Int
      /\ r.streak + 1 \in Nat /\ reached \in BOOLEAN
  BY NumberNat DEF Records
<1>1. Unseen(r, b) = Decision(s, E)
  BY DEF Unseen
<1>3. /\ s1 \in Records /\ s1.id = r.id /\ s1.terminal = r.terminal
      /\ s1.at = r.at /\ s1.conf = r.conf
      /\ s1.bucket = r.bucket /\ s1.inPool = r.inPool /\ s1.replaced = r.replaced
  BY <1>0, SetStreakKeeps
<1>6. /\ \A f \in E : f.kind \in Endings
      /\ E # {} <=> reached
  <2> DEFINE e == UnseenForN(r.streak + 1)
  <2>1. e.kind \in Endings
    BY DEF UnseenForN, Endings
  <2> HIDE DEF e, reached
  <2>2. E = IF reached THEN {e} ELSE {}
    BY DEF e
  <2> HIDE DEF E
  <2> QED  BY <2>1, <2>2
<1> HIDE DEF s1, reached
<1>5. /\ s \in Records /\ s.id = r.id /\ s.at = r.at /\ s.conf = r.conf
      /\ s.bucket = r.bucket /\ s.inPool = r.inPool /\ s.replaced = r.replaced
      /\ s.terminal = IF reached THEN Or(r.terminal, Number(b)) ELSE r.terminal
  BY <1>0, <1>3, EndIfKeeps
<1> HIDE DEF s, E
<1>7. /\ h \in Notices /\ h.at = w.at /\ h.conf = w.conf
      /\ h.bucket = w.bucket /\ (h.inPool <=> w.inPool)
      /\ h.ended <=> w.ended \/ reached
      /\ h.confirmed = w.confirmed /\ h.stopped = w.stopped
  BY <1>6, HearEnd
<1> HIDE DEF h
<1>8. /\ s.terminal # Never <=> r.terminal # Never \/ reached
      /\ r.terminal # Never => s.terminal = r.terminal
  BY <1>0, <1>5, OrAnchors DEF Records
<1>9. Agree(s, h)
  BY <1>5, <1>7, <1>8 DEF Agree
<1>10. Decision(s, E).rec = s /\ Decision(s, E).events = E
  BY DEF Decision
<1> QED  BY <1>1, <1>5, <1>7, <1>8, <1>9, <1>10 DEF Sound, h

LEMMA ObserveBlockSound ==
  ASSUME NEW r \in Records, NEW w \in Notices, Agree(r, w), NEW b \in Chains,
         NEW t, NEW hadTip
  PROVE  Sound(r, w, ObserveBlock(r, t, b, hadTip))
<1> DEFINE rivals == Rivals(t) \cap Transactions(b)
           u == CHOOSE v \in rivals : TRUE
<1>1. CASE rivals # {}
  <2>1. u \in Opt(Txs) /\ u # None
    BY <1>1, RivalsAreTxs
  <2>2. Sound(r, w, ReplacedInBlock(r, u, b))
    <3> HIDE DEF u
    <3> QED  BY <2>1, ReplacedInBlockSound
  <2> QED
    BY <1>1, <2>2, NoChangeSound, IncludedSound, BumpedSound, UnseenSound
    DEF ObserveBlock, DecideBlock
<1>2. CASE rivals = {}
  BY <1>2, NoChangeSound, IncludedSound, BumpedSound, UnseenSound
  DEF ObserveBlock, DecideBlock
<1> QED  BY <1>1, <1>2

-----------------------------------------------------------------------------
\* The decision about a mempool snapshot.

LEMMA RivalInIsTx == \A s, t : RivalIn(s, t) \in Opt(Txs)
<1> SUFFICES ASSUME NEW s, NEW t PROVE RivalIn(s, t) \in Opt(Txs)
  OBVIOUS
<1> DEFINE P == {u \in Rivals(t) : s[u] = "pending"}
           Q == {u \in Rivals(t) : s[u] = "queued"}
<1>1. P # {} => (CHOOSE u \in P : TRUE) \in Opt(Txs)
  BY RivalsAreTxs
<1>2. Q # {} => (CHOOSE u \in Q : TRUE) \in Opt(Txs)
  BY RivalsAreTxs
<1>3. RivalIn(s, t) = IF P # {} THEN CHOOSE u \in P : TRUE
                      ELSE IF Q # {} THEN CHOOSE u \in Q : TRUE ELSE None
  BY DEF RivalIn
<1> HIDE DEF P, Q
<1> QED  BY <1>1, <1>2, <1>3 DEF Opt

\* The presence half: what becomes of the record and which of the two events.
LEMMA PresenceKeeps ==
  ASSUME NEW r \in Records, NEW bkt \in Opt(Buckets), NEW n \in Nat
  PROVE  LET d == Presence(r, bkt, n) IN
         /\ d.rec \in Records /\ d.rec.id = r.id /\ d.rec.at = r.at
         /\ d.rec.conf = r.conf /\ d.rec.terminal = r.terminal
         /\ d.rec.replaced = r.replaced
         /\ d.rec.bucket = IF bkt # None THEN bkt ELSE r.bucket
         /\ d.rec.inPool <=> bkt # None
<1> DEFINE s1 == Sight(r, n)
<1>0. n \in Int /\ r.bucket \in Opt(Buckets) /\ r.inPool \in BOOLEAN
      /\ FALSE \in BOOLEAN /\ TRUE \in BOOLEAN
  BY DEF Records
<1>1. /\ s1 \in Records /\ s1.id = r.id /\ s1.terminal = r.terminal
      /\ s1.at = r.at /\ s1.conf = r.conf /\ s1.replaced = r.replaced
  BY <1>0, SightKeeps
<1> HIDE DEF s1
<1>2. CASE bkt # None
  <2>1. /\ Presence(r, bkt, n).rec = SetPool(s1, bkt, TRUE)
    BY <1>2 DEF Presence, Entered, Decision, s1
  <2> DEFINE q == SetPool(s1, bkt, TRUE)
  <2>2. /\ q \in Records /\ q.id = r.id /\ q.at = r.at /\ q.conf = r.conf
        /\ q.terminal = r.terminal /\ q.replaced = r.replaced
        /\ q.bucket = bkt /\ q.inPool
    BY <1>0, <1>1, SetPoolKeeps
  <2> HIDE DEF q
  <2>3. Presence(r, bkt, n).rec = q
    BY <2>1 DEF q
  <2> QED  BY <1>2, <2>2, <2>3
<1>3. CASE bkt = None /\ r.inPool
  <2>1. Presence(r, bkt, n).rec = SetPool(r, r.bucket, FALSE)
    BY <1>3 DEF Presence, Decision
  <2> DEFINE q == SetPool(r, r.bucket, FALSE)
  <2>2. /\ q \in Records /\ q.id = r.id /\ q.at = r.at /\ q.conf = r.conf
        /\ q.terminal = r.terminal /\ q.replaced = r.replaced
        /\ q.bucket = r.bucket /\ ~q.inPool
    BY <1>0, SetPoolKeeps
  <2> HIDE DEF q
  <2>3. Presence(r, bkt, n).rec = q
    BY <2>1 DEF q
  <2> QED  BY <1>3, <2>2, <2>3
<1>4. CASE bkt = None /\ ~r.inPool
  <2>1. Presence(r, bkt, n).rec = r
    BY <1>4 DEF Presence, NoChange, Decision
  <2> QED  BY <1>0, <1>4, <2>1
<1> QED  BY <1>0, <1>2, <1>3, <1>4

LEMMA PresenceTells ==
  ASSUME NEW r \in Records, NEW bkt \in Opt(Buckets), NEW n \in Nat,
         NEW k \in Buckets, bkt # None => k = bkt
  PROVE  LET d == Presence(r, bkt, n) IN
         /\ \A f \in d.events : f = SeenInMempool(k) \/ f = LeftMempool
         /\ SeenInMempool(k) \in d.events <=>
              bkt # None /\ (~r.inPool \/ r.bucket # bkt)
         /\ LeftMempool \in d.events <=> bkt = None /\ r.inPool
<1> DEFINE S == SeenInMempool(k)
           G == LeftMempool
<1>0. S # G
  BY DEF SeenInMempool, LeftMempool
<1>2. CASE bkt # None
  <2>1. Presence(r, bkt, n).events =
          IF ~r.inPool \/ r.bucket # bkt THEN {S} ELSE {}
    BY <1>2 DEF Presence, Entered, Decision
  <2> HIDE DEF S, G
  <2>2. /\ \A f \in Presence(r, bkt, n).events : f = S \/ f = G
        /\ S \in Presence(r, bkt, n).events <=> ~r.inPool \/ r.bucket # bkt
        /\ G \notin Presence(r, bkt, n).events
    BY <1>0, <2>1
  <2> QED  BY <1>2, <2>2 DEF S, G
<1>3. CASE bkt = None /\ r.inPool
  <2>1. Presence(r, bkt, n).events = {G}
    BY <1>3 DEF Presence, Decision
  <2> QED  BY <1>0, <1>3, <2>1
<1>4. CASE bkt = None /\ ~r.inPool
  <2>1. Presence(r, bkt, n).events = {}
    BY <1>4 DEF Presence, NoChange, Decision
  <2> QED  BY <1>4, <2>1
<1> QED  BY <1>2, <1>3, <1>4

LEMMA DecideMempoolSound ==
  ASSUME NEW r \in Records, NEW w \in Notices, Agree(r, w),
         NEW t, NEW s, s[t] \in Opt(Buckets), NEW n \in Nat
  PROVE  Sound(r, w, DecideMempool(r, t, s, n))
<1> DEFINE bkt   == s[t]
           rival == RivalIn(s, t)
           k     == IF bkt = None THEN "pending" ELSE bkt
           p     == Presence(r, bkt, n)
           rep   == r.known /\ r.replaced = None /\ rival # None
           x     == SetReplaced(p.rec, rival)
           y     == IF rep THEN End(x, n) ELSE p.rec
           E     == IF rep THEN p.events \cup {ReplacedBy(rival)} ELSE p.events
           h     == Hear(w, E)
<1>1. DecideMempool(r, t, s, n) =
        IF rep THEN Decision(End(x, n), E) ELSE p
  BY DEF DecideMempool, Replacement
<1>2. /\ k \in Buckets
      /\ bkt # None => k = bkt
      /\ rival \in Opt(Txs) /\ n \in Int
  BY RivalInIsTx DEF Opt, Buckets
<1>3. ReplacedBy(rival).kind \in Endings
  BY DEF ReplacedBy, Endings
<1>4. /\ SeenInMempool(k).kind \notin Endings /\ LeftMempool.kind \notin Endings
  BY DEF SeenInMempool, LeftMempool, Endings
<1>5. p = Decision(p.rec, p.events)
  BY DEF Presence, Entered, NoChange, Decision
<1> HIDE DEF k, rival, bkt
<1>6. /\ p.rec \in Records /\ p.rec.id = r.id /\ p.rec.at = r.at
      /\ p.rec.conf = r.conf /\ p.rec.terminal = r.terminal
      /\ p.rec.replaced = r.replaced
      /\ p.rec.bucket = IF bkt # None THEN bkt ELSE r.bucket
      /\ p.rec.inPool <=> bkt # None
  BY PresenceKeeps DEF bkt
<1>7. /\ \A f \in p.events : f = SeenInMempool(k) \/ f = LeftMempool
      /\ SeenInMempool(k) \in p.events <=>
           bkt # None /\ (~r.inPool \/ r.bucket # bkt)
      /\ LeftMempool \in p.events <=> bkt = None /\ r.inPool
  BY <1>2, PresenceTells DEF bkt
<1> HIDE DEF p, rep
<1>8. /\ x \in Records /\ x.id = r.id /\ x.at = r.at /\ x.conf = r.conf
      /\ x.terminal = r.terminal /\ x.replaced = rival
      /\ x.bucket = p.rec.bucket /\ x.inPool = p.rec.inPool
  BY <1>2, <1>6, SetReplacedKeeps
<1> HIDE DEF x
<1>9. /\ y \in Records /\ y.id = r.id /\ y.at = r.at /\ y.conf = r.conf
      /\ y.bucket = p.rec.bucket /\ y.inPool = p.rec.inPool
      /\ y.replaced = IF rep THEN rival ELSE r.replaced
      /\ y.terminal = IF rep THEN Or(r.terminal, n) ELSE r.terminal
  BY <1>2, <1>6, <1>8, EndKeeps
<1>10. /\ \A f \in E : f = SeenInMempool(k) \/ f = LeftMempool \/ f.kind \in Endings
       /\ SeenInMempool(k) \in E <=> SeenInMempool(k) \in p.events
       /\ LeftMempool \in E <=> LeftMempool \in p.events
       /\ (\E f \in E : f.kind \in Endings) <=> rep
  BY <1>3, <1>4, <1>7
<1> HIDE DEF y, E
<1>11. /\ h \in Notices /\ h.at = w.at /\ h.conf = w.conf
       /\ h.bucket = IF SeenInMempool(k) \in E THEN k ELSE w.bucket
       /\ h.inPool <=> SeenInMempool(k) \in E \/ (LeftMempool \notin E /\ w.inPool)
       /\ h.ended <=> w.ended \/ \E f \in E : f.kind \in Endings
       /\ h.confirmed = w.confirmed /\ h.stopped = w.stopped
  <2>1. /\ k \in Buckets
        /\ \A f \in E : f = SeenInMempool(k) \/ f = LeftMempool \/ f.kind \in Endings
    BY <1>2, <1>10
  <2> QED  BY <2>1, HearPool
<1> HIDE DEF h
<1>12. /\ y.terminal # Never <=> r.terminal # Never \/ rep
       /\ r.terminal # Never => y.terminal = r.terminal
  BY <1>9, OrAnchors DEF Records
<1>13. Agree(y, h)
  <2>1. ASSUME bkt # None
        PROVE  y.bucket = h.bucket /\ (y.inPool => h.inPool)
    <3>1. /\ y.bucket = bkt /\ k = bkt
          /\ SeenInMempool(k) \in E <=> ~r.inPool \/ r.bucket # bkt
          /\ LeftMempool \notin E
      BY <1>2, <1>6, <1>7, <1>9, <1>10, <2>1
    <3>2. /\ h.bucket = IF SeenInMempool(k) \in E THEN bkt ELSE r.bucket
          /\ r.inPool => h.inPool
          /\ SeenInMempool(k) \in E => h.inPool
      BY <3>1, <1>11 DEF Agree
    <3> QED  BY <3>1, <3>2
  <2>3. ASSUME bkt = None
        PROVE  y.bucket = h.bucket /\ (y.inPool => h.inPool)
    BY <1>6, <1>7, <1>9, <1>10, <1>11, <2>3 DEF Agree
  <2>2. /\ y.terminal # Never <=> h.ended
        /\ y.replaced # None => y.terminal # Never
        /\ h.confirmed <= 1 /\ (h.confirmed = 1 => h.ended)
    BY <1>9, <1>10, <1>11, <1>12 DEF Agree
  <2>4. y.bucket = h.bucket /\ (y.inPool => h.inPool)
    BY <2>1, <2>3
  <2> QED  BY <1>6, <1>9, <1>11, <2>2, <2>4 DEF Agree
<1>14. /\ DecideMempool(r, t, s, n).rec = y
       /\ DecideMempool(r, t, s, n).events = E
  BY <1>1, <1>5 DEF y, E, Decision
<1> QED  BY <1>9, <1>11, <1>12, <1>13, <1>14 DEF Sound, h

-----------------------------------------------------------------------------
\* What a poll's answer does.

LEMMA HearInclusionOnly ==
  ASSUME NEW w \in Notices, NEW b, NEW n
  PROVE  LET h == Hear(w, {SeenInBlock(b, n)}) IN
         h = [at |-> b, conf |-> n, bucket |-> w.bucket, inPool |-> w.inPool,
              ended |-> w.ended, confirmed |-> w.confirmed, unseen |-> w.unseen,
              vanished |-> w.vanished, lost |-> w.lost, stopped |-> w.stopped]
<1> DEFINE S == SeenInBlock(b, n)
           E == {S}
<1>1. S.kind = "seen-in-block" /\ S.block = b /\ S.conf = n
  BY DEF SeenInBlock
<1> HIDE DEF S
<1>2. /\ Fired(E, "seen-in-block")
      /\ ~Fired(E, "confirmed-terminal") /\ ~Fired(E, "vanished-from-block")
      /\ ~Fired(E, "seen-in-mempool") /\ ~Fired(E, "left-mempool")
      /\ ~Fired(E, "replaced-by") /\ ~Fired(E, "unseen-for-N-blocks")
  BY <1>1 DEF Fired
<1>3. The(E, "seen-in-block") = S
  BY <1>1 DEF The
<1> HIDE DEF E
<1>4. Hear(w, E) =
        [at |-> b, conf |-> n, bucket |-> w.bucket, inPool |-> w.inPool,
         ended |-> w.ended, confirmed |-> w.confirmed, unseen |-> w.unseen,
         vanished |-> w.vanished, lost |-> w.lost, stopped |-> w.stopped]
  BY <1>1, <1>2, <1>3 DEF Hear, Notices
<1> QED  BY <1>4 DEF E, S

LEMMA PolledMinedSound ==
  ASSUME NEW r \in Records, NEW w \in Notices, Agree(r, w),
         NEW k, NEW b \in Chains, NEW n \in Nat
  PROVE  Sound(r, w, PolledMined(r, k, b, n))
<1> DEFINE s1 == SetLast(r, n)
           s2 == SetBlock(s1, b, 1)
           s  == IF k = "status" THEN SetPolled(s2, "mined", TRUE) ELSE s2
           E  == {SeenInBlock(b, 1)}
           h  == Hear(w, E)
<1>0. /\ n \in Int /\ b \in Opt(Chains) /\ 1 \in Nat
      /\ "mined" \in Opt({"pending", "mined"}) /\ TRUE \in BOOLEAN
  BY DEF Opt
<1>1. CASE ~Higher(r, b)
  BY <1>1, NoChangeSound DEF PolledMined
<1>2. CASE Higher(r, b)
  <2>1. /\ s1 \in Records /\ s1.id = r.id /\ s1.terminal = r.terminal
        /\ s1.bucket = r.bucket /\ s1.inPool = r.inPool /\ s1.replaced = r.replaced
    BY <1>0, SetLastKeeps
  <2>2. PolledMined(r, k, b, n) = Decision(s, E)
    BY <1>2 DEF PolledMined
  <2> HIDE DEF s1
  <2>3. /\ s2 \in Records /\ s2.id = r.id /\ s2.terminal = r.terminal
        /\ s2.bucket = r.bucket /\ s2.inPool = r.inPool /\ s2.replaced = r.replaced
        /\ s2.at = b /\ s2.conf = 1
    BY <1>0, <2>1, SetBlockKeeps
  <2> HIDE DEF s2
  <2>4. /\ s \in Records /\ s.id = r.id /\ s.terminal = r.terminal
        /\ s.bucket = r.bucket /\ s.inPool = r.inPool /\ s.replaced = r.replaced
        /\ s.at = b /\ s.conf = 1
    <3> DEFINE q == SetPolled(s2, "mined", TRUE)
    <3>1. /\ q \in Records /\ q.id = r.id /\ q.terminal = r.terminal
          /\ q.bucket = r.bucket /\ q.inPool = r.inPool /\ q.replaced = r.replaced
          /\ q.at = b /\ q.conf = 1
      BY <1>0, <2>3, SetPolledKeeps
    <3> HIDE DEF q
    <3>2. s = IF k = "status" THEN q ELSE s2
      BY DEF q
    <3> HIDE DEF s
    <3> QED  BY <2>3, <3>1, <3>2
  <2>5. h = [at |-> b, conf |-> 1, bucket |-> w.bucket, inPool |-> w.inPool,
             ended |-> w.ended, confirmed |-> w.confirmed, unseen |-> w.unseen,
             vanished |-> w.vanished, lost |-> w.lost, stopped |-> w.stopped]
    BY HearInclusionOnly
  <2> HIDE DEF s, E, h
  <2>6. h \in Notices
    BY <1>0, <2>5 DEF Notices
  <2>7. Agree(s, h)
    BY <2>4, <2>5 DEF Agree, Notices
  <2>8. Decision(s, E).rec = s /\ Decision(s, E).events = E
    BY DEF Decision
  <2> QED  BY <2>2, <2>4, <2>5, <2>6, <2>7, <2>8 DEF Sound, h
<1> QED  BY <1>1, <1>2

LEMMA PolledPendingSound ==
  ASSUME NEW r \in Records, NEW w \in Notices, Agree(r, w), NEW n \in Nat
  PROVE  Sound(r, w, PolledPending(r, n))
<1> DEFINE s1 == SetFirst(r, n)
           s2 == SetLast(s1, n)
           s3 == SetPolled(s2, "pending", TRUE)
           s  == SetPool(s3, "pending", r.inPool)
           E  == {SeenInMempool("pending")}
           h  == Hear(w, E)
<1>0. /\ n \in Int /\ r.inPool \in BOOLEAN /\ TRUE \in BOOLEAN
      /\ "pending" \in Opt({"pending", "mined"}) /\ "pending" \in Opt(Buckets)
  BY DEF Opt, Records, Buckets
<1>1. CASE r.pollSaid = "pending"
  BY <1>1, NoChangeSound DEF PolledPending
<1>2. CASE r.pollSaid # "pending"
  <2>1. PolledPending(r, n) = Decision(s, E)
    BY <1>2 DEF PolledPending
  <2>2. /\ s1 \in Records /\ s1.id = r.id /\ s1.terminal = r.terminal
        /\ s1.at = r.at /\ s1.conf = r.conf /\ s1.replaced = r.replaced
    BY <1>0, SetFirstKeeps
  <2> HIDE DEF s1
  <2>3. /\ s2 \in Records /\ s2.id = r.id /\ s2.terminal = r.terminal
        /\ s2.at = r.at /\ s2.conf = r.conf /\ s2.replaced = r.replaced
    BY <1>0, <2>2, SetLastKeeps
  <2> HIDE DEF s2
  <2>4. /\ s3 \in Records /\ s3.id = r.id /\ s3.terminal = r.terminal
        /\ s3.at = r.at /\ s3.conf = r.conf /\ s3.replaced = r.replaced
    BY <1>0, <2>3, SetPolledKeeps
  <2> HIDE DEF s3
  <2>5. /\ s \in Records /\ s.id = r.id /\ s.terminal = r.terminal
        /\ s.at = r.at /\ s.conf = r.conf /\ s.replaced = r.replaced
        /\ s.bucket = "pending" /\ s.inPool = r.inPool
    BY <1>0, <2>4, SetPoolKeeps
  <2> HIDE DEF s
  <2>6. /\ h \in Notices /\ h.at = w.at /\ h.conf = w.conf
        /\ h.bucket = "pending" /\ h.inPool
        /\ (h.ended <=> w.ended)
        /\ h.confirmed = w.confirmed /\ h.stopped = w.stopped
    <3> DEFINE k == "pending"
    <3>1. /\ k \in Buckets
          /\ \A f \in E : f = SeenInMempool(k) \/ f = LeftMempool \/ f.kind \in Endings
          /\ SeenInMempool(k) \in E
          /\ ~\E f \in E : f.kind \in Endings
      BY DEF Buckets, SeenInMempool, Endings
    <3> HIDE DEF k, E
    <3>2. /\ h \in Notices /\ h.at = w.at /\ h.conf = w.conf
          /\ h.bucket = IF SeenInMempool(k) \in E THEN k ELSE w.bucket
          /\ h.inPool <=>
               SeenInMempool(k) \in E \/ (LeftMempool \notin E /\ w.inPool)
          /\ h.ended <=> w.ended \/ \E f \in E : f.kind \in Endings
          /\ h.confirmed = w.confirmed /\ h.stopped = w.stopped
      BY <3>1, HearPool
    <3> HIDE DEF h
    <3> QED  BY <3>1, <3>2 DEF k
  <2> HIDE DEF E, h
  <2>7. Agree(s, h)
    BY <2>5, <2>6 DEF Agree
  <2>8. Decision(s, E).rec = s /\ Decision(s, E).events = E
    BY DEF Decision
  <2> QED  BY <2>1, <2>5, <2>6, <2>7, <2>8 DEF Sound, h
<1> QED  BY <1>1, <1>2

-----------------------------------------------------------------------------
\* What a displaced block costs a record.

LEMMA HearVanished ==
  ASSUME NEW w \in Notices, NEW d, NEW b
  PROVE  LET h == Hear(w, {Vanished(d, b)}) IN
         h = [at |-> None, conf |-> 0, bucket |-> w.bucket, inPool |-> w.inPool,
              ended |-> w.ended, confirmed |-> w.confirmed, unseen |-> w.unseen,
              vanished |-> Vanished(d, b), lost |-> w.lost, stopped |-> w.stopped]
<1> DEFINE V == Vanished(d, b)
           E == {V}
<1>1. V.kind = "vanished-from-block"
  BY DEF Vanished
<1> HIDE DEF V
<1>2. /\ Fired(E, "vanished-from-block") /\ ~Fired(E, "seen-in-block")
      /\ ~Fired(E, "confirmed-terminal")
      /\ ~Fired(E, "seen-in-mempool") /\ ~Fired(E, "left-mempool")
      /\ ~Fired(E, "replaced-by") /\ ~Fired(E, "unseen-for-N-blocks")
  BY <1>1 DEF Fired
<1>3. The(E, "vanished-from-block") = V
  BY <1>1 DEF The
<1> HIDE DEF E
<1>4. Hear(w, E) =
        [at |-> None, conf |-> 0, bucket |-> w.bucket, inPool |-> w.inPool,
         ended |-> w.ended, confirmed |-> w.confirmed, unseen |-> w.unseen,
         vanished |-> V, lost |-> w.lost, stopped |-> w.stopped]
  BY <1>2, <1>3 DEF Hear, Notices
<1> QED  BY <1>4 DEF E, V

LEMMA ReorgedSound ==
  ASSUME NEW r \in Records, NEW w \in Notices, Agree(r, w), NEW b \in Chains,
         ring \subseteq Chains
  PROVE  Sound(r, w, Reorged(r, b))
<1> DEFINE gone == {d \in DetectDivergences(ring, {b}, ReorgDepth) :
                      r.at # None /\ Number(d) = Number(r.at)}
           d  == CHOOSE x \in gone : TRUE
           s1 == SetLast(r, Number(b))
           s  == SetBlock(s1, None, 0)
           E  == {Vanished(d, b)}
           h  == Hear(w, E)
<1>0. /\ Number(b) \in Int /\ None \in Opt(Chains) /\ 0 \in Nat
  BY NumberNat DEF Opt
<1>1. CASE gone = {}
  BY <1>1, NoChangeSound DEF Reorged
<1>2. CASE gone # {}
  <2>1. Reorged(r, b) = Decision(s, E)
    BY <1>2 DEF Reorged
  <2>2. d \in Chains
    <3>1. gone \subseteq Chains
      BY DEF DetectDivergences
    <3>2. d \in gone
      <4> HIDE DEF gone
      <4> QED  BY <1>2
    <3> QED  BY <3>1, <3>2
  <2> HIDE DEF d, gone
  <2>3. /\ s1 \in Records /\ s1.id = r.id /\ s1.terminal = r.terminal
        /\ s1.bucket = r.bucket /\ s1.inPool = r.inPool /\ s1.replaced = r.replaced
    BY <1>0, SetLastKeeps
  <2> HIDE DEF s1
  <2>4. /\ s \in Records /\ s.id = r.id /\ s.terminal = r.terminal
        /\ s.bucket = r.bucket /\ s.inPool = r.inPool /\ s.replaced = r.replaced
        /\ s.at = None /\ s.conf = 0
    BY <1>0, <2>3, SetBlockKeeps
  <2>5. h = [at |-> None, conf |-> 0, bucket |-> w.bucket, inPool |-> w.inPool,
             ended |-> w.ended, confirmed |-> w.confirmed, unseen |-> w.unseen,
             vanished |-> Vanished(d, b), lost |-> w.lost, stopped |-> w.stopped]
    BY HearVanished
  <2> HIDE DEF s, E, h
  <2>6. Vanished(d, b) \in Opt([kind : {"vanished-from-block"}, old : Chains,
                                new : Chains])
    BY <2>2 DEF Vanished, Opt
  <2>7. h \in Notices
    BY <1>0, <2>5, <2>6 DEF Notices
  <2>8. Agree(s, h)
    BY <2>4, <2>5 DEF Agree, Notices
  <2>9. Decision(s, E).rec = s /\ Decision(s, E).events = E
    BY DEF Decision
  <2> QED  BY <2>1, <2>4, <2>5, <2>7, <2>8, <2>9 DEF Sound, h
<1> QED  BY <1>1, <1>2

-----------------------------------------------------------------------------
\* The invariant.

Coherent ==
  \A t \in Tracked :
    rec[t] # None => Agree(rec[t], told[t]) /\ ~told[t].stopped

IInv == TypeOK /\ Coherent

LEMMA IsRecord == \A x : x \in Opt(Records) /\ x # None => x \in Records
BY DEF Opt

LEMMA TickedKeeps ==
  ASSUME NEW r \in Records
  PROVE  LET s == Ticked(r) IN
         /\ s \in Records /\ s.id = r.id /\ s.at = r.at /\ s.conf = r.conf
         /\ s.bucket = r.bucket /\ s.inPool = r.inPool
         /\ s.replaced = r.replaced /\ s.terminal = r.terminal
<1> DEFINE T == [k \in PollKinds |->
                   IF Every[k] = 0 \/ Due(r, k) THEN 0 ELSE r.ticks[k] + 1]
<1>1. T \in [PollKinds -> Nat]
  BY DEF Records
<1>2. Ticked(r) = [r EXCEPT !.ticks = T]
  BY DEF Ticked
<1> HIDE DEF T
<1> QED  BY <1>1, <1>2 DEF Records

LEMMA StoppedType == Stopped \in Notices /\ NothingTold \in Notices
                     /\ Stopped.stopped /\ ~NothingTold.stopped
BY DEF Stopped, NothingTold, Notices, Opt

\* What a block leaves of a record and what its subscriber knows.
LEMMA FinishOne ==
  ASSUME NEW r \in Records, NEW w \in Notices, Agree(r, w), NEW b \in Chains,
         NEW t, NEW hadTip
  PROVE  LET d == ObserveBlock(r, t, b, hadTip) IN
         /\ Ticked(d.rec) \in Records /\ Ticked(d.rec).id = r.id
         /\ Hear(w, d.events) \in Notices
         /\ Agree(Ticked(d.rec), Hear(w, d.events))
         /\ r.terminal # Never => Ticked(d.rec).terminal = r.terminal
         /\ Hear(w, d.events).stopped = w.stopped
<1> DEFINE d == ObserveBlock(r, t, b, hadTip)
<1>1. Sound(r, w, d)
  BY ObserveBlockSound
<1> HIDE DEF d
<1>2. /\ d.rec \in Records /\ Hear(w, d.events) \in Notices
      /\ Agree(d.rec, Hear(w, d.events))
      /\ d.rec.id = r.id
      /\ r.terminal # Never => d.rec.terminal = r.terminal
      /\ Hear(w, d.events).stopped = w.stopped
  BY <1>1 DEF Sound
<1> DEFINE h == Hear(w, d.events)
           s == Ticked(d.rec)
<1>3. /\ s \in Records /\ s.id = d.rec.id /\ s.at = d.rec.at /\ s.conf = d.rec.conf
      /\ s.bucket = d.rec.bucket /\ s.inPool = d.rec.inPool
      /\ s.replaced = d.rec.replaced /\ s.terminal = d.rec.terminal
  BY <1>2, TickedKeeps
<1> HIDE DEF h, s
<1>4. Agree(d.rec, h)
  BY <1>2 DEF h
<1>5. Agree(s, h)
  BY <1>3, <1>4 DEF Agree
<1>6. /\ s \in Records /\ s.id = r.id /\ h \in Notices /\ Agree(s, h)
      /\ r.terminal # Never => s.terminal = r.terminal
      /\ h.stopped = w.stopped
  BY <1>2, <1>3, <1>5 DEF h
<1> QED  BY <1>6 DEF d, h, s

LEMMA FinishBlockKeeps ==
  ASSUME NEW R \in [Tracked -> Opt(Records)], NEW W \in [Tracked -> Notices],
         \A t \in Tracked : R[t] # None => Agree(R[t], W[t]) /\ ~W[t].stopped,
         NEW b \in Chains, NEW hadTip, NEW latest \in Nat,
         polls \subseteq Polls, quiet \in [Tracked -> Nat],
         FinishBlock(R, W, b, hadTip, latest)
  PROVE  /\ rec' \in [Tracked -> Opt(Records)] /\ told' \in [Tracked -> Notices]
         /\ polls' \subseteq Polls /\ quiet' \in [Tracked -> Nat]
         /\ Coherent'
         /\ \A t \in Tracked :
              /\ R[t] = None => rec'[t] = None /\ told'[t] = W[t]
              /\ rec'[t] # None =>
                   /\ rec'[t].id = R[t].id
                   /\ R[t].terminal # Never => rec'[t].terminal = R[t].terminal
<1> DEFINE is  == {t \in Tracked : R[t] # None}
           d   == [t \in is |-> ObserveBlock(R[t], t, b, hadTip)]
           out == {t \in is : Expired(d[t].rec, b)}
<1>1. /\ rec' = [t \in Tracked |->
                   IF t \in is \ out THEN Ticked(d[t].rec) ELSE None]
      /\ told' = [t \in Tracked |->
                    IF t \in out THEN Stopped
                    ELSE IF t \in is THEN Hear(W[t], d[t].events) ELSE W[t]]
      /\ polls' = polls \cup
           {[kind |-> p[1], tx |-> p[2], id |-> R[p[2]].id, tip |-> latest,
             found |-> "asked", block |-> None] :
              p \in {q \in PollKinds \X (is \ out) : Due(d[q[2]].rec, q[1])}}
      /\ quiet' = [t \in Tracked |->
                     IF t \in is \ out /\ t \notin Transactions(b)
                     THEN quiet[t] + 1 ELSE 0]
  BY DEF FinishBlock
<1>2. ASSUME NEW t \in is
      PROVE  /\ R[t] \in Records
             /\ Ticked(d[t].rec) \in Records /\ Ticked(d[t].rec).id = R[t].id
             /\ Hear(W[t], d[t].events) \in Notices
             /\ Agree(Ticked(d[t].rec), Hear(W[t], d[t].events))
             /\ R[t].terminal # Never => Ticked(d[t].rec).terminal = R[t].terminal
             /\ ~Hear(W[t], d[t].events).stopped
  <2>1. R[t] \in Records /\ W[t] \in Notices /\ Agree(R[t], W[t]) /\ ~W[t].stopped
    BY IsRecord
  <2>2. d[t] = ObserveBlock(R[t], t, b, hadTip)
    OBVIOUS
  <2> HIDE DEF d
  <2> QED  BY <2>1, <2>2, FinishOne
<1>3. out \subseteq is /\ is \subseteq Tracked
  OBVIOUS
<1>4. \A t \in Tracked : t \notin is <=> R[t] = None
  OBVIOUS
<1>5. \A t \in Tracked : W[t] \in Notices
  OBVIOUS
<1> HIDE DEF d, out, is
<1>6. rec' \in [Tracked -> Opt(Records)] /\ told' \in [Tracked -> Notices]
  BY <1>1, <1>2, <1>3, <1>5, StoppedType DEF Opt
<1>7. polls' \subseteq Polls
  <2>1. ASSUME NEW p \in PollKinds \X (is \ out)
        PROVE  [kind |-> p[1], tx |-> p[2], id |-> R[p[2]].id, tip |-> latest,
                found |-> "asked", block |-> None] \in Polls
    <3>1. p[1] \in PollKinds /\ p[2] \in Tracked /\ R[p[2]].id \in 1..MaxRecords
      BY <1>2, <1>3 DEF Records
    <3> QED  BY <3>1 DEF Polls, Opt
  <2> QED  BY <1>1, <2>1
<1>8. quiet' \in [Tracked -> Nat]
  BY <1>1
<1>9. Coherent'
  <2> SUFFICES ASSUME NEW t \in Tracked, rec'[t] # None
               PROVE  Agree(rec'[t], told'[t]) /\ ~told'[t].stopped
    BY DEF Coherent
  <2>1. t \in is \ out
    BY <1>1
  <2>2. rec'[t] = Ticked(d[t].rec) /\ told'[t] = Hear(W[t], d[t].events)
    BY <1>1, <2>1
  <2> QED  BY <1>2, <2>1, <2>2
<1>10. ASSUME NEW t \in Tracked
       PROVE  /\ R[t] = None => rec'[t] = None /\ told'[t] = W[t]
              /\ rec'[t] # None =>
                   /\ rec'[t].id = R[t].id
                   /\ R[t].terminal # Never => rec'[t].terminal = R[t].terminal
  <2>1. CASE R[t] = None
    BY <1>1, <1>3, <1>4, <2>1
  <2>2. CASE t \in is \ out
    BY <1>1, <1>2, <1>4, <2>2
  <2>3. CASE t \in out
    BY <1>1, <1>3, <1>4, <2>3
  <2> QED  BY <1>4, <2>1, <2>2, <2>3
<1> QED  BY <1>6, <1>7, <1>8, <1>9, <1>10

\* What no step does: move the terminal anchor of a record, or tell a subscriber
\* that was told `stopped` anything without a new record.
Anchored ==
  \A t \in Tracked :
    rec[t] # None /\ rec'[t] # None /\ rec'[t].id = rec[t].id
        /\ rec[t].terminal # Never
      => rec'[t].terminal = rec[t].terminal

Final ==
  \A t \in Tracked :
    told[t].stopped /\ told'[t] # told[t] => records'[t] > records[t]

LEMMA InitIInv == Init => IInv
<1> SUFFICES ASSUME Init PROVE IInv
  OBVIOUS
<1> USE DEF Init
<1>1. head \in Chains /\ past \subseteq Chains /\ handed \in Opt(Chains)
  BY DEF Opt
<1>2. count \in [adopts : Nat, handOuts : Nat, restarts : Nat]
  OBVIOUS
<1>3. caps \in Ranks /\ lastCaps \in Ranks
  BY DEF Ranks
<1>4. tip \in Opt(Chains) /\ ring \subseteq Chains
  BY DEF Opt
<1>5. rec \in [Tracked -> Opt(Records)] /\ waiting = {} /\ polls = {}
  BY DEF Opt
<1>6. records \in [Tracked -> 0..MaxRecords]
  BY ConstantsAssumption DEF ConstantsAssumption
<1>7. told \in [Tracked -> Notices] /\ quiet \in [Tracked -> Nat]
  BY StoppedType
<1>8. Coherent
  BY DEF Coherent
<1> QED
  BY <1>1, <1>2, <1>3, <1>4, <1>5, <1>6, <1>7, <1>8 DEF IInv, TypeOK

\* A step that leaves records and subscribers alone.
LEMMA SilentStep ==
  ASSUME Coherent, UNCHANGED <<rec, told>>
  PROVE  Coherent' /\ Anchored /\ Final
BY DEF Coherent, Anchored, Final, Agree

LEMMA NodeStep ==
  ASSUME IInv, AdoptHead \/ SourceRestarts \/ CapsChange
  PROVE  IInv' /\ Anchored /\ Final
<1>1. CASE AdoptHead
  <2>1. head' \in Chains /\ past' \subseteq Chains
    BY <1>1 DEF AdoptHead, IInv, TypeOK
  <2>2. count' \in [adopts : Nat, handOuts : Nat, restarts : Nat]
    BY <1>1 DEF AdoptHead, IInv, TypeOK
  <2>3. UNCHANGED <<handed, caps, tracker, waiting, polls, records, told, quiet>>
    BY <1>1 DEF AdoptHead
  <2>4. TypeOK'
    BY <2>1, <2>2, <2>3 DEF tracker, IInv, TypeOK
  <2> QED  BY <2>3, <2>4, SilentStep DEF tracker, IInv
<1>2. CASE SourceRestarts
  <2>1. handed' \in Opt(Chains)
    BY <1>2 DEF SourceRestarts, Opt
  <2>2. count' \in [adopts : Nat, handOuts : Nat, restarts : Nat]
    BY <1>2 DEF SourceRestarts, IInv, TypeOK
  <2>3. UNCHANGED <<head, past, caps, tracker, waiting, polls, records, told, quiet>>
    BY <1>2 DEF SourceRestarts
  <2>4. TypeOK'
    BY <2>1, <2>2, <2>3 DEF tracker, IInv, TypeOK
  <2> QED  BY <2>3, <2>4, SilentStep DEF tracker, IInv
<1>3. CASE CapsChange
  <2>1. caps' \in Ranks
    BY <1>3, ConstantsAssumption DEF CapsChange, ConstantsAssumption
  <2>2. UNCHANGED <<node, tracker, waiting, polls, records, told, quiet>>
    BY <1>3 DEF CapsChange
  <2>3. TypeOK'
    BY <2>1, <2>2 DEF node, tracker, IInv, TypeOK
  <2> QED  BY <2>2, <2>3, SilentStep DEF node, tracker, IInv
<1> QED  BY <1>1, <1>2, <1>3

LEMMA NewRecordAgrees ==
  ASSUME NEW id \in 1..MaxRecords, NEW n \in Thresholds
  PROVE  NewRecord(id, n) \in Records /\ Agree(NewRecord(id, n), NothingTold)
<1>1. NewRecord(id, n) \in Records
  BY DEF NewRecord, Records, Opt, Never
<1>2. Agree(NewRecord(id, n), NothingTold)
  BY DEF NewRecord, NothingTold, Agree
<1> QED  BY <1>1, <1>2

LEMMA ThresholdKeeps ==
  ASSUME NEW r \in Records, NEW n \in Thresholds
  PROVE  LET s == [r EXCEPT !.threshold = n] IN
         /\ s \in Records /\ s.id = r.id /\ s.at = r.at /\ s.conf = r.conf
         /\ s.bucket = r.bucket /\ s.inPool = r.inPool
         /\ s.replaced = r.replaced /\ s.terminal = r.terminal
BY DEF Records

LEMMA SubscribeStep ==
  ASSUME IInv, NEW t \in Tracked, NEW n \in Thresholds, Subscribe(t, n)
  PROVE  IInv' /\ Anchored /\ Final
<1>0. UNCHANGED <<node, caps, lastCaps, tip, ring, waiting, polls>>
  BY DEF Subscribe
<1>t. /\ rec \in [Tracked -> Opt(Records)] /\ told \in [Tracked -> Notices]
      /\ records \in [Tracked -> 0..MaxRecords] /\ quiet \in [Tracked -> Nat]
  BY DEF IInv, TypeOK
<1>1. CASE rec[t] = None
  <2> DEFINE s == NewRecord(records[t] + 1, n)
  <2>1. /\ records[t] < MaxRecords
        /\ records' = [records EXCEPT ![t] = @ + 1]
        /\ rec' = [rec EXCEPT ![t] = s]
        /\ told' = [told EXCEPT ![t] = NothingTold]
        /\ quiet' = [quiet EXCEPT ![t] = 0]
    BY <1>1 DEF Subscribe
  <2>2. records[t] + 1 \in 1..MaxRecords
    BY <1>t, <2>1, ConstantsAssumption DEF ConstantsAssumption
  <2>3. s \in Records /\ Agree(s, NothingTold)
    BY <2>2, NewRecordAgrees
  <2> HIDE DEF s
  <2>4. /\ rec' \in [Tracked -> Opt(Records)] /\ told' \in [Tracked -> Notices]
        /\ records' \in [Tracked -> 0..MaxRecords] /\ quiet' \in [Tracked -> Nat]
    BY <1>t, <2>1, <2>2, <2>3, StoppedType DEF Opt
  <2>5. TypeOK'
    BY <1>0, <2>4 DEF node, IInv, TypeOK
  <2>6. ASSUME NEW u \in Tracked, rec'[u] # None
        PROVE  Agree(rec'[u], told'[u]) /\ ~told'[u].stopped
    <3>1. CASE u = t
      BY <1>t, <2>1, <2>3, <3>1, StoppedType
    <3>2. CASE u # t
      <4>1. rec'[u] = rec[u] /\ told'[u] = told[u]
        BY <1>t, <2>1, <3>2
      <4> QED  BY <2>6, <4>1 DEF IInv, Coherent
    <3> QED  BY <3>1, <3>2
  <2>7. Coherent'
    BY <2>6 DEF Coherent
  <2>8. Anchored
    BY <1>1, <1>t, <2>1 DEF Anchored
  <2>9. Final
    BY <1>t, <2>1 DEF Final
  <2> QED  BY <2>5, <2>7, <2>8, <2>9 DEF IInv
<1>2. CASE rec[t] # None
  <2> DEFINE s == [rec[t] EXCEPT !.threshold = n]
  <2>1. /\ rec' = [rec EXCEPT ![t] = s]
        /\ UNCHANGED <<records, told, quiet>>
    BY <1>2 DEF Subscribe
  <2>2. rec[t] \in Records
    BY <1>2, <1>t, IsRecord
  <2>3. /\ s \in Records /\ s.at = rec[t].at /\ s.conf = rec[t].conf
        /\ s.bucket = rec[t].bucket /\ s.inPool = rec[t].inPool
        /\ s.replaced = rec[t].replaced /\ s.terminal = rec[t].terminal
    BY <2>2, ThresholdKeeps
  <2> HIDE DEF s
  <2>4. rec' \in [Tracked -> Opt(Records)]
    BY <1>t, <2>1, <2>3 DEF Opt
  <2>5. TypeOK'
    BY <1>0, <2>1, <2>4 DEF node, IInv, TypeOK
  <2>6. ASSUME NEW u \in Tracked, rec'[u] # None
        PROVE  Agree(rec'[u], told'[u]) /\ ~told'[u].stopped
    <3>1. CASE u = t
      <4>1. Agree(rec[t], told[t]) /\ ~told[t].stopped
        BY <1>2 DEF IInv, Coherent
      <4>2. rec'[u] = s /\ told'[u] = told[t]
        BY <1>t, <2>1, <3>1
      <4> QED  BY <2>3, <4>1, <4>2 DEF Agree
    <3>2. CASE u # t
      <4>1. rec'[u] = rec[u] /\ told'[u] = told[u]
        BY <1>t, <2>1, <3>2
      <4> QED  BY <2>6, <4>1 DEF IInv, Coherent
    <3> QED  BY <3>1, <3>2
  <2>7. Coherent'
    BY <2>6 DEF Coherent
  <2>8. Anchored
    BY <1>t, <2>1, <2>3 DEF Anchored
  <2>9. Final
    BY <2>1 DEF Final
  <2> QED  BY <2>5, <2>7, <2>8, <2>9 DEF IInv
<1> QED  BY <1>1, <1>2

LEMMA ReleaseStep ==
  ASSUME IInv, NEW t \in Tracked, Release(t)
  PROVE  IInv' /\ Anchored /\ Final
<1>0. /\ rec[t] # None
      /\ rec' = [rec EXCEPT ![t] = None] /\ told' = [told EXCEPT ![t] = Stopped]
      /\ UNCHANGED <<node, caps, lastCaps, tip, ring, waiting, polls, records, quiet>>
  BY DEF Release
<1>1. rec \in [Tracked -> Opt(Records)] /\ told \in [Tracked -> Notices]
  BY DEF IInv, TypeOK
<1>2. rec' \in [Tracked -> Opt(Records)] /\ told' \in [Tracked -> Notices]
  BY <1>0, <1>1, StoppedType DEF Opt
<1>3. TypeOK'
  BY <1>0, <1>2 DEF node, IInv, TypeOK
<1>4. ASSUME NEW u \in Tracked
      PROVE  \/ u = t /\ rec'[u] = None
             \/ rec'[u] = rec[u] /\ told'[u] = told[u]
  BY <1>0, <1>1
<1>5. Coherent'
  <2> SUFFICES ASSUME NEW u \in Tracked, rec'[u] # None
               PROVE  Agree(rec'[u], told'[u]) /\ ~told'[u].stopped
    BY DEF Coherent
  <2>1. rec'[u] = rec[u] /\ told'[u] = told[u]
    BY <1>4
  <2> QED  BY <2>1 DEF IInv, Coherent
<1>6. Anchored
  BY <1>4 DEF Anchored
<1>7. Final
  <2>1. ~told[t].stopped
    BY <1>0 DEF IInv, Coherent
  <2> QED  BY <1>4, <2>1 DEF Final
<1> QED  BY <1>3, <1>5, <1>6, <1>7 DEF IInv

LEMMA TipOr0Nat == ASSUME tip \in Opt(Chains) PROVE TipOr0 \in Nat
BY NumberNat DEF TipOr0, Opt

\* onBlock up to the receipts: the reorg check and the capability change.
LEMMA PreludeKeeps ==
  ASSUME IInv, NEW b \in Chains, NEW t \in Tracked, rec[t] # None
  PROVE  LET r == Reorged(rec[t], b).rec
             w == Signalled(Hear(told[t], Reorged(rec[t], b).events))
         IN /\ r \in Records /\ w \in Notices /\ Agree(r, w)
            /\ r.id = rec[t].id /\ ~w.stopped
            /\ rec[t].terminal # Never => r.terminal = rec[t].terminal
<1> DEFINE d == Reorged(rec[t], b)
           h == Hear(told[t], d.events)
           w == Signalled(h)
<1>1. /\ rec[t] \in Records /\ told[t] \in Notices
      /\ Agree(rec[t], told[t]) /\ ~told[t].stopped
      /\ ring \subseteq Chains
  BY IsRecord DEF IInv, TypeOK, Coherent
<1>2. Sound(rec[t], told[t], d)
  BY <1>1, ReorgedSound
<1> HIDE DEF d
<1>3. /\ d.rec \in Records /\ d.rec.id = rec[t].id
      /\ rec[t].terminal # Never => d.rec.terminal = rec[t].terminal
      /\ h \in Notices /\ Agree(d.rec, h) /\ ~h.stopped
  BY <1>1, <1>2 DEF Sound
<1> HIDE DEF h
<1>4. /\ w \in Notices /\ w.at = h.at /\ w.conf = h.conf /\ w.bucket = h.bucket
      /\ w.inPool = h.inPool /\ w.ended = h.ended
      /\ w.confirmed = h.confirmed /\ w.stopped = h.stopped
  <2> DEFINE l == IF caps < lastCaps THEN "degraded"
                  ELSE IF caps > lastCaps THEN "recovered" ELSE h.lost
  <2>1. w = [h EXCEPT !.lost = l]
    BY <1>3 DEF Signalled
  <2>2. l \in Opt({"degraded", "recovered"})
    BY <1>3 DEF Notices, Opt
  <2> HIDE DEF l, w
  <2> QED  BY <1>3, <2>1, <2>2 DEF Notices
<1> HIDE DEF w
<1>5. Agree(d.rec, w)
  BY <1>3, <1>4 DEF Agree
<1>6. /\ d.rec \in Records /\ w \in Notices /\ Agree(d.rec, w)
      /\ d.rec.id = rec[t].id /\ ~w.stopped
      /\ rec[t].terminal # Never => d.rec.terminal = rec[t].terminal
  BY <1>3, <1>4, <1>5
<1> QED  BY <1>6 DEF d, h, w

LEMMA OnBlockStep ==
  ASSUME IInv, NEW b \in past, OnBlock(b)
  PROVE  IInv' /\ Anchored /\ Final
<1> DEFINE R == [t \in Tracked |->
                   IF rec[t] = None THEN None ELSE Reorged(rec[t], b).rec]
           W == [t \in Tracked |->
                   IF rec[t] = None THEN told[t]
                   ELSE Signalled(Hear(told[t], Reorged(rec[t], b).events))]
           task == [block |-> b, hadTip |-> tip # None]
<1>0. b \in Chains /\ Number(b) \in Nat
  BY NumberNat DEF IInv, TypeOK
<1>t. TypeOK
  BY DEF IInv
<1>1. /\ handed' = b
      /\ count' = [count EXCEPT !.handOuts = @ + 1]
      /\ tip' = b /\ lastCaps' = caps
      /\ ring' = AppendBlock(ring, b, 2 * ReorgDepth)
      /\ UNCHANGED <<head, past, caps, records>>
  BY DEF OnBlock
<1>2. \/ /\ waiting' = waiting \cup {task} /\ rec' = R /\ told' = W
         /\ UNCHANGED <<polls, quiet>>
      \/ /\ FinishBlock(R, W, b, tip # None, Number(b))
         /\ UNCHANGED waiting
  BY DEF OnBlock
<1>3. ASSUME NEW t \in Tracked
      PROVE  /\ rec[t] = None => R[t] = None /\ W[t] = told[t]
             /\ rec[t] # None =>
                  /\ R[t] \in Records /\ W[t] \in Notices /\ Agree(R[t], W[t])
                  /\ R[t].id = rec[t].id /\ ~W[t].stopped
                  /\ rec[t].terminal # Never => R[t].terminal = rec[t].terminal
  <2>1. CASE rec[t] = None
    BY <2>1
  <2>2. CASE rec[t] # None
    <3>1. /\ R[t] = Reorged(rec[t], b).rec
          /\ W[t] = Signalled(Hear(told[t], Reorged(rec[t], b).events))
      BY <2>2
    <3> HIDE DEF R, W
    <3> QED  BY <1>0, <2>2, <3>1, PreludeKeeps
  <2> QED  BY <2>1, <2>2
<1>4. R \in [Tracked -> Opt(Records)] /\ W \in [Tracked -> Notices]
  <2>1. ASSUME NEW t \in Tracked PROVE R[t] \in Opt(Records) /\ W[t] \in Notices
    <3> HIDE DEF R, W
    <3> QED  BY <1>t, <1>3 DEF TypeOK, Opt
  <2> QED  BY <2>1
<1>5. \A t \in Tracked : R[t] # None => Agree(R[t], W[t]) /\ ~W[t].stopped
  <2> HIDE DEF R, W
  <2> QED  BY <1>3
<1> HIDE DEF R, W
<1>6. /\ rec' \in [Tracked -> Opt(Records)] /\ told' \in [Tracked -> Notices]
      /\ polls' \subseteq Polls /\ quiet' \in [Tracked -> Nat]
      /\ waiting' \subseteq [block : Chains, hadTip : BOOLEAN]
      /\ Coherent'
      /\ \A t \in Tracked :
           /\ R[t] = None => rec'[t] = None /\ told'[t] = W[t]
           /\ rec'[t] # None =>
                /\ rec'[t].id = R[t].id
                /\ R[t].terminal # Never => rec'[t].terminal = R[t].terminal
  <2>1. CASE /\ waiting' = waiting \cup {task} /\ rec' = R /\ told' = W
             /\ UNCHANGED <<polls, quiet>>
    <3>1. task \in [block : Chains, hadTip : BOOLEAN]
      BY <1>0
    <3>2. Coherent'
      BY <1>5, <2>1 DEF Coherent
    <3> HIDE DEF task
    <3> QED  BY <1>t, <1>4, <2>1, <3>1, <3>2 DEF TypeOK
  <2>2. CASE /\ FinishBlock(R, W, b, tip # None, Number(b))
             /\ UNCHANGED waiting
    <3>1. polls \subseteq Polls /\ quiet \in [Tracked -> Nat]
          /\ waiting \subseteq [block : Chains, hadTip : BOOLEAN]
      BY <1>t DEF TypeOK
    <3> QED  BY <1>0, <1>4, <1>5, <2>2, <3>1, FinishBlockKeeps
  <2> QED  BY <1>2, <2>1, <2>2
<1>7. TypeOK'
  <2>1. ring' \subseteq Chains
    BY <1>0, <1>1, <1>t DEF AppendBlock, Highest, TypeOK
  <2>2. count' \in [adopts : Nat, handOuts : Nat, restarts : Nat]
    BY <1>1, <1>t DEF TypeOK
  <2> QED  BY <1>0, <1>1, <1>6, <1>t, <2>1, <2>2 DEF TypeOK, Opt
<1>8. Anchored
  <2> SUFFICES ASSUME NEW t \in Tracked, rec[t] # None, rec'[t] # None,
                      rec[t].terminal # Never
               PROVE  rec'[t].terminal = rec[t].terminal
    BY DEF Anchored
  <2>1. R[t].terminal = rec[t].terminal
    BY <1>3
  <2> QED  BY <1>6, <2>1
<1>9. Final
  <2> SUFFICES ASSUME NEW t \in Tracked, told[t].stopped
               PROVE  told'[t] = told[t]
    BY DEF Final
  <2>1. rec[t] = None
    BY DEF IInv, Coherent
  <2> QED  BY <1>3, <1>6, <2>1
<1> QED  BY <1>6, <1>7, <1>8, <1>9 DEF IInv

LEMMA ResumeBlockStep ==
  ASSUME IInv, NEW task \in waiting, ResumeBlock(task)
  PROVE  IInv' /\ Anchored /\ Final
<1>t. TypeOK
  BY DEF IInv
<1>0. /\ waiting' = waiting \ {task}
      /\ FinishBlock(rec, told, task.block, task.hadTip, TipOr0)
      /\ UNCHANGED <<node, caps, lastCaps, tip, ring, records>>
  BY DEF ResumeBlock
<1>1. /\ rec \in [Tracked -> Opt(Records)] /\ told \in [Tracked -> Notices]
      /\ polls \subseteq Polls /\ quiet \in [Tracked -> Nat]
      /\ task.block \in Chains
      /\ waiting' \subseteq [block : Chains, hadTip : BOOLEAN]
      /\ TipOr0 \in Nat
  BY <1>0, <1>t, TipOr0Nat DEF TypeOK
<1>2. \A t \in Tracked : rec[t] # None => Agree(rec[t], told[t]) /\ ~told[t].stopped
  BY DEF IInv, Coherent
<1>3. /\ rec' \in [Tracked -> Opt(Records)] /\ told' \in [Tracked -> Notices]
      /\ polls' \subseteq Polls /\ quiet' \in [Tracked -> Nat]
      /\ Coherent'
      /\ \A t \in Tracked :
           /\ rec[t] = None => rec'[t] = None /\ told'[t] = told[t]
           /\ rec'[t] # None =>
                /\ rec'[t].id = rec[t].id
                /\ rec[t].terminal # Never => rec'[t].terminal = rec[t].terminal
  BY <1>0, <1>1, <1>2, FinishBlockKeeps
<1>4. TypeOK'
  BY <1>0, <1>1, <1>3, <1>t DEF TypeOK, node
<1>5. Anchored
  BY <1>3 DEF Anchored
<1>6. Final
  BY <1>2, <1>3 DEF Final
<1> QED  BY <1>3, <1>4, <1>5, <1>6 DEF IInv

LEMMA OnMempoolStep ==
  ASSUME IInv, NEW s \in Pools, OnMempool(s)
  PROVE  IInv' /\ Anchored /\ Final
<1> DEFINE d == [t \in Live |-> DecideMempool(rec[t], t, s, TipOr0)]
<1>t. TypeOK
  BY DEF IInv
<1>0. /\ rec' = [t \in Tracked |-> IF t \in Live THEN d[t].rec ELSE None]
      /\ told' = [t \in Tracked |->
                    IF t \in Live THEN Hear(told[t], d[t].events) ELSE told[t]]
      /\ quiet' = [t \in Tracked |-> IF s[t] = None THEN quiet[t] ELSE 0]
      /\ UNCHANGED <<node, caps, lastCaps, tip, ring, waiting, polls, records>>
  BY DEF OnMempool
<1>1. ASSUME NEW t \in Live
      PROVE  /\ d[t].rec \in Records /\ Hear(told[t], d[t].events) \in Notices
             /\ Agree(d[t].rec, Hear(told[t], d[t].events))
             /\ rec[t].terminal # Never => d[t].rec.terminal = rec[t].terminal
             /\ ~Hear(told[t], d[t].events).stopped
  <2>1. /\ rec[t] \in Records /\ told[t] \in Notices
        /\ Agree(rec[t], told[t]) /\ ~told[t].stopped
    BY IsRecord DEF Live, IInv, TypeOK, Coherent
  <2>2. s[t] \in Opt(Buckets)
    BY ConstantsAssumption DEF ConstantsAssumption, Snapshots, Live, Opt
  <2>3. TipOr0 \in Nat
    BY <1>t, TipOr0Nat DEF TypeOK
  <2>4. d[t] = DecideMempool(rec[t], t, s, TipOr0)
    OBVIOUS
  <2> HIDE DEF d
  <2>5. Sound(rec[t], told[t], d[t])
    BY <2>1, <2>2, <2>3, <2>4, DecideMempoolSound
  <2> QED  BY <2>1, <2>5 DEF Sound
<1> HIDE DEF d
<1>2. \A t \in Tracked : t \in Live <=> rec[t] # None
  BY DEF Live
<1>3. rec' \in [Tracked -> Opt(Records)] /\ told' \in [Tracked -> Notices]
  BY <1>0, <1>1, <1>t DEF TypeOK, Opt
<1>4. quiet' \in [Tracked -> Nat]
  BY <1>0, <1>t DEF TypeOK
<1>5. TypeOK'
  BY <1>0, <1>3, <1>4, <1>t DEF TypeOK, node
<1>6. Coherent'
  <2> SUFFICES ASSUME NEW t \in Tracked, rec'[t] # None
               PROVE  Agree(rec'[t], told'[t]) /\ ~told'[t].stopped
    BY DEF Coherent
  <2>1. t \in Live
    BY <1>0
  <2>2. rec'[t] = d[t].rec /\ told'[t] = Hear(told[t], d[t].events)
    BY <1>0, <2>1
  <2> QED  BY <1>1, <2>1, <2>2
<1>7. Anchored
  <2> SUFFICES ASSUME NEW t \in Tracked, rec[t] # None, rec[t].terminal # Never
               PROVE  rec'[t].terminal = rec[t].terminal
    BY DEF Anchored
  <2>1. t \in Live
    BY <1>2
  <2>2. rec'[t] = d[t].rec
    BY <1>0, <2>1
  <2> QED  BY <1>1, <2>1, <2>2
<1>8. Final
  <2> SUFFICES ASSUME NEW t \in Tracked, told[t].stopped
               PROVE  told'[t] = told[t]
    BY DEF Final
  <2>1. t \notin Live
    BY <1>2 DEF IInv, Coherent
  <2> QED  BY <1>0, <2>1
<1> QED  BY <1>5, <1>6, <1>7, <1>8 DEF IInv

LEMMA PollAnswered ==
  ASSUME NEW p \in Polls, p.found = "asked", NEW b \in Chains
  PROVE  /\ [p EXCEPT !.found = "mined", !.block = b] \in Polls
         /\ [p EXCEPT !.found = "pending"] \in Polls
<1>1. p \in [kind : PollKinds, tx : Tracked, id : 1..MaxRecords, tip : Nat,
             found : {"asked", "pending"}, block : {None}]
  BY DEF Polls
<1> QED  BY <1>1 DEF Polls

LEMMA AnswerStep ==
  ASSUME IInv, NEW p \in polls, AnswerPoll(p) \/ PollFails(p)
  PROVE  IInv' /\ Anchored /\ Final
<1>t. TypeOK
  BY DEF IInv
<1>0. UNCHANGED <<node, caps, tracker, waiting, records, told, quiet>>
  BY DEF AnswerPoll, PollFails
<1>1. p \in Polls /\ p.found = "asked" /\ p.tx \in Txs /\ head \in Chains
  BY <1>t, ConstantsAssumption
  DEF TypeOK, Polls, ConstantsAssumption, AnswerPoll, PollFails
<1>2. OnChain(p.tx, head) => InclusionOf(p.tx, head) \in Chains
  BY <1>1, ConstantsAssumption DEF ConstantsAssumption
<1>3. \/ polls' = polls \ {p}
      \/ polls' = (polls \ {p}) \cup {[p EXCEPT !.found = "pending"]}
      \/ /\ OnChain(p.tx, head)
         /\ polls' = (polls \ {p}) \cup
              {[p EXCEPT !.found = "mined", !.block = InclusionOf(p.tx, head)]}
  BY DEF AnswerPoll, PollFails
<1>4. polls' \subseteq Polls
  <2>1. [p EXCEPT !.found = "pending"] \in Polls
    BY <1>1, PollAnswered
  <2>2. OnChain(p.tx, head) =>
          [p EXCEPT !.found = "mined", !.block = InclusionOf(p.tx, head)] \in Polls
    BY <1>1, <1>2, PollAnswered
  <2>3. polls \subseteq Polls
    BY <1>t DEF TypeOK
  <2> QED  BY <1>3, <2>1, <2>2, <2>3
<1>5. TypeOK'
  BY <1>0, <1>4, <1>t DEF TypeOK, node, tracker
<1> QED  BY <1>0, <1>5, SilentStep DEF tracker, IInv

LEMMA ResumePollStep ==
  ASSUME IInv, NEW p \in polls, ResumePoll(p)
  PROVE  IInv' /\ Anchored /\ Final
<1> DEFINE d == IF p.found = "pending" THEN PolledPending(rec[p.tx], p.tip)
                ELSE PolledMined(rec[p.tx], p.kind, p.block, p.tip)
<1>t. TypeOK
  BY DEF IInv
<1>0. /\ polls' = polls \ {p}
      /\ UNCHANGED <<node, caps, lastCaps, tip, ring, waiting, records>>
  BY DEF ResumePoll
<1>1. /\ p \in Polls /\ p.tx \in Tracked /\ p.tip \in Nat
      /\ p.found = "pending" \/ p.block \in Chains
  BY <1>t DEF TypeOK, Polls, ResumePoll
<1>2. CASE ~Present(p)
  <2>1. UNCHANGED <<rec, told, quiet>>
    BY <1>2 DEF ResumePoll
  <2>2. TypeOK'
    BY <1>0, <1>t, <2>1 DEF TypeOK, node
  <2> QED  BY <2>1, <2>2, SilentStep DEF IInv
<1>3. CASE Present(p)
  <2> DEFINE r == rec[p.tx]
             w == told[p.tx]
             h == Hear(w, d.events)
  <2>1. /\ rec' = [rec EXCEPT ![p.tx] = d.rec]
        /\ told' = [told EXCEPT ![p.tx] = h]
        /\ quiet' = [quiet EXCEPT ![p.tx] = 0]
    BY <1>1, <1>3, <1>t DEF ResumePoll, TypeOK
  <2>2. r \in Records /\ w \in Notices /\ Agree(r, w) /\ ~w.stopped
    BY <1>1, <1>3, <1>t, IsRecord DEF Present, IInv, Coherent, TypeOK
  <2>3. Sound(r, w, d)
    BY <1>1, <2>2, PolledMinedSound, PolledPendingSound
  <2> HIDE DEF d
  <2>4. /\ d.rec \in Records /\ h \in Notices /\ Agree(d.rec, h) /\ ~h.stopped
        /\ r.terminal # Never => d.rec.terminal = r.terminal
    BY <2>2, <2>3 DEF Sound
  <2> HIDE DEF h
  <2>5. /\ rec' \in [Tracked -> Opt(Records)] /\ told' \in [Tracked -> Notices]
        /\ quiet' \in [Tracked -> Nat]
    BY <1>1, <1>t, <2>1, <2>4 DEF TypeOK, Opt
  <2>6. TypeOK'
    BY <1>0, <1>t, <2>5 DEF TypeOK, node
  <2>7. ASSUME NEW u \in Tracked
        PROVE  \/ u = p.tx /\ rec'[u] = d.rec /\ told'[u] = h
               \/ u # p.tx /\ rec'[u] = rec[u] /\ told'[u] = told[u]
    BY <1>t, <2>1 DEF TypeOK
  <2>8. Coherent'
    <3> SUFFICES ASSUME NEW u \in Tracked, rec'[u] # None
                 PROVE  Agree(rec'[u], told'[u]) /\ ~told'[u].stopped
      BY DEF Coherent
    <3>1. CASE u = p.tx
      <4>1. rec'[u] = d.rec /\ told'[u] = h
        BY <2>7, <3>1
      <4> QED  BY <2>4, <4>1
    <3>2. CASE u # p.tx
      <4>1. rec'[u] = rec[u] /\ told'[u] = told[u]
        BY <2>7, <3>2
      <4> QED  BY <4>1 DEF IInv, Coherent
    <3> QED  BY <3>1, <3>2
  <2>9. Anchored
    BY <2>4, <2>7 DEF Anchored
  <2>10. Final
    BY <2>2, <2>7 DEF Final
  <2> QED  BY <2>6, <2>8, <2>9, <2>10 DEF IInv
<1> QED  BY <1>2, <1>3

LEMMA NextStep == IInv /\ [Next]_vars => IInv' /\ Anchored /\ Final
<1> SUFFICES ASSUME IInv, [Next]_vars PROVE IInv' /\ Anchored /\ Final
  OBVIOUS
<1>1. CASE AdoptHead \/ SourceRestarts \/ CapsChange
  BY <1>1, NodeStep
<1>2. CASE \E t \in Tracked, n \in Thresholds : Subscribe(t, n)
  BY <1>2, SubscribeStep
<1>3. CASE \E t \in Tracked : Release(t)
  BY <1>3, ReleaseStep
<1>4. CASE \E b \in past : OnBlock(b)
  BY <1>4, OnBlockStep
<1>5. CASE \E task \in waiting : ResumeBlock(task)
  BY <1>5, ResumeBlockStep
<1>6. CASE \E s \in Pools : OnMempool(s)
  BY <1>6, OnMempoolStep
<1>7. CASE \E p \in polls : AnswerPoll(p) \/ PollFails(p) \/ ResumePoll(p)
  BY <1>7, AnswerStep, ResumePollStep
<1>8. CASE UNCHANGED vars
  <2>1. TypeOK'
    BY <1>8 DEF vars, node, tracker, IInv, TypeOK
  <2> QED  BY <1>8, <2>1, SilentStep DEF vars, tracker, IInv
<1> QED  BY <1>1, <1>2, <1>3, <1>4, <1>5, <1>6, <1>7, <1>8 DEF Next

LEMMA AlwaysIInv == Spec => []IInv
BY InitIInv, NextStep, PTL DEF Spec

-----------------------------------------------------------------------------
\* The variables keep their types: no handler leaves a half-made record.
THEOREM TypeCorrect == Spec => []TypeOK
<1>1. IInv => TypeOK
  BY DEF IInv
<1> QED  BY <1>1, AlwaysIInv, PTL

\* Whatever blocks, snapshots and poll answers come and in whatever order, who
\* folds a record's events knows what getTxStatus answers.
THEOREM ViewsAlwaysAgree == Spec => []ViewsAgree
<1>1. IInv => ViewsAgree
  BY DEF IInv, Coherent, Agree, ViewsAgree, Live
<1> QED  BY <1>1, AlwaysIInv, PTL

\* Retention applies to a record exactly when its subscriber has been told of a
\* terminal state.
THEOREM TerminalAlwaysTold == Spec => []TerminalTold
<1>1. IInv => TerminalTold
  BY DEF IInv, Coherent, Agree, TerminalTold, Live
<1> QED  BY <1>1, AlwaysIInv, PTL

\* confirmed-terminal is told at most once in a record's life.
THEOREM ConfirmedAtMostOnce == Spec => []ConfirmedOnce
<1>1. IInv => ConfirmedOnce
  BY DEF IInv, Coherent, Agree, ConfirmedOnce, Live
<1> QED  BY <1>1, AlwaysIInv, PTL

\* The block a record's retention counts from never changes.
THEOREM TerminalStaysAnchored == Spec => TerminalAnchored
<1>1. IInv /\ [Next]_vars =>
        [\A t \in Live :
           rec'[t] # None /\ rec'[t].id = rec[t].id /\ rec[t].terminal # Never
             => rec'[t].terminal = rec[t].terminal]_vars
  BY NextStep DEF Anchored, Live
<1> QED  BY <1>1, AlwaysIInv, PTL DEF Spec, TerminalAnchored

\* No answer, snapshot or block reaches a subscriber after `stopped`.
THEOREM NothingAfterStopped == Spec => StoppedIsFinal
<1>1. IInv /\ [Next]_vars =>
        [\A t \in Tracked :
           told[t].stopped /\ told'[t] # told[t] => records'[t] > records[t]]_vars
  BY NextStep DEF Final
<1> QED  BY <1>1, AlwaysIInv, PTL DEF Spec, StoppedIsFinal

-----------------------------------------------------------------------------
\* The ring.

\* A finite set of blocks of different numbers, with a highest one.
Ranked(S) ==
  /\ S \subseteq Chains /\ IsFiniteSet(S)
  /\ \A x, y \in S : Number(x) = Number(y) => x = y
  /\ S # {} => \E m \in S : \A x \in S : Number(x) <= Number(m)

LEMMA AddRanked ==
  ASSUME NEW S, Ranked(S), NEW b \in Chains
  PROVE  Ranked({x \in S : Number(x) # Number(b)} \cup {b})
<1> DEFINE K == {x \in S : Number(x) # Number(b)}
<1>1. S \subseteq Chains /\ IsFiniteSet(S) /\ K \subseteq S
      /\ \A x, y \in S : Number(x) = Number(y) => x = y
  BY DEF Ranked
<1>2. \A x \in S \cup {b} : Number(x) \in Nat
  BY <1>1, NumberNat
<1>3. IsFiniteSet(K \cup {b})
  <2>1. K \in SUBSET S
    BY <1>1
  <2> HIDE DEF K
  <2>2. IsFiniteSet(K)
    BY <1>1, <2>1, FS_Subset
  <2> QED
    BY <2>2, FS_AddElement
<1>4. \A x, y \in K \cup {b} : Number(x) = Number(y) => x = y
  BY <1>1
<1>5. \E m \in K \cup {b} : \A x \in K \cup {b} : Number(x) <= Number(m)
  <2>1. CASE S = {}
    BY <1>2, <2>1
  <2>2. CASE S # {}
    <3>1. PICK m \in S : \A x \in S : Number(x) <= Number(m)
      BY <2>2 DEF Ranked
    <3>2. CASE Number(m) <= Number(b)
      <4>1. \A x \in K \cup {b} : Number(x) <= Number(b)
        BY <1>2, <3>1, <3>2
      <4> QED
        BY <4>1
    <3>3. CASE Number(b) < Number(m)
      <4>1. m \in K
        BY <1>2, <3>1, <3>3
      <4>2. \A x \in K \cup {b} : Number(x) <= Number(m)
        BY <1>2, <3>1, <3>3
      <4> QED
        BY <4>1, <4>2
    <3> QED
      BY <1>2, <3>1, <3>2, <3>3
  <2> QED
    BY <2>1, <2>2
<1> QED
  BY <1>1, <1>3, <1>4, <1>5 DEF Ranked

\* What is above a block of the set.
Above(S, x) == {y \in S : Number(y) > Number(x)}

LEMMA AboveFinite ==
  ASSUME NEW S, Ranked(S), NEW x \in S
  PROVE  IsFiniteSet(Above(S, x)) /\ Cardinality(Above(S, x)) \in Nat
<1>1. Above(S, x) \in SUBSET S /\ IsFiniteSet(S)
  BY DEF Above, Ranked
<1> QED
  BY <1>1, FS_Subset, FS_CardinalityType

LEMMA HighestRanked ==
  ASSUME NEW S, Ranked(S), S # {}, NEW cap \in Nat \ {0}
  PROVE  LET H == Highest(S, cap) IN
         /\ Ranked(H) /\ H \subseteq S
         /\ \A x \in S : \E y \in H : Number(x) <= Number(y)
<1> DEFINE H == Highest(S, cap)
<1>1. H \subseteq S
  BY DEF Highest
<1>2. PICK m \in S : \A x \in S : Number(x) <= Number(m)
  BY DEF Ranked
<1>3. \A x \in S : Number(x) \in Nat
  BY NumberNat DEF Ranked
<1>4. m \in H
  <2>1. {y \in S : Number(y) > Number(m)} = {}
    BY <1>2, <1>3
  <2>2. Cardinality({y \in S : Number(y) > Number(m)}) < cap
    BY <2>1, FS_EmptySet
  <2> QED
    BY <2>2 DEF Highest
<1> HIDE DEF H
<1>5. IsFiniteSet(H)
  <2>1. IsFiniteSet(S) /\ H \in SUBSET S
    BY <1>1 DEF Ranked
  <2> QED
    BY <2>1, FS_Subset
<1>6. Ranked(H)
  BY <1>1, <1>2, <1>4, <1>5 DEF Ranked
<1> QED
  BY <1>1, <1>2, <1>4, <1>6 DEF H

\* At most cap blocks are kept: all but the lowest lie above it.
LEMMA HighestFew ==
  ASSUME NEW S, Ranked(S), NEW cap \in Nat \ {0}
  PROVE  Cardinality(Highest(S, cap)) <= cap
<1> DEFINE H == Highest(S, cap)
           Heights == {Number(x) : x \in H}
<1>1. H \subseteq S /\ S \subseteq Chains /\ IsFiniteSet(S)
      /\ \A x, y \in S : Number(x) = Number(y) => x = y
  BY DEF Highest, Ranked
<1>2. CASE H = {}
  BY <1>2, FS_EmptySet
<1>3. CASE H # {}
  <2>1. Heights \in SUBSET Nat /\ Heights # {}
    BY <1>1, <1>3, NumberNat
  <2>2. PICK n \in Heights : \A i \in Heights : n <= i
    BY <2>1, HasLeast
  <2>3. PICK l \in H : Number(l) = n
    BY <2>2
  <2>4. \A x \in H \ {l} : Number(x) > Number(l)
    <3>1. \A x \in H : Number(x) \in Nat /\ Number(x) \in Heights
      BY <1>1, NumberNat
    <3>2. \A x \in H : Number(l) <= Number(x)
      BY <2>2, <2>3, <3>1
    <3> HIDE DEF H, Heights
    <3> QED
      BY <1>1, <2>3, <3>1, <3>2
  <2>5. H \ {l} \in SUBSET Above(S, l)
    BY <1>1, <2>4 DEF Above
  <2>6. l \in S /\ Cardinality(Above(S, l)) < cap
    BY <2>3 DEF Highest, Above
  <2> HIDE DEF H, Heights
  <2>7. IsFiniteSet(H) /\ Cardinality(H) \in Nat
    <3>1. H \in SUBSET S
      BY <1>1
    <3> QED
      BY <1>1, <3>1, FS_Subset, FS_CardinalityType
  <2>8. Cardinality(H \ {l}) = Cardinality(H) - 1
    BY <2>3, <2>7, FS_RemoveElement
  <2>9. IsFiniteSet(Above(S, l)) /\ Cardinality(Above(S, l)) \in Nat
    BY <2>6, AboveFinite
  <2>10. Cardinality(H \ {l}) <= Cardinality(Above(S, l))
    BY <2>5, <2>9, FS_Subset
  <2>11. Cardinality(H) <= cap
    BY <2>6, <2>7, <2>8, <2>9, <2>10
  <2> QED
    BY <2>11 DEF H
<1> QED
  BY <1>2, <1>3

\* What is not kept lies deep below what is: between two numbers there are no
\* more blocks than numbers.
LEMMA CutIsDeep ==
  ASSUME NEW S, Ranked(S), NEW depth \in Nat \ {0},
         NEW x \in S, x \notin Highest(S, 2 * depth)
  PROVE  \E y \in Highest(S, 2 * depth) : Number(x) + depth <= Number(y)
<1> DEFINE H == Highest(S, 2 * depth)
           D == (Number(x) + 1)..(Number(x) + depth - 1)
           f == [y \in Above(S, x) |-> Number(y)]
<1>1. \A y \in S : Number(y) \in Nat
  BY NumberNat DEF Ranked
<1>2. Number(x) \in Nat /\ 2 * depth \in Nat \ {0}
  BY <1>1
<1>3. ~(Cardinality(Above(S, x)) < 2 * depth)
  BY DEF Highest, Above
<1> SUFFICES ASSUME \A y \in H : ~(Number(x) + depth <= Number(y)) PROVE FALSE
  OBVIOUS
<1>4. H \subseteq S /\ \A y \in S : \E z \in H : Number(y) <= Number(z)
  BY <1>2, HighestRanked
<1>5. \A y \in S : Number(y) < Number(x) + depth
  <2> HIDE DEF H
  <2> QED
    BY <1>1, <1>2, <1>4
<1>6. f \in Injection(Above(S, x), D)
  <2>1. f \in [Above(S, x) -> D]
    BY <1>1, <1>2, <1>5 DEF Above
  <2>2. \A y, z \in Above(S, x) : f[y] = f[z] => y = z
    BY DEF Above, Ranked
  <2> QED
    BY <2>1, <2>2 DEF Injection, IsInjective
<1>7. IsFiniteSet(D) /\ Cardinality(D) = depth - 1
  <2>1. Number(x) + 1 \in Int /\ Number(x) + depth - 1 \in Int
    BY <1>2
  <2>2. /\ IsFiniteSet(D)
        /\ Cardinality(D) = IF Number(x) + 1 > Number(x) + depth - 1 THEN 0
                            ELSE (Number(x) + depth - 1) - (Number(x) + 1) + 1
    BY <2>1, FS_Interval
  <2> QED
    BY <1>2, <2>2
<1> HIDE DEF f, D
<1>8. Cardinality(Above(S, x)) <= depth - 1
  BY <1>6, <1>7, FS_Injection
<1>9. Cardinality(Above(S, x)) \in Nat
  BY AboveFinite
<1> QED
  BY <1>3, <1>8, <1>9

\* appendBlock: the ring stays sorted and bounded, and a block it does not keep
\* is deeper than the reorg depth below one it keeps.
LEMMA AppendKeeps ==
  ASSUME NEW S, Ranked(S), NEW b \in Chains
  PROVE  LET N == AppendBlock(S, b, 2 * ReorgDepth) IN
         /\ Ranked(N) /\ Cardinality(N) <= 2 * ReorgDepth
         /\ \A x \in N : x = b \/ (x \in S /\ Number(x) # Number(b))
         /\ \A x \in S \cup {b} : \E y \in N : Number(x) <= Number(y)
         /\ \A x \in S \cup {b} :
              (x = b \/ Number(x) # Number(b)) =>
                x \in N \/ \E y \in N : Number(x) + ReorgDepth <= Number(y)
<1> DEFINE B == {x \in S : Number(x) # Number(b)} \cup {b}
           N == Highest(B, 2 * ReorgDepth)
<1>1. ReorgDepth \in Nat \ {0} /\ 2 * ReorgDepth \in Nat \ {0}
  BY ConstantsAssumption DEF ConstantsAssumption
<1>2. Ranked(B) /\ B # {} /\ b \in B
  BY AddRanked
<1>3. \A x \in B : x = b \/ (x \in S /\ Number(x) # Number(b))
  OBVIOUS
<1>4. \A x \in S : x \in B \/ Number(x) = Number(b)
  OBVIOUS
<1>5. AppendBlock(S, b, 2 * ReorgDepth) = N
  BY DEF AppendBlock
<1>6. \A x \in S \cup {b} : Number(x) \in Nat
  BY NumberNat DEF Ranked
<1> HIDE DEF B
<1>7. /\ Ranked(N) /\ N \subseteq B
      /\ \A x \in B : \E y \in N : Number(x) <= Number(y)
  BY <1>1, <1>2, HighestRanked
<1>8. Cardinality(N) <= 2 * ReorgDepth
  BY <1>1, <1>2, HighestFew
<1>9. \A x \in B : x \in N \/ \E y \in N : Number(x) + ReorgDepth <= Number(y)
  BY <1>1, <1>2, CutIsDeep
<1> HIDE DEF N
<1>10. \A x \in S \cup {b} : \E y \in N : Number(x) <= Number(y)
  <2> SUFFICES ASSUME NEW x \in S \cup {b} PROVE \E y \in N : Number(x) <= Number(y)
    OBVIOUS
  <2>1. PICK y \in N : Number(b) <= Number(y)
    BY <1>2, <1>7
  <2> QED
    BY <1>2, <1>4, <1>7, <2>1
<1>11. \A x \in S \cup {b} :
         (x = b \/ Number(x) # Number(b)) =>
           x \in N \/ \E y \in N : Number(x) + ReorgDepth <= Number(y)
  BY <1>2, <1>4, <1>9
<1> QED
  BY <1>3, <1>5, <1>7, <1>8, <1>10, <1>11

\* A block is the ring's one of its number, or lies below the reorg depth.
Anchor(a, S) ==
  \/ {x \in S : Number(x) = Number(a)} = {a}
  \/ \E x \in S : Number(a) + ReorgDepth <= Number(x)

LEMMA NewestAnchors ==
  ASSUME NEW S, Ranked(S), NEW b \in Chains
  PROVE  Anchor(b, AppendBlock(S, b, 2 * ReorgDepth))
<1> DEFINE N == AppendBlock(S, b, 2 * ReorgDepth)
<1>1. /\ \A x \in N : x = b \/ (x \in S /\ Number(x) # Number(b))
      /\ b \in N \/ \E y \in N : Number(b) + ReorgDepth <= Number(y)
  BY AppendKeeps
<1> HIDE DEF N
<1>2. Anchor(b, N)
  BY <1>1 DEF Anchor
<1> QED
  BY <1>2 DEF N

\* The tip that detectDivergences counts from.
LEMMA TipOf ==
  ASSUME NEW S, Ranked(S), NEW b \in Chains
  PROVE  /\ TipNumber(S \cup {b}) \in Nat
         /\ \A x \in S \cup {b} : Number(x) <= TipNumber(S \cup {b})
         /\ \E x \in S \cup {b} : Number(x) = TipNumber(S \cup {b})
<1>1. \A x \in S \cup {b} : Number(x) \in Nat
  BY NumberNat DEF Ranked
<1>2. \E m \in S \cup {b} : \A x \in S \cup {b} : Number(x) <= Number(m)
  <2>1. CASE S = {}
    BY <1>1, <2>1
  <2>2. CASE S # {}
    <3>1. PICK m \in S : \A x \in S : Number(x) <= Number(m)
      BY <2>2 DEF Ranked
    <3>2. CASE Number(m) <= Number(b)
      <4>1. \A x \in S \cup {b} : Number(x) <= Number(b)
        BY <1>1, <3>1, <3>2
      <4> QED
        BY <4>1
    <3>3. CASE ~(Number(m) <= Number(b))
      <4>1. \A x \in S \cup {b} : Number(x) <= Number(m)
        BY <1>1, <3>1, <3>3
      <4> QED
        BY <4>1
    <3> QED
      BY <3>2, <3>3
  <2> QED
    BY <2>1, <2>2
<1>3. \E n \in {Number(x) : x \in S \cup {b}} : \A y \in S \cup {b} : Number(y) <= n
  BY <1>2
<1>4. /\ TipNumber(S \cup {b}) \in {Number(x) : x \in S \cup {b}}
      /\ \A y \in S \cup {b} : Number(y) <= TipNumber(S \cup {b})
  BY <1>3 DEF TipNumber
<1> QED
  BY <1>1, <1>4

\* handleReorgs, seen from a record anchored in the ring: it loses the block it
\* was told of and no other, or stays anchored.
LEMMA ReorgedAnchors ==
  ASSUME Ranked(ring), NEW b \in Chains, NEW r \in Records,
         r.at # None => Anchor(r.at, ring)
  PROVE  LET d == Reorged(r, b)
             N == AppendBlock(ring, b, 2 * ReorgDepth)
         IN \/ /\ d = NoChange(r)
               /\ r.at # None => Anchor(r.at, N)
            \/ /\ r.at # None /\ r.at \in Chains
               /\ d = Decision(SetBlock(SetLast(r, Number(b)), None, 0),
                               {Vanished(r.at, b)})
<1> DEFINE N == AppendBlock(ring, b, 2 * ReorgDepth)
           gone == {x \in DetectDivergences(ring, {b}, ReorgDepth) :
                      r.at # None /\ Number(x) = Number(r.at)}
           top == TipNumber(ring \cup {b})
<1>0. r.at \in Opt(Chains) /\ ReorgDepth \in Nat \ {0}
  BY ConstantsAssumption DEF Records, ConstantsAssumption
<1>1. /\ top \in Nat
      /\ \A x \in ring \cup {b} : Number(x) <= top
      /\ \E x \in ring \cup {b} : Number(x) = top
  BY TipOf
<1>2. \A x \in ring \cup {b} : Number(x) \in Nat
  BY NumberNat DEF Ranked
<1>3. /\ \A x \in N : x = b \/ (x \in ring /\ Number(x) # Number(b))
      /\ \A x \in ring \cup {b} : \E y \in N : Number(x) <= Number(y)
      /\ \A x \in ring \cup {b} :
           (x = b \/ Number(x) # Number(b)) =>
             x \in N \/ \E y \in N : Number(x) + ReorgDepth <= Number(y)
      /\ Ranked(N)
  BY AppendKeeps
<1>n. \A y \in N : Number(y) \in Nat
  BY <1>3, NumberNat DEF Ranked
<1>4. gone = {x \in ring : /\ Number(x) + ReorgDepth > top
                           /\ Number(b) = Number(x) /\ b # x
                           /\ r.at # None /\ Number(x) = Number(r.at)}
  BY DEF DetectDivergences
<1> HIDE DEF N, top
<1>5. CASE r.at = None
  <2>1. gone = {}
    BY <1>5
  <2> QED
    BY <1>5, <2>1 DEF Reorged
<1>6. CASE r.at # None
  <2> DEFINE a == r.at
  <2>0. a \in Chains /\ Number(a) \in Nat /\ Anchor(a, ring)
    BY <1>0, <1>6, NumberNat DEF Opt
  <2>1. CASE gone # {}
    <3>1. gone = {a}
      <4>1. PICK x \in ring : Number(x) + ReorgDepth > top /\ Number(x) = Number(a)
        BY <1>4, <2>1
      <4>2. ~\E y \in ring : Number(a) + ReorgDepth <= Number(y)
        BY <1>0, <1>1, <1>2, <2>0, <4>1
      <4>3. {y \in ring : Number(y) = Number(a)} = {a}
        BY <2>0, <4>2 DEF Anchor
      <4>4. gone \subseteq {a}
        BY <1>4, <4>3
      <4> HIDE DEF gone
      <4> QED
        BY <2>1, <4>4
    <3>2. (CHOOSE d \in gone : TRUE) = a
      <4> HIDE DEF gone
      <4> QED
        BY <3>1
    <3>3. Reorged(r, b) = Decision(SetBlock(SetLast(r, Number(b)), None, 0),
                                   {Vanished(a, b)})
      BY <2>1, <3>2 DEF Reorged
    <3> QED
      BY <1>6, <2>0, <3>3
  <2>2. CASE gone = {}
    <3>1. Reorged(r, b) = NoChange(r)
      BY <2>2 DEF Reorged
    <3>2. Anchor(a, N)
      <4>1. CASE \E x \in ring : Number(a) + ReorgDepth <= Number(x)
        <5>1. PICK x \in ring : Number(a) + ReorgDepth <= Number(x)
          BY <4>1
        <5>2. PICK y \in N : Number(x) <= Number(y)
          BY <1>3, <5>1
        <5>3. Number(a) + ReorgDepth <= Number(y)
          BY <1>0, <1>2, <1>n, <2>0, <5>1, <5>2
        <5> QED
          BY <5>2, <5>3 DEF Anchor
      <4>2. CASE {x \in ring : Number(x) = Number(a)} = {a}
        <5>0. a \in ring
          BY <4>2
        <5>1. CASE Number(a) = Number(b) /\ a # b
          <6>1. ~(Number(a) + ReorgDepth > top)
            BY <1>4, <1>6, <2>2, <5>0, <5>1
          <6>2. PICK x \in ring \cup {b} : Number(x) = top
            BY <1>1
          <6>3. PICK y \in N : Number(x) <= Number(y)
            BY <1>3, <6>2
          <6>4. Number(a) + ReorgDepth <= Number(y)
            BY <1>0, <1>1, <1>2, <1>n, <2>0, <6>1, <6>2, <6>3
          <6> QED
            BY <6>3, <6>4 DEF Anchor
        <5>2. CASE a = b \/ Number(a) # Number(b)
          <6>1. a \in N \/ \E y \in N : Number(a) + ReorgDepth <= Number(y)
            BY <1>3, <5>0, <5>2
          <6>2. \A x \in N : Number(x) = Number(a) => x = a
            BY <1>3, <4>2, <5>2
          <6> QED
            BY <6>1, <6>2 DEF Anchor
        <5> QED
          BY <5>1, <5>2
      <4> QED
        BY <2>0, <4>1, <4>2 DEF Anchor
    <3> QED
      BY <3>1, <3>2 DEF N
  <2> QED
    BY <2>1, <2>2
<1> QED
  BY <1>5, <1>6 DEF N

-----------------------------------------------------------------------------
\* What the decisions make of a record's counts and of the two events about them.

Steady(r, s) ==
  s \in Records /\ s.streak = r.streak /\ s.threshold = r.threshold

LEMMA SightCounts ==
  ASSUME NEW r \in Records, NEW n \in Int
  PROVE  LET s == Sight(r, n) IN
         s \in Records /\ s.streak = 0 /\ s.threshold = r.threshold /\ s.last = n
                       /\ s.at = r.at
<1>1. Or(r.first, n) \in Int
  BY OrInt DEF Records
<1> QED
  BY <1>1 DEF Sight, Records

LEMMA SetLastCounts ==
  ASSUME NEW r \in Records, NEW n \in Int
  PROVE  LET s == SetLast(r, n) IN Steady(r, s) /\ s.last = n /\ s.at = r.at
BY DEF SetLast, Records, Steady

LEMMA SetStreakCounts ==
  ASSUME NEW r \in Records, NEW n \in Nat
  PROVE  LET s == SetStreak(r, n) IN
         s \in Records /\ s.streak = n /\ s.threshold = r.threshold
                       /\ s.last = r.last /\ s.at = r.at
BY DEF SetStreak, Records

LEMMA SetBlockCounts ==
  ASSUME NEW r \in Records, NEW b \in Opt(Chains), NEW n \in Nat
  PROVE  LET s == SetBlock(r, b, n) IN Steady(r, s) /\ s.last = r.last /\ s.at = b
BY DEF SetBlock, Records, Steady

LEMMA SetReplacedCounts ==
  ASSUME NEW r \in Records, NEW u \in Opt(Txs)
  PROVE  LET s == SetReplaced(r, u) IN Steady(r, s) /\ s.last = r.last /\ s.at = r.at
BY DEF SetReplaced, Records, Steady

LEMMA SetPoolCounts ==
  ASSUME NEW r \in Records, NEW bkt \in Opt(Buckets), NEW in \in BOOLEAN
  PROVE  LET s == SetPool(r, bkt, in) IN Steady(r, s) /\ s.last = r.last /\ s.at = r.at
BY DEF SetPool, Records, Steady

LEMMA EndCounts ==
  ASSUME NEW r \in Records, NEW n \in Int
  PROVE  LET s == End(r, n) IN Steady(r, s) /\ s.last = r.last /\ s.at = r.at
<1>1. Or(r.terminal, n) \in Int
  BY OrInt DEF Records
<1> QED
  BY <1>1 DEF End, Records, Steady

LEMMA EndIfCounts ==
  ASSUME NEW r \in Records, NEW done, NEW n \in Int
  PROVE  LET s == EndIf(done, r, n) IN Steady(r, s) /\ s.last = r.last /\ s.at = r.at
BY EndCounts DEF EndIf, Steady

LEMMA TickedCounts ==
  ASSUME NEW r \in Records
  PROVE  LET s == Ticked(r) IN Steady(r, s) /\ s.last = r.last /\ s.at = r.at
<1> DEFINE T == [k \in PollKinds |->
                   IF Every[k] = 0 \/ Due(r, k) THEN 0 ELSE r.ticks[k] + 1]
<1>1. T \in [PollKinds -> Nat]
  BY DEF Records
<1>2. Ticked(r) = [r EXCEPT !.ticks = T]
  BY DEF Ticked
<1> HIDE DEF T
<1> QED
  BY <1>1, <1>2 DEF Records, Steady

\* What a subscriber makes of events.
LEMMA HearCounts ==
  ASSUME NEW w \in Notices, NEW E
  PROVE  /\ Hear(w, E).unseen <=> w.unseen \/ Fired(E, "unseen-for-N-blocks")
         /\ ~Fired(E, "vanished-from-block") => Hear(w, E).vanished = w.vanished
BY DEF Hear, Notices

\* A block extends a streak by one, ends it, or leaves it; the event comes with
\* the step onto the threshold, of a transaction the block does not hold.
Counted(r, t, b, d) ==
  /\ d.rec \in Records /\ d.rec.threshold = r.threshold
  /\ d.rec.at \in {r.at, b}
  /\ d.rec.last \in {r.last, Number(b)}
  /\ ~Fired(d.events, "vanished-from-block")
  /\ \/ d.rec.streak \in {0, r.streak} /\ ~Fired(d.events, "unseen-for-N-blocks")
     \/ /\ d.rec.streak = r.streak + 1
        /\ t \notin Transactions(b)
        /\ Fired(d.events, "unseen-for-N-blocks") <=> r.streak + 1 = r.threshold
  /\ t \in Transactions(b) /\ ~Stale(r, b) => d.rec.streak = 0

LEMMA IncludedCounts ==
  ASSUME NEW r \in Records, NEW b \in Chains, NEW t, t \in Transactions(b)
  PROVE  Counted(r, t, b, Included(r, b, Confirmations))
<1> DEFINE fresh == r.at # b
           conf  == IF fresh THEN 1 ELSE r.conf
           done  == ReachedConfirmed(r, conf, Confirmations)
           s1    == Sight(r, Number(b))
           s2    == SetBlock(s1, b, conf)
           s     == EndIf(done, s2, Number(b))
           E     == (IF fresh THEN {SeenInBlock(b, conf)} ELSE {})
                      \cup (IF done THEN {ConfirmedTerminal(conf)} ELSE {})
<1>0. /\ Number(b) \in Int /\ b \in Opt(Chains)
      /\ conf \in Nat /\ done \in BOOLEAN
  BY NumberNat DEF Records, ReachedConfirmed, Opt
<1>1. Included(r, b, Confirmations) = Decision(s, E)
  BY DEF Included
<1>2. \A e \in E : e.kind \in {"seen-in-block", "confirmed-terminal"}
  BY DEF SeenInBlock, ConfirmedTerminal
<1> HIDE DEF done, conf, E
<1>3. s1 \in Records /\ s1.streak = 0 /\ s1.threshold = r.threshold
      /\ s1.last = Number(b)
  BY <1>0, SightCounts
<1> HIDE DEF s1
<1>4. s2 \in Records /\ s2.streak = 0 /\ s2.threshold = r.threshold
      /\ s2.last = Number(b) /\ s2.at = b
  BY <1>0, <1>3, SetBlockCounts DEF Steady
<1> HIDE DEF s2
<1>5. s \in Records /\ s.streak = 0 /\ s.threshold = r.threshold
      /\ s.last = Number(b) /\ s.at = b
  BY <1>0, <1>4, EndIfCounts DEF Steady
<1> HIDE DEF s
<1>6. ~Fired(E, "vanished-from-block") /\ ~Fired(E, "unseen-for-N-blocks")
  BY <1>2 DEF Fired
<1>7. Decision(s, E).rec = s /\ Decision(s, E).events = E
  BY DEF Decision
<1> QED
  BY <1>1, <1>5, <1>6, <1>7 DEF Counted

LEMMA BumpedCounts ==
  ASSUME NEW r \in Records, NEW b \in Chains, NEW t, t \notin Transactions(b)
  PROVE  Counted(r, t, b, Bumped(r, b, Confirmations))
<1> DEFINE conf == r.conf + 1
           done == ReachedConfirmed(r, conf, Confirmations)
           s1   == SetLast(r, Number(b))
           s2   == SetBlock(s1, r.at, conf)
           s    == EndIf(done, s2, Number(b))
           E    == {SeenInBlock(r.at, conf)}
                     \cup (IF done THEN {ConfirmedTerminal(conf)} ELSE {})
<1>0. /\ Number(b) \in Int /\ r.at \in Opt(Chains)
      /\ conf \in Nat /\ done \in BOOLEAN
  BY NumberNat DEF Records, ReachedConfirmed
<1>1. Bumped(r, b, Confirmations) = Decision(s, E)
  BY DEF Bumped
<1>2. \A e \in E : e.kind \in {"seen-in-block", "confirmed-terminal"}
  BY DEF SeenInBlock, ConfirmedTerminal
<1> HIDE DEF done, conf, E
<1>3. s1 \in Records /\ s1.streak = r.streak /\ s1.threshold = r.threshold
      /\ s1.last = Number(b)
  BY <1>0, SetLastCounts DEF Steady
<1> HIDE DEF s1
<1>4. s2 \in Records /\ s2.streak = r.streak /\ s2.threshold = r.threshold
      /\ s2.last = Number(b) /\ s2.at = r.at
  BY <1>0, <1>3, SetBlockCounts DEF Steady
<1> HIDE DEF s2
<1>5. s \in Records /\ s.streak = r.streak /\ s.threshold = r.threshold
      /\ s.last = Number(b) /\ s.at = r.at
  BY <1>0, <1>4, EndIfCounts DEF Steady
<1> HIDE DEF s
<1>6. ~Fired(E, "vanished-from-block") /\ ~Fired(E, "unseen-for-N-blocks")
  BY <1>2 DEF Fired
<1>7. Decision(s, E).rec = s /\ Decision(s, E).events = E
  BY DEF Decision
<1> QED
  BY <1>1, <1>5, <1>6, <1>7 DEF Counted

LEMMA ReplacedInBlockCounts ==
  ASSUME NEW r \in Records, NEW b \in Chains, NEW t, t \notin Transactions(b),
         NEW u \in Opt(Txs)
  PROVE  Counted(r, t, b, ReplacedInBlock(r, u, b))
<1> DEFINE s1 == SetLast(r, Number(b))
           s2 == SetReplaced(s1, u)
           s  == End(s2, Number(b))
           E  == IF r.replaced # u THEN {ReplacedBy(u)} ELSE {}
<1>0. Number(b) \in Int
  BY NumberNat
<1>1. ReplacedInBlock(r, u, b) = Decision(s, E)
  BY DEF ReplacedInBlock
<1>2. \A e \in E : e.kind = "replaced-by"
  BY DEF ReplacedBy
<1> HIDE DEF E
<1>3. s1 \in Records /\ s1.streak = r.streak /\ s1.threshold = r.threshold
      /\ s1.last = Number(b) /\ s1.at = r.at
  BY <1>0, SetLastCounts DEF Steady
<1> HIDE DEF s1
<1>4. s2 \in Records /\ s2.streak = r.streak /\ s2.threshold = r.threshold
      /\ s2.last = Number(b) /\ s2.at = r.at
  BY <1>0, <1>3, SetReplacedCounts DEF Steady
<1> HIDE DEF s2
<1>5. s \in Records /\ s.streak = r.streak /\ s.threshold = r.threshold
      /\ s.last = Number(b) /\ s.at = r.at
  BY <1>0, <1>4, EndCounts DEF Steady
<1> HIDE DEF s
<1>6. ~Fired(E, "vanished-from-block") /\ ~Fired(E, "unseen-for-N-blocks")
  BY <1>2 DEF Fired
<1>7. Decision(s, E).rec = s /\ Decision(s, E).events = E
  BY DEF Decision
<1> QED
  BY <1>1, <1>5, <1>6, <1>7 DEF Counted

LEMMA UnseenCounts ==
  ASSUME NEW r \in Records, NEW b \in Chains, NEW t, t \notin Transactions(b)
  PROVE  Counted(r, t, b, Unseen(r, b))
<1> DEFINE reached == r.streak + 1 = r.threshold
           s1 == SetStreak(r, r.streak + 1)
           s  == EndIf(reached, s1, Number(b))
           E  == IF reached THEN {UnseenForN(r.streak + 1)} ELSE {}
<1>0. /\ Number(b) \in Int /\ reached \in BOOLEAN
      /\ r.streak \in Nat /\ r.streak + 1 \in Nat
  BY NumberNat DEF Records
<1>1. Unseen(r, b) = Decision(s, E)
  BY DEF Unseen
<1>2. /\ ~Fired(E, "vanished-from-block")
      /\ Fired(E, "unseen-for-N-blocks") <=> reached
  <2> HIDE DEF reached
  <2>1. CASE reached
    <3>1. E = {UnseenForN(r.streak + 1)}
      BY <2>1
    <3>2. UnseenForN(r.streak + 1).kind = "unseen-for-N-blocks"
      BY DEF UnseenForN
    <3>3. Fired(E, "unseen-for-N-blocks") /\ ~Fired(E, "vanished-from-block")
      BY <3>1, <3>2 DEF Fired
    <3> QED
      BY <2>1, <3>3
  <2>2. CASE ~reached
    BY <2>2 DEF Fired
  <2> QED
    BY <2>1, <2>2
<1> HIDE DEF E
<1>3. s1 \in Records /\ s1.streak = r.streak + 1 /\ s1.threshold = r.threshold
      /\ s1.last = r.last /\ s1.at = r.at
  BY <1>0, SetStreakCounts
<1> HIDE DEF s1, reached
<1>4. s \in Records /\ s.streak = r.streak + 1 /\ s.threshold = r.threshold
      /\ s.last = r.last /\ s.at = r.at
  BY <1>0, <1>3, EndIfCounts DEF Steady
<1> HIDE DEF s
<1>5. Decision(s, E).rec = s /\ Decision(s, E).events = E
  BY DEF Decision
<1> QED
  BY <1>1, <1>2, <1>4, <1>5 DEF Counted, reached

LEMMA NoChangeCounts ==
  ASSUME NEW r \in Records, NEW b, NEW t, t \notin Transactions(b) \/ Stale(r, b)
  PROVE  Counted(r, t, b, NoChange(r))
BY DEF NoChange, Decision, Fired, Counted

LEMMA ObserveCounts ==
  ASSUME NEW r \in Records, NEW b \in Chains, NEW t, NEW hadTip
  PROVE  Counted(r, t, b, ObserveBlock(r, t, b, hadTip))
<1> DEFINE rivals == Rivals(t) \cap Transactions(b)
           u == CHOOSE v \in rivals : TRUE
<1>1. CASE Stale(r, b)
  BY <1>1, NoChangeCounts DEF ObserveBlock
<1>2. CASE ~Stale(r, b) /\ t \in Transactions(b)
  BY <1>2, IncludedCounts DEF ObserveBlock, DecideBlock
<1>3. CASE ~Stale(r, b) /\ t \notin Transactions(b)
  <2>1. rivals # {} => Counted(r, t, b, ReplacedInBlock(r, u, b))
    <3>1. rivals # {} => u \in Opt(Txs)
      BY RivalsAreTxs
    <3> HIDE DEF u
    <3> QED
      BY <1>3, <3>1, ReplacedInBlockCounts
  <2> QED
    BY <1>3, <2>1, NoChangeCounts, BumpedCounts, UnseenCounts
    DEF ObserveBlock, DecideBlock
<1> QED
  BY <1>1, <1>2, <1>3

\* A snapshot ends a streak or leaves it, and tells neither of the two events.
Presented(r, bkt, n, d) ==
  /\ d.rec \in Records /\ d.rec.threshold = r.threshold /\ d.rec.at = r.at
  /\ d.rec.last \in {r.last, n}
  /\ d.rec.streak = IF bkt = None THEN r.streak ELSE 0
  /\ ~Fired(d.events, "vanished-from-block")
  /\ ~Fired(d.events, "unseen-for-N-blocks")

LEMMA PresenceCounts ==
  ASSUME NEW r \in Records, NEW bkt \in Opt(Buckets), NEW n \in Nat
  PROVE  Presented(r, bkt, n, Presence(r, bkt, n))
<1> DEFINE s1 == Sight(r, n)
           d  == Presence(r, bkt, n)
<1>0. n \in Int /\ r.bucket \in Opt(Buckets) /\ TRUE \in BOOLEAN /\ FALSE \in BOOLEAN
  BY DEF Records
<1>1. s1 \in Records /\ s1.streak = 0 /\ s1.threshold = r.threshold /\ s1.last = n
      /\ s1.at = r.at
  BY <1>0, SightCounts
<1>2. CASE bkt # None
  <2> DEFINE q == SetPool(s1, bkt, TRUE)
             E == IF ~r.inPool \/ r.bucket # bkt THEN {SeenInMempool(bkt)} ELSE {}
  <2>1. d = Decision(q, E)
    BY <1>2 DEF Presence, Entered
  <2>2. \A e \in E : e.kind = "seen-in-mempool"
    BY DEF SeenInMempool
  <2> HIDE DEF s1, E, d
  <2>3. q \in Records /\ q.streak = 0 /\ q.threshold = r.threshold
        /\ q.last = n /\ q.at = r.at
    BY <1>0, <1>1, SetPoolCounts DEF Steady
  <2> HIDE DEF q
  <2>4. d.rec = q /\ d.events = E
    BY <2>1 DEF Decision
  <2>5. ~Fired(E, "vanished-from-block") /\ ~Fired(E, "unseen-for-N-blocks")
    BY <2>2 DEF Fired
  <2>6. Presented(r, bkt, n, d)
    BY <1>2, <2>3, <2>4, <2>5 DEF Presented
  <2> QED
    BY <2>6 DEF d
<1>3. CASE bkt = None /\ r.inPool
  <2> DEFINE q == SetPool(r, r.bucket, FALSE)
             E == {LeftMempool}
  <2>1. d = Decision(q, E)
    BY <1>3 DEF Presence
  <2>2. \A e \in E : e.kind = "left-mempool"
    BY DEF LeftMempool
  <2> HIDE DEF E, d
  <2>3. q \in Records /\ q.streak = r.streak /\ q.threshold = r.threshold
        /\ q.last = r.last /\ q.at = r.at
    BY <1>0, SetPoolCounts DEF Steady
  <2> HIDE DEF q
  <2>4. d.rec = q /\ d.events = E
    BY <2>1 DEF Decision
  <2>5. ~Fired(E, "vanished-from-block") /\ ~Fired(E, "unseen-for-N-blocks")
    BY <2>2 DEF Fired
  <2>6. Presented(r, bkt, n, d)
    BY <1>3, <2>3, <2>4, <2>5 DEF Presented
  <2> QED
    BY <2>6 DEF d
<1>4. CASE bkt = None /\ ~r.inPool
  BY <1>4 DEF Presence, NoChange, Decision, Fired, Presented
<1> QED
  BY <1>2, <1>3, <1>4

LEMMA DecideMempoolCounts ==
  ASSUME NEW r \in Records, NEW t, NEW s, s[t] \in Opt(Buckets), NEW n \in Nat
  PROVE  Presented(r, s[t], n, DecideMempool(r, t, s, n))
<1> DEFINE rival == RivalIn(s, t)
           p     == Presence(r, s[t], n)
           x     == SetReplaced(p.rec, rival)
           y     == End(x, n)
           E     == p.events \cup {ReplacedBy(rival)}
<1>0. rival \in Opt(Txs) /\ n \in Int
  BY RivalInIsTx
<1>1. Presented(r, s[t], n, p)
  BY PresenceCounts
<1>2. DecideMempool(r, t, s, n) =
        IF r.known /\ r.replaced = None /\ rival # None THEN Decision(y, E) ELSE p
  BY DEF DecideMempool, Replacement
<1> HIDE DEF rival, p
<1>3. Presented(r, s[t], n, Decision(y, E))
  <2>1. x \in Records /\ x.streak = p.rec.streak /\ x.threshold = p.rec.threshold
        /\ x.last = p.rec.last /\ x.at = p.rec.at
    BY <1>0, <1>1, SetReplacedCounts DEF Presented, Steady
  <2> HIDE DEF x
  <2>2. y \in Records /\ y.streak = p.rec.streak /\ y.threshold = p.rec.threshold
        /\ y.last = p.rec.last /\ y.at = p.rec.at
    BY <1>0, <2>1, EndCounts DEF Steady
  <2>3. ~Fired(E, "vanished-from-block") /\ ~Fired(E, "unseen-for-N-blocks")
    BY <1>1 DEF Presented, Fired, ReplacedBy
  <2> HIDE DEF y, E
  <2>4. Decision(y, E).rec = y /\ Decision(y, E).events = E
    BY DEF Decision
  <2> QED
    BY <1>1, <2>2, <2>3, <2>4 DEF Presented
<1> HIDE DEF y, E
<1> QED
  BY <1>1, <1>2, <1>3

\* A poll leaves the streak as it is.
LEMMA SetFirstCounts ==
  ASSUME NEW r \in Records, NEW n \in Int
  PROVE  Steady(r, SetFirst(r, n))
<1>1. Or(r.first, n) \in Int
  BY OrInt DEF Records
<1> QED
  BY <1>1 DEF SetFirst, Records, Steady

LEMMA SetPolledCounts ==
  ASSUME NEW r \in Records, NEW said \in {"pending", "mined"}
  PROVE  Steady(r, SetPolled(r, said, TRUE))
BY DEF SetPolled, Records, Steady, Opt

LEMMA PolledMinedCounts ==
  ASSUME NEW r \in Records, NEW k, NEW b \in Chains, NEW n \in Nat
  PROVE  LET d == PolledMined(r, k, b, n)
         IN Steady(r, d.rec) /\ ~Fired(d.events, "unseen-for-N-blocks")
<1> DEFINE s1 == SetLast(r, n)
           s2 == SetBlock(s1, b, 1)
           s  == IF k = "status" THEN SetPolled(s2, "mined", TRUE) ELSE s2
           d  == PolledMined(r, k, b, n)
<1>1. Steady(r, s1)
  BY SetLastCounts
<1> HIDE DEF s1
<1>2. Steady(r, s2)
  BY <1>1, SetBlockCounts DEF Steady, Opt
<1> HIDE DEF s2
<1>3. Steady(r, s)
  BY <1>2, SetPolledCounts DEF Steady
<1> HIDE DEF s
<1>4. d = IF Higher(r, b) THEN Decision(s, {SeenInBlock(b, 1)}) ELSE NoChange(r)
  BY DEF PolledMined, s, s2, s1
<1>5. CASE Higher(r, b)
  <2>1. d.rec = s /\ d.events = {SeenInBlock(b, 1)}
    BY <1>4, <1>5 DEF Decision
  <2> HIDE DEF d
  <2>2. ~Fired(d.events, "unseen-for-N-blocks")
    BY <2>1 DEF Fired, SeenInBlock
  <2> QED
    BY <1>3, <2>1, <2>2 DEF d
<1>6. CASE ~Higher(r, b)
  BY <1>4, <1>6 DEF NoChange, Decision, Fired, Steady
<1> QED
  BY <1>5, <1>6

LEMMA PolledPendingCounts ==
  ASSUME NEW r \in Records, NEW n \in Nat
  PROVE  LET d == PolledPending(r, n)
         IN Steady(r, d.rec) /\ ~Fired(d.events, "unseen-for-N-blocks")
<1> DEFINE s1 == SetFirst(r, n)
           s2 == SetLast(s1, n)
           s3 == SetPolled(s2, "pending", TRUE)
           s  == SetPool(s3, "pending", r.inPool)
           d  == PolledPending(r, n)
<1>1. Steady(r, s1)
  BY SetFirstCounts
<1> HIDE DEF s1
<1>2. Steady(r, s2)
  BY <1>1, SetLastCounts DEF Steady
<1> HIDE DEF s2
<1>3. Steady(r, s3)
  BY <1>2, SetPolledCounts DEF Steady
<1> HIDE DEF s3
<1>4. Steady(r, s)
  <2>1. r.inPool \in BOOLEAN /\ "pending" \in Opt(Buckets)
    BY DEF Records, Opt, Buckets
  <2> QED
    BY <1>3, <2>1, SetPoolCounts DEF Steady
<1> HIDE DEF s
<1>5. d = IF r.pollSaid = "pending" THEN NoChange(r)
          ELSE Decision(s, {SeenInMempool("pending")})
  BY DEF PolledPending, s, s3, s2, s1
<1>6. CASE r.pollSaid # "pending"
  <2>1. d.rec = s /\ d.events = {SeenInMempool("pending")}
    BY <1>5, <1>6 DEF Decision
  <2> HIDE DEF d
  <2>2. ~Fired(d.events, "unseen-for-N-blocks")
    BY <2>1 DEF Fired, SeenInMempool
  <2> QED
    BY <1>4, <2>1, <2>2 DEF d
<1>7. CASE r.pollSaid = "pending"
  BY <1>5, <1>7 DEF NoChange, Decision, Fired, Steady
<1> QED
  BY <1>6, <1>7

\* The first half of onBlock leaves the streak as it is and tells of no threshold.
LEMMA PreludeCounts ==
  ASSUME TypeOK, NEW b \in Chains, NEW t \in Tracked, rec[t] # None
  PROVE  LET r == Reorged(rec[t], b).rec
             w == Signalled(Hear(told[t], Reorged(rec[t], b).events))
         IN /\ Steady(rec[t], r) /\ r.last \in {rec[t].last, Number(b)}
            /\ w.unseen <=> told[t].unseen
            /\ w.vanished = Hear(told[t], Reorged(rec[t], b).events).vanished
<1> DEFINE d == Reorged(rec[t], b)
           h == Hear(told[t], d.events)
           w == Signalled(h)
           s1 == SetLast(rec[t], Number(b))
           s  == SetBlock(s1, None, 0)
           gone == {x \in DetectDivergences(ring, {b}, ReorgDepth) :
                      rec[t].at # None /\ Number(x) = Number(rec[t].at)}
           V == Vanished(CHOOSE x \in gone : TRUE, b)
<1>1. rec[t] \in Records /\ told[t] \in Notices /\ Number(b) \in Int
  BY IsRecord, NumberNat DEF TypeOK
<1>2. s1 \in Records /\ Steady(rec[t], s1) /\ s1.last = Number(b)
  BY <1>1, SetLastCounts DEF Steady
<1> HIDE DEF s1
<1>3. Steady(rec[t], s) /\ s.last = Number(b)
  BY <1>2, SetBlockCounts DEF Steady, Opt
<1> HIDE DEF s
<1>4. d = IF gone # {} THEN Decision(s, {V}) ELSE NoChange(rec[t])
  BY DEF Reorged, s, s1
<1>5. V.kind = "vanished-from-block"
  BY DEF Vanished
<1> HIDE DEF gone, V, d
<1>6. /\ Steady(rec[t], d.rec) /\ d.rec.last \in {rec[t].last, Number(b)}
      /\ ~Fired(d.events, "unseen-for-N-blocks")
  BY <1>1, <1>3, <1>4, <1>5 DEF Decision, NoChange, Steady, Fired
<1>7. h.unseen <=> told[t].unseen
  BY <1>1, <1>6, HearCounts
<1>8. w.unseen = h.unseen /\ w.vanished = h.vanished
  <2>1. h = [at |-> h.at, conf |-> h.conf, bucket |-> h.bucket, inPool |-> h.inPool,
             ended |-> h.ended, confirmed |-> h.confirmed, unseen |-> h.unseen,
             vanished |-> h.vanished, lost |-> h.lost, stopped |-> h.stopped]
    BY DEF Hear
  <2> HIDE DEF h
  <2> QED
    BY <2>1 DEF Signalled
<1> HIDE DEF h, w
<1>9. /\ Steady(rec[t], d.rec) /\ d.rec.last \in {rec[t].last, Number(b)}
      /\ w.unseen <=> told[t].unseen
      /\ w.vanished = h.vanished
  BY <1>6, <1>7, <1>8
<1> QED
  BY <1>9 DEF d, h, w

\* A record after a block, and what its subscriber knows.
Passed(r, w, q, t, b, s, x, p) ==
  /\ s \in Records /\ s.threshold = r.threshold
  /\ s.at \in {r.at, b} /\ s.last \in {r.last, Number(b)}
  /\ x.vanished = w.vanished
  /\ \/ s.streak \in {0, r.streak} /\ (x.unseen <=> w.unseen)
     \/ /\ s.streak = r.streak + 1 /\ t \notin Transactions(b)
        /\ x.unseen <=> w.unseen \/ r.streak + 1 = r.threshold
  /\ t \in Transactions(b) /\ ~Stale(r, b) => s.streak = 0
  /\ p = IF t \in Transactions(b) THEN 0 ELSE q + 1

LEMMA FinishPasses ==
  ASSUME NEW R \in [Tracked -> Opt(Records)], NEW W \in [Tracked -> Notices],
         NEW b \in Chains, NEW hadTip, NEW latest,
         FinishBlock(R, W, b, hadTip, latest), NEW t \in Tracked
  PROVE  /\ R[t] = None => rec'[t] = None /\ told'[t] = W[t]
         /\ R[t] # None =>
              \/ rec'[t] = None /\ told'[t] = Stopped
              \/ /\ rec'[t] # None
                 /\ Passed(R[t], W[t], quiet[t], t, b, rec'[t], told'[t], quiet'[t])
<1> DEFINE is  == {u \in Tracked : R[u] # None}
           d   == [u \in is |-> ObserveBlock(R[u], u, b, hadTip)]
           out == {u \in is : Expired(d[u].rec, b)}
<1>1. /\ rec' = [u \in Tracked |->
                   IF u \in is \ out THEN Ticked(d[u].rec) ELSE None]
      /\ told' = [u \in Tracked |->
                    IF u \in out THEN Stopped
                    ELSE IF u \in is THEN Hear(W[u], d[u].events) ELSE W[u]]
      /\ quiet' = [u \in Tracked |->
                     IF u \in is \ out /\ u \notin Transactions(b)
                     THEN quiet[u] + 1 ELSE 0]
  BY DEF FinishBlock
<1>2. /\ rec'[t] = IF t \in is \ out THEN Ticked(d[t].rec) ELSE None
      /\ told'[t] = IF t \in out THEN Stopped
                    ELSE IF t \in is THEN Hear(W[t], d[t].events) ELSE W[t]
      /\ quiet'[t] = IF t \in is \ out /\ t \notin Transactions(b)
                     THEN quiet[t] + 1 ELSE 0
  BY <1>1
<1>3. out \subseteq is /\ (t \in is <=> R[t] # None)
  OBVIOUS
<1>4. CASE R[t] = None
  <2> HIDE DEF is, out
  <2> QED
    BY <1>2, <1>3, <1>4
<1>5. CASE R[t] # None /\ t \in out
  <2> HIDE DEF is, out
  <2> QED
    BY <1>2, <1>3, <1>5
<1>6. CASE R[t] # None /\ t \notin out
  <2> DEFINE e == d[t]
             s == Ticked(e.rec)
             x == Hear(W[t], e.events)
  <2>1. R[t] \in Records /\ W[t] \in Notices
    BY <1>6, IsRecord
  <2>2. e = ObserveBlock(R[t], t, b, hadTip)
    BY <1>6
  <2>3. rec'[t] = s /\ told'[t] = x
        /\ quiet'[t] = IF t \in Transactions(b) THEN 0 ELSE quiet[t] + 1
    <3> HIDE DEF is, out
    <3> QED
      BY <1>2, <1>3, <1>6
  <2> HIDE DEF e
  <2>4. Counted(R[t], t, b, e)
    BY <2>1, <2>2, ObserveCounts
  <2>5. /\ s \in Records /\ s.streak = e.rec.streak /\ s.threshold = e.rec.threshold
        /\ s.last = e.rec.last /\ s.at = e.rec.at
    BY <2>4, TickedCounts DEF Counted, Steady
  <2>6. /\ x.unseen <=> W[t].unseen \/ Fired(e.events, "unseen-for-N-blocks")
        /\ x.vanished = W[t].vanished
    BY <2>1, <2>4, HearCounts DEF Counted
  <2> HIDE DEF s, x
  <2>7. Passed(R[t], W[t], quiet[t], t, b, s, x, quiet'[t])
    <3>1. \/ s.streak \in {0, R[t].streak} /\ (x.unseen <=> W[t].unseen)
          \/ /\ s.streak = R[t].streak + 1 /\ t \notin Transactions(b)
             /\ x.unseen <=> W[t].unseen \/ R[t].streak + 1 = R[t].threshold
      BY <2>4, <2>5, <2>6 DEF Counted
    <3>2. /\ s.threshold = R[t].threshold
          /\ s.at \in {R[t].at, b} /\ s.last \in {R[t].last, Number(b)}
          /\ t \in Transactions(b) /\ ~Stale(R[t], b) => s.streak = 0
      BY <2>4, <2>5 DEF Counted
    <3> QED
      BY <2>3, <2>5, <2>6, <3>1, <3>2 DEF Passed
  <2>8. rec'[t] # None
    BY <2>3, <2>5, NoneIsNoRecord
  <2> QED
    BY <1>6, <2>3, <2>7, <2>8
<1> QED
  BY <1>4, <1>5, <1>6

\* The same of a block that is handed out: the reorg check leaves record r and
\* subscriber w, then the receipts are awaited, or the record goes, or passes b.
LEMMA OnBlockPasses ==
  ASSUME IInv, NEW b \in past, OnBlock(b), NEW t \in Tracked
  PROVE  /\ b \in Chains /\ tip' = b /\ ring' = AppendBlock(ring, b, 2 * ReorgDepth)
         /\ rec[t] = None => rec'[t] = None /\ told'[t] = told[t]
         /\ rec[t] # None =>
              \E r, w :
                /\ Steady(rec[t], r) /\ r.last \in {rec[t].last, Number(b)}
                /\ r.at = Reorged(rec[t], b).rec.at
                /\ w.unseen <=> told[t].unseen
                /\ w.vanished = Hear(told[t], Reorged(rec[t], b).events).vanished
                /\ \/ rec'[t] = r /\ told'[t] = w /\ quiet'[t] = quiet[t] /\ waiting' # {}
                   \/ rec'[t] = None /\ told'[t] = Stopped
                   \/ /\ rec'[t] # None
                      /\ Passed(r, w, quiet[t], t, b, rec'[t], told'[t], quiet'[t])
<1> DEFINE R == [u \in Tracked |->
                   IF rec[u] = None THEN None ELSE Reorged(rec[u], b).rec]
           W == [u \in Tracked |->
                   IF rec[u] = None THEN told[u]
                   ELSE Signalled(Hear(told[u], Reorged(rec[u], b).events))]
           task == [block |-> b, hadTip |-> tip # None]
<1>0. b \in Chains /\ TypeOK
  BY DEF IInv, TypeOK
<1>1. /\ tip' = b /\ ring' = AppendBlock(ring, b, 2 * ReorgDepth)
  BY DEF OnBlock
<1>2. \/ /\ waiting' = waiting \cup {task} /\ rec' = R /\ told' = W
         /\ UNCHANGED <<polls, quiet>>
      \/ /\ FinishBlock(R, W, b, tip # None, Number(b))
         /\ UNCHANGED waiting
  BY DEF OnBlock
<1>3. R \in [Tracked -> Opt(Records)] /\ W \in [Tracked -> Notices]
  <2>1. ASSUME NEW u \in Tracked PROVE R[u] \in Opt(Records) /\ W[u] \in Notices
    <3>1. CASE rec[u] = None
      <4>1. R[u] = None /\ W[u] = told[u]
        BY <3>1
      <4> HIDE DEF R, W
      <4> QED
        BY <1>0, <4>1 DEF TypeOK, Opt
    <3>2. CASE rec[u] # None
      <4>1. /\ R[u] = Reorged(rec[u], b).rec
            /\ W[u] = Signalled(Hear(told[u], Reorged(rec[u], b).events))
        BY <3>2
      <4> HIDE DEF R, W
      <4> QED
        BY <1>0, <3>2, <4>1, PreludeKeeps DEF Opt
    <3> QED
      BY <3>1, <3>2
  <2> QED
    BY <2>1
<1>4. CASE rec[t] = None
  <2>1. R[t] = None /\ W[t] = told[t]
    BY <1>4
  <2> HIDE DEF R, W
  <2>2. rec'[t] = None /\ told'[t] = told[t]
    BY <1>0, <1>2, <1>3, <2>1, FinishPasses
  <2> QED
    BY <1>0, <1>1, <1>4, <2>2
<1>5. CASE rec[t] # None
  <2>1. /\ R[t] = Reorged(rec[t], b).rec
        /\ W[t] = Signalled(Hear(told[t], Reorged(rec[t], b).events))
    BY <1>5
  <2> HIDE DEF R, W
  <2>2. /\ Steady(rec[t], R[t]) /\ R[t].last \in {rec[t].last, Number(b)}
        /\ W[t].unseen <=> told[t].unseen
        /\ W[t].vanished = Hear(told[t], Reorged(rec[t], b).events).vanished
    BY <1>0, <1>5, <2>1, PreludeCounts
  <2>3. R[t] # None
    BY <2>2, NoneIsNoRecord DEF Steady
  <2>4. \/ rec'[t] = R[t] /\ told'[t] = W[t] /\ quiet'[t] = quiet[t] /\ waiting' # {}
        \/ rec'[t] = None /\ told'[t] = Stopped
        \/ /\ rec'[t] # None
           /\ Passed(R[t], W[t], quiet[t], t, b, rec'[t], told'[t], quiet'[t])
    <3>1. CASE /\ waiting' = waiting \cup {task} /\ rec' = R /\ told' = W
               /\ UNCHANGED <<polls, quiet>>
      <4> HIDE DEF task
      <4> QED
        BY <3>1
    <3>2. CASE FinishBlock(R, W, b, tip # None, Number(b))
      BY <1>0, <1>3, <2>3, <3>2, FinishPasses
    <3> QED
      BY <1>2, <3>1, <3>2
  <2>5. R[t].at = Reorged(rec[t], b).rec.at
    BY <2>1
  <2> QED
    BY <1>0, <1>1, <1>5, <2>2, <2>4, <2>5
<1> QED
  BY <1>4, <1>5

RingInv == Ranked(ring) /\ Cardinality(ring) <= 2 * ReorgDepth

LEMMA RingStep == IInv /\ RingInv /\ [Next]_vars => RingInv'
<1> SUFFICES ASSUME IInv, RingInv, [Next]_vars PROVE RingInv'
  OBVIOUS
<1>1. ASSUME NEW b \in past, OnBlock(b) PROVE RingInv'
  <2>1. b \in Chains /\ ring' = AppendBlock(ring, b, 2 * ReorgDepth)
    BY <1>1 DEF OnBlock, IInv, TypeOK
  <2>2. Ranked(ring') /\ Cardinality(ring') <= 2 * ReorgDepth
    BY <2>1, AppendKeeps DEF RingInv
  <2> QED
    BY <2>2 DEF RingInv, Ranked
<1>2. CASE ring' = ring
  BY <1>2 DEF RingInv, Ranked
<1>3. (\E b \in past : OnBlock(b)) \/ ring' = ring
  BY DEF Next, vars, tracker, AdoptHead, SourceRestarts, CapsChange, Subscribe,
         Release, ResumeBlock, OnMempool, AnswerPoll, PollFails, ResumePoll
<1> QED
  BY <1>1, <1>2, <1>3

\* The ring holds one block of a number and no more than 2 * reorgDepthBlocks,
\* whatever is handed out, in whatever order.
THEOREM RingAlwaysBounded ==
  Spec => []/\ \A x, y \in ring : Number(x) = Number(y) => x = y
            /\ Cardinality(ring) <= 2 * ReorgDepth
<1>1. Init => RingInv
  <2> SUFFICES ASSUME Init PROVE RingInv
    OBVIOUS
  <2>1. ring = {} /\ ReorgDepth \in Nat
    BY ConstantsAssumption DEF Init, ConstantsAssumption
  <2> QED
    BY <2>1, FS_EmptySet DEF RingInv, Ranked
<1>2. RingInv => /\ \A x, y \in ring : Number(x) = Number(y) => x = y
                 /\ Cardinality(ring) <= 2 * ReorgDepth
  BY DEF RingInv, Ranked
<1> QED
  BY <1>1, <1>2, RingStep, AlwaysIInv, PTL DEF Spec

-----------------------------------------------------------------------------
\* unseen-for-N-blocks.

\* A step's effect on a streak: it is one longer, over, or the same, and the
\* event comes with the step onto the threshold.
Streaks(t) ==
  \/ rec'[t] = None
  \/ /\ rec[t] = None /\ rec'[t].streak = 0 /\ rec'[t].threshold \in Thresholds
  \/ /\ rec[t] # None
     /\ rec'[t].threshold \in Thresholds
     /\ rec'[t].threshold = rec[t].threshold \/ rec'[t].threshold < rec[t].threshold
     /\ \/ rec'[t].streak \in {0, rec[t].streak} /\ (told'[t].unseen <=> told[t].unseen)
        \/ /\ rec'[t].streak = rec[t].streak + 1
           /\ rec'[t].threshold = rec[t].threshold
           /\ told'[t].unseen <=> told[t].unseen \/ rec[t].streak + 1 = rec[t].threshold

LEMMA RecordOf ==
  ASSUME TypeOK, NEW t \in Tracked, rec[t] # None
  PROVE  /\ rec[t] \in Records /\ told[t] \in Notices
         /\ rec[t].threshold \in Thresholds /\ rec[t].streak \in Nat
         /\ rec[t].last \in Int /\ rec[t].at \in Opt(Chains)
<1>1. rec[t] \in Opt(Records) /\ told[t] \in Notices
  BY DEF TypeOK
<1>2. rec[t] \in Records
  BY <1>1 DEF Opt
<1> QED
  BY <1>1, <1>2 DEF Records

LEMMA SubscribeStreaks ==
  ASSUME TypeOK, NEW u \in Tracked, NEW n \in Thresholds, Subscribe(u, n),
         NEW t \in Tracked
  PROVE  Streaks(t)
<1>t. /\ rec \in [Tracked -> Opt(Records)] /\ told \in [Tracked -> Notices]
  BY DEF TypeOK
<1>1. CASE rec[u] = None
  <2> DEFINE s == NewRecord(records[u] + 1, n)
  <2>1. rec' = [rec EXCEPT ![u] = s] /\ told' = [told EXCEPT ![u] = NothingTold]
    BY <1>1 DEF Subscribe
  <2>2. s.streak = 0 /\ s.threshold = n
    BY DEF NewRecord
  <2> HIDE DEF s
  <2>3. CASE t = u
    BY <1>t, <1>1, <2>1, <2>2, <2>3 DEF Streaks
  <2>4. CASE t # u
    <3>1. rec'[t] = rec[t] /\ told'[t] = told[t]
      BY <1>t, <2>1, <2>4
    <3>2. rec[t] # None => rec[t].threshold \in Thresholds
      BY RecordOf
    <3> QED
      BY <3>1, <3>2 DEF Streaks
  <2> QED
    BY <2>3, <2>4
<1>2. CASE rec[u] # None
  <2> DEFINE s == [rec[u] EXCEPT !.threshold = n]
  <2>1. n < rec[u].threshold /\ rec' = [rec EXCEPT ![u] = s] /\ told' = told
    BY <1>2 DEF Subscribe
  <2>2. rec[u] \in Records
    BY <1>2, <1>t, IsRecord
  <2>3. s.streak = rec[u].streak /\ s.threshold = n
    BY <2>2 DEF Records
  <2> HIDE DEF s
  <2>4. CASE t = u
    <3>1. rec'[t] = s
      BY <1>t, <2>1, <2>4
    <3> QED
      BY <1>2, <2>1, <2>3, <2>4, <3>1 DEF Streaks
  <2>5. CASE t # u
    <3>1. rec'[t] = rec[t] /\ told'[t] = told[t]
      BY <1>t, <2>1, <2>5
    <3>2. rec[t] # None => rec[t].threshold \in Thresholds
      BY RecordOf
    <3> QED
      BY <3>1, <3>2 DEF Streaks
  <2> QED
    BY <2>4, <2>5
<1> QED
  BY <1>1, <1>2

LEMMA NextStreaks ==
  ASSUME IInv, [Next]_vars, NEW t \in Tracked
  PROVE  Streaks(t)
<1>t. /\ rec \in [Tracked -> Opt(Records)] /\ told \in [Tracked -> Notices]
      /\ TypeOK
  BY DEF IInv, TypeOK
<1>r. rec[t] # None =>
        rec[t] \in Records /\ rec[t].threshold \in Thresholds /\ told[t] \in Notices
  BY <1>t, RecordOf
<1>s. CASE rec' = rec /\ told' = told
  BY <1>r, <1>s DEF Streaks
<1>1. ASSUME NEW u \in Tracked, NEW n \in Thresholds, Subscribe(u, n) PROVE Streaks(t)
  BY <1>1, <1>t, SubscribeStreaks
<1>2. ASSUME NEW u \in Tracked, Release(u) PROVE Streaks(t)
  <2>1. rec' = [rec EXCEPT ![u] = None] /\ told' = [told EXCEPT ![u] = Stopped]
    BY <1>2 DEF Release
  <2>2. CASE t = u
    BY <1>t, <2>1, <2>2 DEF Streaks
  <2>3. CASE t # u
    <3>1. rec'[t] = rec[t] /\ told'[t] = told[t]
      BY <1>t, <2>1, <2>3
    <3> QED
      BY <1>r, <3>1 DEF Streaks
  <2> QED
    BY <2>2, <2>3
<1>3. ASSUME NEW b \in past, OnBlock(b) PROVE Streaks(t)
  <2>1. CASE rec[t] = None
    BY <1>3, <2>1, OnBlockPasses DEF Streaks
  <2>2. CASE rec[t] # None
    <3>1. PICK r, w :
            /\ Steady(rec[t], r) /\ (w.unseen <=> told[t].unseen)
            /\ \/ rec'[t] = r /\ told'[t] = w
               \/ rec'[t] = None
               \/ Passed(r, w, quiet[t], t, b, rec'[t], told'[t], quiet'[t])
      BY <1>3, <2>2, OnBlockPasses
    <3> QED
      BY <1>r, <2>2, <3>1 DEF Steady, Passed, Streaks
  <2> QED
    BY <2>1, <2>2
<1>4. ASSUME NEW task \in waiting, ResumeBlock(task) PROVE Streaks(t)
  <2>1. FinishBlock(rec, told, task.block, task.hadTip, TipOr0)
        /\ task.block \in Chains
    BY <1>4, <1>t DEF ResumeBlock, TypeOK
  <2>2. /\ rec[t] = None => rec'[t] = None
        /\ rec[t] # None =>
             \/ rec'[t] = None
             \/ Passed(rec[t], told[t], quiet[t], t, task.block, rec'[t], told'[t],
                       quiet'[t])
    BY <1>t, <2>1, FinishPasses
  <2> QED
    BY <1>r, <2>2 DEF Passed, Streaks
<1>5. ASSUME NEW s \in Pools, OnMempool(s) PROVE Streaks(t)
  <2> DEFINE d == [u \in Live |-> DecideMempool(rec[u], u, s, TipOr0)]
  <2>1. /\ rec' = [u \in Tracked |-> IF u \in Live THEN d[u].rec ELSE None]
        /\ told' = [u \in Tracked |->
                      IF u \in Live THEN Hear(told[u], d[u].events) ELSE told[u]]
    BY <1>5 DEF OnMempool
  <2>2. CASE t \notin Live
    BY <2>1, <2>2 DEF Streaks
  <2>3. CASE t \in Live
    <3>1. /\ rec'[t] = DecideMempool(rec[t], t, s, TipOr0).rec
          /\ told'[t] = Hear(told[t], DecideMempool(rec[t], t, s, TipOr0).events)
      BY <2>1, <2>3
    <3>2. rec[t] # None /\ s[t] \in Opt(Buckets) /\ TipOr0 \in Nat
      BY <2>3, <1>t, TipOr0Nat, ConstantsAssumption
      DEF ConstantsAssumption, Snapshots, Live, Opt, TypeOK
    <3>3. Presented(rec[t], s[t], TipOr0, DecideMempool(rec[t], t, s, TipOr0))
      BY <1>r, <3>2, DecideMempoolCounts
    <3>4. told'[t].unseen <=> told[t].unseen
      BY <1>r, <3>1, <3>2, <3>3, HearCounts DEF Presented
    <3> QED
      BY <1>r, <3>1, <3>2, <3>3, <3>4 DEF Presented, Streaks
  <2> QED
    BY <2>2, <2>3
<1>6. ASSUME NEW p \in polls, ResumePoll(p) PROVE Streaks(t)
  <2> DEFINE e == IF p.found = "pending" THEN PolledPending(rec[p.tx], p.tip)
                  ELSE PolledMined(rec[p.tx], p.kind, p.block, p.tip)
  <2>0. /\ p \in Polls /\ p.tx \in Tracked /\ p.tip \in Nat
        /\ p.found = "pending" \/ p.block \in Chains
    BY <1>6, <1>t DEF TypeOK, Polls, ResumePoll
  <2>1. \/ rec' = rec /\ told' = told
        \/ /\ Present(p)
           /\ rec' = [rec EXCEPT ![p.tx] = e.rec]
           /\ told' = [told EXCEPT ![p.tx] = Hear(told[p.tx], e.events)]
    BY <1>6, <1>t, <2>0 DEF ResumePoll
  <2>2. CASE Present(p) /\ t = p.tx /\ rec'[t] = e.rec
             /\ told'[t] = Hear(told[t], e.events)
    <3>1. rec[t] # None
      BY <2>2 DEF Present
    <3>2. Steady(rec[t], e.rec) /\ ~Fired(e.events, "unseen-for-N-blocks")
      BY <1>r, <2>0, <2>2, <3>1, PolledMinedCounts, PolledPendingCounts
    <3> HIDE DEF e
    <3>3. told'[t].unseen <=> told[t].unseen
      BY <1>r, <2>2, <3>1, <3>2, HearCounts
    <3> QED
      BY <1>r, <2>2, <3>1, <3>2, <3>3 DEF Steady, Streaks
  <2>3. CASE rec'[t] = rec[t] /\ told'[t] = told[t]
    BY <1>r, <2>3 DEF Streaks
  <2> HIDE DEF e
  <2> QED
    BY <1>t, <2>0, <2>1, <2>2, <2>3
<1>7. CASE AdoptHead \/ SourceRestarts \/ CapsChange
  <2>1. rec' = rec /\ told' = told
    BY <1>7 DEF AdoptHead, SourceRestarts, CapsChange, tracker
  <2> QED
    BY <1>s, <2>1
<1>8. ASSUME NEW p \in polls, AnswerPoll(p) \/ PollFails(p) PROVE Streaks(t)
  <2>1. rec' = rec /\ told' = told
    BY <1>8 DEF AnswerPoll, PollFails, tracker
  <2> QED
    BY <1>s, <2>1
<1>9. CASE UNCHANGED vars
  <2>1. rec' = rec /\ told' = told
    BY <1>9 DEF vars, tracker
  <2> QED
    BY <1>s, <2>1
<1> QED
  BY <1>1, <1>2, <1>3, <1>4, <1>5, <1>6, <1>7, <1>8, <1>9 DEF Next

\* Every consumer waits for the same number of blocks, one at least.
OneThreshold == \E n \in Nat \ {0} : Thresholds \subseteq {n}

\* No streak reaches its threshold in silence, by whatever path it got there.
\* With several thresholds in use this is refuted: one lowered under the streak is
\* passed over.
THEOREM ThresholdAlwaysFires == OneThreshold => (Spec => []ThresholdFires)
<1> SUFFICES ASSUME OneThreshold PROVE Spec => []ThresholdFires
  OBVIOUS
<1>1. Init => ThresholdFires
  BY DEF Init, ThresholdFires, Live
<1>2. IInv /\ ThresholdFires /\ [Next]_vars => ThresholdFires'
  <2> SUFFICES ASSUME IInv, ThresholdFires, [Next]_vars,
                      NEW t \in Tracked, rec'[t] # None,
                      rec'[t].streak >= rec'[t].threshold
               PROVE  told'[t].unseen
    BY DEF ThresholdFires, Live
  <2>1. Streaks(t)
    BY NextStreaks
  <2>2. PICK n \in Nat \ {0} : Thresholds \subseteq {n}
    BY DEF OneThreshold
  <2>3. rec[t] # None => /\ rec[t].streak \in Nat /\ rec[t].threshold = n
                         /\ rec[t].streak >= n => told[t].unseen
    <3>1. rec[t] # None => rec[t].streak \in Nat /\ rec[t].threshold \in Thresholds
      BY RecordOf DEF IInv
    <3> QED
      BY <2>2, <3>1 DEF ThresholdFires, Live
  <2>4. rec[t] # None /\ rec'[t].threshold = n /\ rec'[t].streak >= n
    <3>1. rec'[t].threshold \in Thresholds
      BY <2>1, NoneIsNoRecord DEF Streaks
    <3>2. rec'[t].threshold = n /\ rec'[t].streak >= n
      BY <2>2, <3>1
    <3>3. rec'[t].streak # 0
      BY <2>2, <3>2
    <3> QED
      BY <2>1, <3>2, <3>3 DEF Streaks
  <2>5. CASE rec[t].streak >= n
    BY <2>1, <2>3, <2>4, <2>5 DEF Streaks
  <2>6. CASE rec[t].streak < n
    BY <2>1, <2>2, <2>3, <2>4, <2>6 DEF Streaks
  <2> QED
    BY <2>2, <2>3, <2>4, <2>5, <2>6
<1> QED
  BY <1>1, <1>2, AlwaysIInv, PTL DEF Spec

-----------------------------------------------------------------------------
\* A tracker that neither polls nor awaits receipts.

BlocksAndPools == WithReceipts = {} /\ \A k \in PollKinds : Every[k] = 0

Idle == waiting = {} /\ polls = {}

LEMMA StaysIdle ==
  ASSUME BlocksAndPools, Idle, [Next]_vars
  PROVE  Idle'
<1>1. ASSUME NEW b \in past, OnBlock(b) PROVE Idle'
  <2> DEFINE R == [t \in Tracked |->
                     IF rec[t] = None THEN None ELSE Reorged(rec[t], b).rec]
             W == [t \in Tracked |->
                     IF rec[t] = None THEN told[t]
                     ELSE Signalled(Hear(told[t], Reorged(rec[t], b).events))]
             is  == {t \in Tracked : R[t] # None}
             d   == [t \in is |-> ObserveBlock(R[t], t, b, tip # None)]
             out == {t \in is : Expired(d[t].rec, b)}
  <2>1. FinishBlock(R, W, b, tip # None, Number(b)) /\ waiting' = waiting
    BY <1>1 DEF OnBlock, BlocksAndPools
  <2>2. polls' = polls \cup
          {[kind |-> p[1], tx |-> p[2], id |-> R[p[2]].id, tip |-> Number(b),
            found |-> "asked", block |-> None] :
             p \in {q \in PollKinds \X (is \ out) : Due(d[q[2]].rec, q[1])}}
    BY <2>1 DEF FinishBlock
  <2> HIDE DEF R, is, d, out
  <2>3. \A q \in PollKinds \X (is \ out) : ~Due(d[q[2]].rec, q[1])
    BY DEF BlocksAndPools, Due
  <2> QED
    BY <2>1, <2>2, <2>3 DEF Idle
<1>2. CASE \A b \in past : ~OnBlock(b)
  BY <1>2 DEF Next, vars, tracker, AdoptHead, SourceRestarts, CapsChange, Subscribe,
              Release, OnMempool, Idle
<1> QED
  BY <1>1, <1>2

-----------------------------------------------------------------------------
\* Inclusions and the ring.

Anchors ==
  Idle /\ \A t \in Tracked :
            rec[t] # None => (rec[t].at # None => Anchor(rec[t].at, ring))

Told(t) ==
  told'[t].vanished \notin {None, told[t].vanished}
    => told'[t].vanished.old = told[t].at

LEMMA OnBlockAnchors ==
  ASSUME IInv, RingInv, Anchors, NEW b \in past, OnBlock(b), Idle', NEW t \in Tracked
  PROVE  /\ rec'[t] # None => (rec'[t].at # None => Anchor(rec'[t].at, ring'))
         /\ Told(t)
<1>1. b \in Chains /\ ring' = AppendBlock(ring, b, 2 * ReorgDepth)
  BY OnBlockPasses
<1>2. CASE rec[t] = None
  <2>1. rec'[t] = None /\ told'[t] = told[t]
    BY <1>2, OnBlockPasses
  <2> QED
    BY <2>1 DEF Told
<1>3. CASE rec[t] # None
  <2> DEFINE d == Reorged(rec[t], b)
             N == AppendBlock(ring, b, 2 * ReorgDepth)
             V == Vanished(rec[t].at, b)
  <2>1. PICK r, w :
          /\ r.at = d.rec.at
          /\ w.vanished = Hear(told[t], d.events).vanished
          /\ \/ rec'[t] = None /\ told'[t] = Stopped
             \/ /\ rec'[t] # None
                /\ Passed(r, w, quiet[t], t, b, rec'[t], told'[t], quiet'[t])
    BY <1>3, OnBlockPasses DEF Idle
  <2>2. rec[t] \in Records /\ told[t] \in Notices
    BY <1>3, RecordOf DEF IInv
  <2>3. \/ d = NoChange(rec[t]) /\ (rec[t].at # None => Anchor(rec[t].at, N))
        \/ d = Decision(SetBlock(SetLast(rec[t], Number(b)), None, 0), {V})
    BY <1>1, <1>3, <2>2, ReorgedAnchors DEF RingInv, Anchors
  <2>4. Anchor(b, N)
    BY <1>1, NewestAnchors DEF RingInv
  <2>5. told[t].at = rec[t].at
    BY <1>3 DEF IInv, Coherent, Agree
  <2> HIDE DEF d, N, V
  <2>6. CASE d = NoChange(rec[t]) /\ (rec[t].at # None => Anchor(rec[t].at, N))
    <3>1. d.rec = rec[t] /\ d.events = {}
      BY <2>6 DEF NoChange, Decision
    <3>2. w.vanished = told[t].vanished
      BY <2>1, <2>2, <3>1, HearNothing
    <3>3. rec'[t] # None => (rec'[t].at # None => Anchor(rec'[t].at, ring'))
      BY <1>1, <2>1, <2>4, <2>6, <3>1 DEF Passed, N
    <3>4. told'[t].vanished \in {None, told[t].vanished}
      BY <2>1, <3>2 DEF Passed, Stopped, NothingTold
    <3> QED
      BY <3>3, <3>4 DEF Told
  <2>7. CASE d = Decision(SetBlock(SetLast(rec[t], Number(b)), None, 0), {V})
    <3>1. d.events = {V} /\ d.rec.at = None
      <4>1. Number(b) \in Int /\ 0 \in Nat /\ None \in Opt(Chains)
        BY <1>1, NumberNat DEF Opt
      <4>2. SetLast(rec[t], Number(b)) \in Records
        BY <2>2, <4>1, SetLastCounts DEF Steady
      <4>3. SetBlock(SetLast(rec[t], Number(b)), None, 0).at = None
        BY <4>1, <4>2, SetBlockCounts
      <4> QED
        BY <2>7, <4>3 DEF Decision
    <3>2. w.vanished = V
      <4>1. Hear(told[t], {Vanished(rec[t].at, b)}).vanished = Vanished(rec[t].at, b)
        <5> DEFINE h == Hear(told[t], {Vanished(rec[t].at, b)})
        <5>1. h = [at |-> None, conf |-> 0, bucket |-> told[t].bucket,
                   inPool |-> told[t].inPool, ended |-> told[t].ended,
                   confirmed |-> told[t].confirmed, unseen |-> told[t].unseen,
                   vanished |-> Vanished(rec[t].at, b), lost |-> told[t].lost,
                   stopped |-> told[t].stopped]
          BY <2>2, HearVanished
        <5> HIDE DEF h
        <5>2. h.vanished = Vanished(rec[t].at, b)
          BY <5>1
        <5> QED
          BY <5>2 DEF h
      <4> QED
        BY <2>1, <3>1, <4>1 DEF V
    <3>3. V.old = told[t].at
      BY <2>5 DEF V, Vanished
    <3>4. rec'[t] # None => (rec'[t].at # None => Anchor(rec'[t].at, ring'))
      BY <1>1, <2>1, <2>4, <3>1 DEF Passed, N
    <3>5. told'[t].vanished \in {None, V}
      BY <2>1, <3>2 DEF Passed, Stopped, NothingTold
    <3> QED
      BY <3>3, <3>4, <3>5 DEF Told
  <2> QED
    BY <2>3, <2>6, <2>7
<1> QED
  BY <1>2, <1>3

\* A step that is no block neither moves an inclusion nor tells of one lost.
LEMMA OtherAnchors ==
  ASSUME IInv, Idle, [Next]_vars, \A b \in past : ~OnBlock(b), NEW t \in Tracked
  PROVE  /\ ring' = ring
         /\ \/ rec'[t] = None
            \/ rec'[t].at = None
            \/ rec[t] # None /\ rec'[t].at = rec[t].at
         /\ told'[t].vanished \in {None, told[t].vanished}
<1>t. /\ rec \in [Tracked -> Opt(Records)] /\ told \in [Tracked -> Notices]
      /\ TypeOK
  BY DEF IInv, TypeOK
<1>s. CASE ring' = ring /\ rec' = rec /\ told' = told
  BY <1>s
<1>1. ASSUME NEW u \in Tracked, NEW n \in Thresholds, Subscribe(u, n)
      PROVE  /\ ring' = ring
             /\ \/ rec'[t] = None
                \/ rec'[t].at = None
                \/ rec[t] # None /\ rec'[t].at = rec[t].at
             /\ told'[t].vanished \in {None, told[t].vanished}
  <2>0. ring' = ring
    BY <1>1 DEF Subscribe
  <2>1. CASE rec[u] = None
    <3> DEFINE s == NewRecord(records[u] + 1, n)
    <3>1. rec' = [rec EXCEPT ![u] = s] /\ told' = [told EXCEPT ![u] = NothingTold]
      BY <1>1, <2>1 DEF Subscribe
    <3>2. s.at = None /\ NothingTold.vanished = None
      BY DEF NewRecord, NothingTold
    <3> HIDE DEF s
    <3> QED
      BY <1>t, <2>0, <3>1, <3>2
  <2>2. CASE rec[u] # None
    <3> DEFINE s == [rec[u] EXCEPT !.threshold = n]
    <3>1. rec' = [rec EXCEPT ![u] = s] /\ told' = told
      BY <1>1, <2>2 DEF Subscribe
    <3>2. s.at = rec[u].at
      BY <2>2, <1>t, RecordOf DEF Records
    <3> HIDE DEF s
    <3> QED
      BY <1>t, <2>0, <2>2, <3>1, <3>2
  <2> QED
    BY <2>1, <2>2
<1>2. ASSUME NEW u \in Tracked, Release(u)
      PROVE  /\ ring' = ring
             /\ rec'[t] = None \/ (rec[t] # None /\ rec'[t] = rec[t])
             /\ told'[t].vanished \in {None, told[t].vanished}
  <2>1. /\ rec' = [rec EXCEPT ![u] = None] /\ told' = [told EXCEPT ![u] = Stopped]
        /\ ring' = ring
    BY <1>2 DEF Release
  <2>2. Stopped.vanished = None
    BY DEF Stopped, NothingTold
  <2> QED
    BY <1>t, <2>1, <2>2
<1>3. ASSUME NEW s \in Pools, OnMempool(s)
      PROVE  /\ ring' = ring
             /\ \/ rec'[t] = None
                \/ rec[t] # None /\ rec'[t].at = rec[t].at
             /\ told'[t].vanished \in {None, told[t].vanished}
  <2> DEFINE d == [u \in Live |-> DecideMempool(rec[u], u, s, TipOr0)]
  <2>1. /\ rec' = [u \in Tracked |-> IF u \in Live THEN d[u].rec ELSE None]
        /\ told' = [u \in Tracked |->
                      IF u \in Live THEN Hear(told[u], d[u].events) ELSE told[u]]
        /\ ring' = ring
    BY <1>3 DEF OnMempool
  <2>2. CASE t \notin Live
    BY <2>1, <2>2
  <2>3. CASE t \in Live
    <3>1. /\ rec'[t] = DecideMempool(rec[t], t, s, TipOr0).rec
          /\ told'[t] = Hear(told[t], DecideMempool(rec[t], t, s, TipOr0).events)
      BY <2>1, <2>3
    <3>2. rec[t] # None /\ s[t] \in Opt(Buckets) /\ TipOr0 \in Nat
      BY <2>3, <1>t, TipOr0Nat, ConstantsAssumption
      DEF ConstantsAssumption, Snapshots, Live, Opt, TypeOK
    <3>3. rec[t] \in Records /\ told[t] \in Notices
      BY <1>t, <3>2, RecordOf
    <3>4. Presented(rec[t], s[t], TipOr0, DecideMempool(rec[t], t, s, TipOr0))
      BY <3>2, <3>3, DecideMempoolCounts
    <3>5. told'[t].vanished = told[t].vanished
      BY <3>1, <3>3, <3>4, HearCounts DEF Presented
    <3> QED
      BY <2>1, <3>1, <3>2, <3>4, <3>5 DEF Presented
  <2> QED
    BY <2>2, <2>3
<1>4. CASE AdoptHead \/ SourceRestarts \/ CapsChange
  BY <1>4, <1>s DEF AdoptHead, SourceRestarts, CapsChange, tracker
<1>5. CASE UNCHANGED vars
  BY <1>5, <1>s DEF vars, tracker
<1> QED
  BY <1>1, <1>2, <1>3, <1>4, <1>5 DEF Next, Idle

LEMMA AnchorsStep ==
  ASSUME BlocksAndPools, IInv, RingInv, Anchors, [Next]_vars
  PROVE  Anchors' /\ \A t \in Tracked : Told(t)
<1>1. Idle'
  BY StaysIdle DEF Anchors
<1>2. ASSUME NEW t \in Tracked
      PROVE  /\ rec'[t] # None => (rec'[t].at # None => Anchor(rec'[t].at, ring'))
             /\ Told(t)
  <2>1. CASE \E b \in past : OnBlock(b)
    BY <1>1, <2>1, OnBlockAnchors
  <2>2. CASE \A b \in past : ~OnBlock(b)
    <3>1. /\ ring' = ring
          /\ \/ rec'[t] = None
             \/ rec'[t].at = None
             \/ rec[t] # None /\ rec'[t].at = rec[t].at
          /\ told'[t].vanished \in {None, told[t].vanished}
      BY <2>2, OtherAnchors DEF Anchors
    <3> QED
      BY <3>1 DEF Anchors, Told
  <2> QED
    BY <2>1, <2>2
<1>3. Anchors'
  BY <1>1, <1>2 DEF Anchors
<1> QED
  BY <1>2, <1>3

LEMMA AnchorsInit == Init => RingInv /\ Anchors
<1> SUFFICES ASSUME Init PROVE RingInv /\ Anchors
  OBVIOUS
<1>1. ring = {} /\ ReorgDepth \in Nat
  BY ConstantsAssumption DEF Init, ConstantsAssumption
<1>2. RingInv
  BY <1>1, FS_EmptySet DEF RingInv, Ranked
<1>3. Anchors
  BY DEF Init, Anchors, Idle
<1> QED
  BY <1>2, <1>3

\* The inclusion of a record is the ring's block of its number, or lies below the
\* reorg depth, when the tracker goes by blocks and snapshots alone.  A poll's
\* answer or an awaited receipt refutes it.
THEOREM InclusionsInRing == BlocksAndPools => (Spec => []SeenInRing)
<1> SUFFICES ASSUME BlocksAndPools PROVE Spec => []SeenInRing
  OBVIOUS
<1>1. IInv /\ RingInv /\ Anchors /\ [Next]_vars => RingInv' /\ Anchors'
  BY RingStep, AnchorsStep
<1>2. Anchors => SeenInRing
  BY DEF Anchors, Anchor, SeenInRing, Live
<1> QED
  BY <1>1, <1>2, AnchorsInit, AlwaysIInv, PTL DEF Spec

\* A vanished-from-block names the block the subscriber was told of, when the
\* tracker goes by blocks and snapshots alone.  A poll's answer refutes it.
THEOREM VanishedAlwaysSeen == BlocksAndPools => (Spec => VanishedNamesSeen)
<1> SUFFICES ASSUME BlocksAndPools PROVE Spec => VanishedNamesSeen
  OBVIOUS
<1>1. IInv /\ RingInv /\ Anchors /\ [Next]_vars => RingInv' /\ Anchors'
  BY RingStep, AnchorsStep
<1>2. IInv /\ RingInv /\ Anchors /\ [Next]_vars =>
        [\A t \in Tracked :
           told'[t].vanished \notin {None, told[t].vanished}
             => told'[t].vanished.old = told[t].at]_vars
  BY AnchorsStep DEF Told
<1> QED
  BY <1>1, <1>2, AnchorsInit, AlwaysIInv, PTL DEF Spec, VanishedNamesSeen

-----------------------------------------------------------------------------
\* Streaks and quiet.

\* No record is ahead of the tip, which is not ahead of the head; and no streak is
\* longer than its transaction has been quiet.
Quiet ==
  /\ Idle
  /\ past = {head} /\ TipOr0 <= Number(head)
  /\ \A t \in Tracked :
       rec[t] # None => rec[t].last <= TipOr0 /\ rec[t].streak <= quiet[t]

Honest(t) ==
  rec[t] # None /\ told'[t].unseen /\ ~told[t].unseen => quiet'[t] >= rec[t].threshold

LEMMA OnBlockQuiet ==
  ASSUME IInv, Quiet, NEW b \in past, OnBlock(b), Idle', NEW t \in Tracked
  PROVE  /\ past' = {head'} /\ TipOr0' <= Number(head')
         /\ rec'[t] # None => rec'[t].last <= TipOr0' /\ rec'[t].streak <= quiet'[t]
         /\ Honest(t)
<1>1. /\ b = head /\ head' = head /\ past' = past /\ tip' = b /\ b \in Chains
      /\ b # None /\ Number(b) \in Nat
  BY NumberNat DEF Quiet, OnBlock, IInv, TypeOK
<1>2. TipOr0' = Number(b)
  BY <1>1 DEF TipOr0
<1>3. TipOr0 \in Nat /\ TipOr0 <= Number(b)
  BY <1>1, TipOr0Nat DEF Quiet, IInv, TypeOK
<1>4. past' = {head'} /\ TipOr0' <= Number(head')
  BY <1>1, <1>2 DEF Quiet
<1>5. CASE rec[t] = None
  <2>1. rec'[t] = None
    BY <1>5, OnBlockPasses
  <2> QED
    BY <1>4, <1>5, <2>1 DEF Honest
<1>6. CASE rec[t] # None
  <2>1. PICK r, w :
          /\ Steady(rec[t], r) /\ r.last \in {rec[t].last, Number(b)}
          /\ w.unseen <=> told[t].unseen
          /\ \/ rec'[t] = None /\ told'[t] = Stopped
             \/ /\ rec'[t] # None
                /\ Passed(r, w, quiet[t], t, b, rec'[t], told'[t], quiet'[t])
    BY <1>6, OnBlockPasses DEF Idle
  <2>2. /\ rec[t].streak \in Nat /\ rec[t].threshold \in Nat /\ rec[t].last \in Int
        /\ rec[t].last <= TipOr0 /\ rec[t].streak <= quiet[t] /\ quiet[t] \in Nat
    BY <1>6, RecordOf, ConstantsAssumption
    DEF IInv, TypeOK, Quiet, ConstantsAssumption
  <2>3. r.streak = rec[t].streak /\ r.threshold = rec[t].threshold
        /\ r.last <= Number(b) /\ r.last \in Int
    BY <1>1, <1>3, <2>1, <2>2 DEF Steady
  <2>4. CASE rec'[t] = None /\ told'[t] = Stopped
    <3>1. ~told'[t].unseen
      BY <2>4 DEF Stopped, NothingTold
    <3> QED
      BY <1>4, <2>4, <3>1 DEF Honest
  <2>5. CASE Passed(r, w, quiet[t], t, b, rec'[t], told'[t], quiet'[t])
    <3>1. rec'[t].last <= Number(b)
      BY <1>1, <2>3, <2>5 DEF Passed
    <3>2. CASE t \in Transactions(b)
      <4>1. ~Stale(r, b)
        BY <1>1, <2>3 DEF Stale
      <4>2. rec'[t].streak = 0 /\ quiet'[t] = 0
        BY <2>5, <3>2, <4>1 DEF Passed
      <4>3. told'[t].unseen <=> told[t].unseen
        BY <2>1, <2>5, <3>2 DEF Passed
      <4> QED
        BY <1>2, <1>4, <3>1, <4>2, <4>3 DEF Honest
    <3>3. CASE t \notin Transactions(b)
      <4>1. quiet'[t] = quiet[t] + 1
        BY <2>5, <3>3 DEF Passed
      <4>2. rec'[t].streak \in {0, rec[t].streak, rec[t].streak + 1}
        BY <2>3, <2>5 DEF Passed
      <4>3. rec'[t].streak <= quiet'[t]
        BY <2>2, <4>1, <4>2
      <4>4. told'[t].unseen => told[t].unseen \/ rec[t].streak + 1 = rec[t].threshold
        BY <2>1, <2>3, <2>5 DEF Passed
      <4>5. rec[t].streak + 1 = rec[t].threshold => quiet'[t] >= rec[t].threshold
        BY <2>2, <4>1
      <4>6. Honest(t)
        BY <4>4, <4>5 DEF Honest
      <4> QED
        BY <1>2, <1>4, <3>1, <4>3, <4>6
    <3> QED
      BY <3>2, <3>3
  <2> QED
    BY <2>1, <2>4, <2>5
<1> QED
  BY <1>5, <1>6

LEMMA OtherQuiet ==
  ASSUME IInv, Quiet, [Next]_vars, \A b \in past : ~OnBlock(b), NEW t \in Tracked
  PROVE  /\ tip' = tip
         /\ rec'[t] # None => rec'[t].last <= TipOr0 /\ rec'[t].streak <= quiet'[t]
         /\ told'[t].unseen => told[t].unseen
<1>t. /\ rec \in [Tracked -> Opt(Records)] /\ told \in [Tracked -> Notices]
      /\ quiet \in [Tracked -> Nat] /\ TypeOK /\ TipOr0 \in Nat
  BY TipOr0Nat DEF IInv, TypeOK
<1>r. rec[t] # None => rec[t].last <= TipOr0 /\ rec[t].streak <= quiet[t]
  BY DEF Quiet
<1>s. CASE tip' = tip /\ rec' = rec /\ told' = told /\ quiet' = quiet
  BY <1>r, <1>s
<1>1. ASSUME NEW u \in Tracked, NEW n \in Thresholds, Subscribe(u, n)
      PROVE  /\ tip' = tip
             /\ rec'[t] # None => rec'[t].last <= TipOr0 /\ rec'[t].streak <= quiet'[t]
             /\ told'[t].unseen => told[t].unseen
  <2>0. tip' = tip
    BY <1>1 DEF Subscribe
  <2>1. CASE rec[u] = None
    <3> DEFINE s == NewRecord(records[u] + 1, n)
    <3>1. /\ rec' = [rec EXCEPT ![u] = s] /\ told' = [told EXCEPT ![u] = NothingTold]
          /\ quiet' = [quiet EXCEPT ![u] = 0]
      BY <1>1, <2>1 DEF Subscribe
    <3>2. s.last = -1 /\ s.streak = 0 /\ ~NothingTold.unseen
      BY DEF NewRecord, NothingTold, Never
    <3> HIDE DEF s
    <3>3. CASE t = u
      <4>1. rec'[t] = s /\ quiet'[t] = 0 /\ told'[t] = NothingTold
        BY <1>t, <3>1, <3>3
      <4>2. -1 <= TipOr0
        BY <1>t
      <4> QED
        BY <2>0, <3>2, <4>1, <4>2
    <3>4. CASE t # u
      <4>1. rec'[t] = rec[t] /\ quiet'[t] = quiet[t] /\ told'[t] = told[t]
        BY <1>t, <3>1, <3>4
      <4> QED
        BY <1>r, <2>0, <4>1
    <3> QED
      BY <3>3, <3>4
  <2>2. CASE rec[u] # None
    <3> DEFINE s == [rec[u] EXCEPT !.threshold = n]
    <3>1. rec' = [rec EXCEPT ![u] = s] /\ told' = told /\ quiet' = quiet
      BY <1>1, <2>2 DEF Subscribe
    <3>2. s.last = rec[u].last /\ s.streak = rec[u].streak
      BY <2>2, <1>t, RecordOf DEF Records
    <3> HIDE DEF s
    <3>3. CASE t = u
      <4>1. rec'[t] = s
        BY <1>t, <3>1, <3>3
      <4> QED
        BY <1>r, <2>0, <2>2, <3>1, <3>2, <3>3, <4>1
    <3>4. CASE t # u
      <4>1. rec'[t] = rec[t]
        BY <1>t, <3>1, <3>4
      <4> QED
        BY <1>r, <2>0, <3>1, <4>1
    <3> QED
      BY <3>3, <3>4
  <2> QED
    BY <2>1, <2>2
<1>2. ASSUME NEW u \in Tracked, Release(u)
      PROVE  /\ tip' = tip
             /\ rec'[t] # None => rec'[t].last <= TipOr0 /\ rec'[t].streak <= quiet'[t]
             /\ told'[t].unseen => told[t].unseen
  <2>1. /\ rec' = [rec EXCEPT ![u] = None] /\ told' = [told EXCEPT ![u] = Stopped]
        /\ tip' = tip /\ quiet' = quiet
    BY <1>2 DEF Release
  <2>2. ~Stopped.unseen
    BY DEF Stopped, NothingTold
  <2>3. CASE t = u
    <3>1. rec'[t] = None /\ told'[t] = Stopped
      BY <1>t, <2>1, <2>3
    <3> QED
      BY <2>1, <2>2, <3>1
  <2>4. CASE t # u
    <3>1. rec'[t] = rec[t] /\ told'[t] = told[t]
      BY <1>t, <2>1, <2>4
    <3> QED
      BY <1>r, <2>1, <3>1
  <2> QED
    BY <2>3, <2>4
<1>3. ASSUME NEW s \in Pools, OnMempool(s)
      PROVE  /\ tip' = tip
             /\ rec'[t] # None => rec'[t].last <= TipOr0 /\ rec'[t].streak <= quiet'[t]
             /\ told'[t].unseen => told[t].unseen
  <2> DEFINE d == [u \in Live |-> DecideMempool(rec[u], u, s, TipOr0)]
  <2>1. /\ rec' = [u \in Tracked |-> IF u \in Live THEN d[u].rec ELSE None]
        /\ told' = [u \in Tracked |->
                      IF u \in Live THEN Hear(told[u], d[u].events) ELSE told[u]]
        /\ quiet' = [u \in Tracked |-> IF s[u] = None THEN quiet[u] ELSE 0]
        /\ tip' = tip
    BY <1>3 DEF OnMempool
  <2>2. CASE t \notin Live
    BY <2>1, <2>2
  <2>3. CASE t \in Live
    <3>1. /\ rec'[t] = DecideMempool(rec[t], t, s, TipOr0).rec
          /\ told'[t] = Hear(told[t], DecideMempool(rec[t], t, s, TipOr0).events)
          /\ quiet'[t] = IF s[t] = None THEN quiet[t] ELSE 0
      BY <2>1, <2>3
    <3>2. rec[t] # None /\ s[t] \in Opt(Buckets)
      BY <2>3, ConstantsAssumption DEF ConstantsAssumption, Snapshots, Live, Opt
    <3>3. rec[t] \in Records /\ told[t] \in Notices /\ rec[t].last \in Int
      BY <1>t, <3>2, RecordOf
    <3>4. Presented(rec[t], s[t], TipOr0, DecideMempool(rec[t], t, s, TipOr0))
      BY <1>t, <3>2, <3>3, DecideMempoolCounts
    <3>5. told'[t].unseen <=> told[t].unseen
      BY <3>1, <3>3, <3>4, HearCounts DEF Presented
    <3>6. rec'[t].last <= TipOr0
      BY <1>r, <1>t, <3>1, <3>2, <3>3, <3>4 DEF Presented
    <3>7. rec'[t].streak <= quiet'[t]
      BY <1>r, <3>1, <3>2, <3>4 DEF Presented
    <3> QED
      BY <2>1, <3>5, <3>6, <3>7
  <2> QED
    BY <2>2, <2>3
<1>4. CASE AdoptHead \/ SourceRestarts \/ CapsChange
  BY <1>4, <1>s DEF AdoptHead, SourceRestarts, CapsChange, tracker
<1>5. CASE UNCHANGED vars
  BY <1>5, <1>s DEF vars, tracker
<1> QED
  BY <1>1, <1>2, <1>3, <1>4, <1>5 DEF Next, Idle, Quiet

LEMMA HeadQuiet ==
  ASSUME InOrder, IInv, Quiet, Idle, [Next]_vars, \A b \in past : ~OnBlock(b)
  PROVE  past' = {head'} /\ TipOr0' <= Number(head')
<1>0. TipOr0 \in Nat /\ Number(head) \in Nat /\ TipOr0 <= Number(head)
  BY TipOr0Nat, NumberNat DEF IInv, TypeOK, Quiet
<1>1. CASE AdoptHead
  <2>1. PICK b \in Chains :
          Number(b) >= Number(head) /\ head' = b /\ past' = {b} /\ tip' = tip
    BY <1>1 DEF AdoptHead, tracker
  <2>2. Number(b) \in Nat
    BY NumberNat
  <2>3. TipOr0' = TipOr0
    BY <2>1 DEF TipOr0
  <2> QED
    BY <1>0, <2>1, <2>2, <2>3
<1>2. CASE head' = head /\ past' = past /\ tip' = tip
  BY <1>0, <1>2 DEF Quiet, TipOr0
<1>3. AdoptHead \/ (head' = head /\ past' = past /\ tip' = tip)
  BY DEF Next, vars, node, tracker, SourceRestarts, CapsChange, Subscribe, Release,
         OnMempool, Idle
<1> QED
  BY <1>1, <1>2, <1>3

LEMMA QuietStep ==
  ASSUME BlocksAndPools, InOrder, IInv, Quiet, [Next]_vars
  PROVE  Quiet' /\ \A t \in Tracked : Honest(t)
<1>1. Idle /\ Idle'
  BY StaysIdle DEF Quiet
<1>2. CASE \E b \in past : OnBlock(b)
  <2>1. PICK b \in past : OnBlock(b)
    BY <1>2
  <2>2. past' = {head'} /\ TipOr0' <= Number(head')
    <3>1. /\ b = head /\ head' = head /\ past' = past /\ tip' = b /\ b \in Chains
      BY <2>1 DEF Quiet, OnBlock, IInv, TypeOK
    <3>2. b # None /\ Number(b) \in Nat
      BY <3>1, NumberNat
    <3> QED
      BY <3>1, <3>2 DEF Quiet, TipOr0
  <2>3. \A t \in Tracked :
          /\ rec'[t] # None => rec'[t].last <= TipOr0' /\ rec'[t].streak <= quiet'[t]
          /\ Honest(t)
    BY <1>1, <2>1, OnBlockQuiet
  <2> QED
    BY <1>1, <2>2, <2>3 DEF Quiet
<1>3. CASE \A b \in past : ~OnBlock(b)
  <2>1. past' = {head'} /\ TipOr0' <= Number(head')
    BY <1>1, <1>3, HeadQuiet
  <2>2. \A t \in Tracked :
          /\ tip' = tip
          /\ rec'[t] # None => rec'[t].last <= TipOr0 /\ rec'[t].streak <= quiet'[t]
          /\ told'[t].unseen => told[t].unseen
    BY <1>3, OtherQuiet
  <2>3. \A t \in Tracked :
          rec'[t] # None => rec'[t].last <= TipOr0' /\ rec'[t].streak <= quiet'[t]
    BY <2>2 DEF TipOr0
  <2>4. \A t \in Tracked : Honest(t)
    BY <2>2 DEF Honest
  <2> QED
    BY <1>1, <2>1, <2>3, <2>4 DEF Quiet
<1> QED
  BY <1>2, <1>3

\* unseen-for-N-blocks fires only after N quiet blocks, when the tracker goes by
\* blocks and snapshots alone and the feed never hands out an older block.  A
\* status poll that finds the transaction refutes it.
THEOREM UnseenAlwaysHonest == BlocksAndPools /\ InOrder => (Spec => UnseenHonest)
<1> SUFFICES ASSUME BlocksAndPools, InOrder PROVE Spec => UnseenHonest
  OBVIOUS
<1>1. Init => Quiet
  <2> SUFFICES ASSUME Init PROVE Quiet
    OBVIOUS
  <2>1. TipOr0 = 0 /\ head \in Chains
    BY DEF Init, TipOr0
  <2>2. TipOr0 <= Number(head)
    BY <2>1, NumberNat
  <2> QED
    BY <2>2 DEF Init, Quiet, Idle
<1>2. IInv /\ Quiet /\ [Next]_vars => Quiet'
  BY QuietStep
<1>3. IInv /\ Quiet /\ [Next]_vars =>
        [\A t \in Live :
           told'[t].unseen /\ ~told[t].unseen => quiet'[t] >= rec[t].threshold]_vars
  BY QuietStep DEF Honest, Live
<1> QED
  BY <1>1, <1>2, <1>3, AlwaysIInv, PTL DEF Spec, UnseenHonest
================================================================================
