---------------------------- MODULE GasOracleProofs ----------------------------
(***************************************************************************)
(* When GasOracle listens, and what its ring and its reorg events are, for *)
(* every value of the constants.                                           *)
(***************************************************************************)
EXTENDS GasOracle, WellFoundedInduction, FiniteSetTheorems, TLAPS

-----------------------------------------------------------------------------
\* The least member of a set of naturals, which stands for induction.

LEMMA HasLeast ==
  ASSUME NEW T \in SUBSET Nat, T # {}
  PROVE  \E x \in T : \A y \in T : x <= y
<1>1. OpToRel(<, Nat) = {p \in Nat \X Nat : p[1] < p[2]}
  BY DEF OpToRel
<1>2. PICK x \in T : \A y \in T : ~(<<y, x>> \in {p \in Nat \X Nat : p[1] < p[2]})
  BY <1>1, WFMin, NatLessThanWellFounded
<1>3. \A y \in T : ~(y < x)
  BY <1>2
<1> QED
  BY <1>3

\* A set that holds 0, and i + 1 whenever it holds i below n, holds 0..n.
LEMMA Ascends ==
  ASSUME NEW n \in Nat, NEW T \in SUBSET (0..n),
         0 \in T, \A i \in 0..(n - 1) : i \in T => i + 1 \in T
  PROVE  T = 0..n
<1> DEFINE Missing == (0..n) \ T
<1> SUFFICES ASSUME Missing # {} PROVE FALSE
  OBVIOUS
<1>0. Missing \in SUBSET Nat
  OBVIOUS
<1>1. PICK k \in Missing : \A i \in Missing : k <= i
  BY <1>0, HasLeast
<1>2. k - 1 \in 0..(n - 1) /\ k - 1 \in 0..n /\ (k - 1) + 1 = k /\ ~(k <= k - 1)
  BY <1>1
<1>3. k - 1 \notin Missing
  <2> HIDE DEF Missing
  <2> QED
    BY <1>1, <1>2
<1>4. k \in T
  BY <1>2, <1>3
<1> QED
  BY <1>1, <1>4

-----------------------------------------------------------------------------
\* What a ring of blocks keeps when it incorporates one more.

\* A ring of blocks of C without a gap, within its window.
Whole(ring, C, cap) ==
  /\ ring \in Seq(C)
  /\ Dense(ring)
  /\ cap > 0 => Len(ring) <= cap

Holds(ring, b) == \E i \in 1..Len(ring) : ring[i] = b

\* The matched entry is the newest that is not above b.
LEMMA Matched ==
  ASSUME NEW F, NEW C \in SUBSET Seq(F), NEW ring \in Seq(C), NEW b \in C
  PROVE  LET m == MatchIndex(ring, b)
         IN /\ m \in 0..Len(ring)
            /\ m > 0 => Number(ring[m]) <= Number(b)
            /\ \A j \in (m + 1)..Len(ring) : Number(ring[j]) > Number(b)
<1> DEFINE Above(i) == \A j \in (i + 1)..Len(ring) : Number(ring[j]) > Number(b)
           T == {i \in 0..Len(ring) : Above(i)}
<1>1. Number(b) \in Nat /\ \A i \in 1..Len(ring) : Number(ring[i]) \in Nat
  BY DEF Number
<1>2. T \in SUBSET Nat /\ Len(ring) \in T
  OBVIOUS
<1>3. PICK k \in T : \A i \in T : k <= i
  BY <1>2, HasLeast
<1>4. k > 0 => Number(ring[k]) <= Number(b)
  <2> SUFFICES ASSUME k > 0, ~(Number(ring[k]) <= Number(b)) PROVE FALSE
    OBVIOUS
  <2>1. k - 1 \in 0..Len(ring) /\ k \in 1..Len(ring)
    BY <1>3
  <2>2. Number(ring[k]) > Number(b)
    BY <1>1, <2>1
  <2>3. Above(k - 1)
    BY <1>3, <2>1, <2>2
  <2>4. k - 1 \in T
    BY <2>1, <2>3
  <2>5. \A i \in T : k <= i
    BY <1>3
  <2> HIDE DEF T
  <2>6. k <= k - 1 /\ k \in Int
    BY <2>1, <2>4, <2>5
  <2> QED
    BY <2>6
<1> QED
  BY <1>3, <1>4 DEF MatchIndex

\* The end of a sequence.
LEMMA EndOf ==
  ASSUME NEW C, NEW s \in Seq(C), NEW cut \in Nat, NEW n \in Nat, cut + n = Len(s)
  PROVE  LET new == SubSeq(s, cut + 1, Len(s))
         IN new \in Seq(C) /\ Len(new) = n /\ \A i \in 1..n : new[i] = s[cut + i]
  OBVIOUS

\* Cutting a ring to its window keeps it without a gap, and keeps its tip.
LEMMA Capped ==
  ASSUME NEW C, NEW ring \in Seq(C), Dense(ring), NEW cap \in Nat, ring # <<>>
  PROVE  LET new == CapTail(ring, cap)
         IN Whole(new, C, cap) /\ Holds(new, ring[Len(ring)])
<1>1. CASE cap = 0 \/ Len(ring) <= cap
  BY <1>1 DEF CapTail, Whole, Holds
<1>2. CASE ~(cap = 0 \/ Len(ring) <= cap)
  <2> DEFINE cut == Len(ring) - cap
             new == SubSeq(ring, cut + 1, Len(ring))
  <2>1. /\ cap \in Nat /\ cap > 0 /\ cut \in Nat /\ cut + cap = Len(ring)
        /\ CapTail(ring, cap) = new
    BY <1>2 DEF CapTail
  <2>2. new \in Seq(C) /\ Len(new) = cap /\ \A i \in 1..cap : new[i] = ring[cut + i]
    BY <2>1, EndOf
  <2> HIDE DEF new, cut
  <2>3. Dense(new)
    BY <2>1, <2>2 DEF Dense
  <2>4. Holds(new, ring[Len(ring)])
    BY <2>1, <2>2 DEF Holds
  <2> QED
    BY <2>1, <2>2, <2>3, <2>4 DEF Whole
<1> QED
  BY <1>1, <1>2

\* What a graft leaves, if b is next after the last block that stays.
LEMMA Grafted ==
  ASSUME NEW C, NEW ring \in Seq(C), Dense(ring), NEW cap \in Nat, NEW b \in C,
         NEW k \in 0..Len(ring), k > 0 => Number(b) = Number(ring[k]) + 1
  PROVE  LET mutation == Graft(ring, k, b, cap)
         IN /\ Whole(mutation.ring, C, cap) /\ Holds(mutation.ring, b)
            /\ mutation.dropped \in Seq(C)
            /\ mutation.dropped = SubSeq(ring, k + 1, Len(ring))
<1> DEFINE kept == SubSeq(ring, 1, k)
           long == Append(kept, b)
<1>1. kept \in Seq(C) /\ Len(kept) = k /\ \A i \in 1..k : kept[i] = ring[i]
  OBVIOUS
<1> HIDE DEF kept
<1>2. /\ long \in Seq(C) /\ Len(long) = k + 1 /\ long[k + 1] = b
      /\ \A i \in 1..k : long[i] = ring[i]
  BY <1>1
<1> HIDE DEF long
<1>3. Dense(long)
  BY <1>2 DEF Dense
<1>4. long # <<>>
  BY <1>2
<1>5. Whole(CapTail(long, cap), C, cap) /\ Holds(CapTail(long, cap), b)
  BY <1>2, <1>3, <1>4, Capped
<1>6. SubSeq(ring, k + 1, Len(ring)) \in Seq(C)
  OBVIOUS
<1> QED
  BY <1>5, <1>6 DEF Graft, Mutation, long, kept

\* The ring of one block.
LEMMA Restarted ==
  ASSUME NEW C, NEW b \in C, NEW cap \in Nat
  PROVE  Whole(<<b>>, C, cap) /\ Holds(<<b>>, b)
  BY DEF Whole, Holds, Dense

LEMMA OwnAncestor ==
  ASSUME NEW F, NEW b \in Seq(F)
  PROVE  Ancestor(b, Number(b)) = b
  BY DEF Ancestor, Number

LEMMA OneLess ==
  ASSUME NEW F, NEW b \in Seq(F), b # <<>>
  PROVE  Number(b) \in Nat \ {0} /\ Number(b) = Number(Parent(b)) + 1
<1>1. Len(b) \in Nat /\ Len(b) # 0
  OBVIOUS
<1> DEFINE n == Len(b) - 1
<1>2. n \in 0..Len(b) /\ Len(b) = n + 1
  BY <1>1
<1> HIDE DEF n
<1>3. Len(SubSeq(b, 1, n)) = n
  BY <1>2
<1> QED
  BY <1>1, <1>2, <1>3 DEF Parent, Ancestor, Number, n

\* The ring with one more block is whole, holds the block, and what it dropped is
\* no ancestor of the block.
LEMMA Incorporates ==
  ASSUME NEW F, NEW C \in SUBSET (Seq(F) \ {<<>>}), NEW b \in C, NEW cap \in Nat,
         NEW ring, Whole(ring, C, cap)
  PROVE  LET mutation == IncorporateBlock(ring, b, cap)
         IN /\ Whole(mutation.ring, C, cap) /\ Holds(mutation.ring, b)
            /\ mutation.dropped \in Seq(C)
            /\ \A i \in 1..Len(mutation.dropped) : ~IsAncestor(mutation.dropped[i], b)
<1> DEFINE m == MatchIndex(ring, b)
           mutation == IncorporateBlock(ring, b, cap)
           Goal(new) == /\ Whole(new.ring, C, cap) /\ Holds(new.ring, b)
                        /\ new.dropped \in Seq(C)
                        /\ \A i \in 1..Len(new.dropped) : ~IsAncestor(new.dropped[i], b)
<1> SUFFICES Goal(mutation)
  OBVIOUS
<1>1. ring \in Seq(C) /\ Dense(ring) /\ C \in SUBSET Seq(F)
  BY DEF Whole
<1>2. /\ m \in 0..Len(ring)
      /\ m > 0 => Number(ring[m]) <= Number(b)
      /\ \A j \in (m + 1)..Len(ring) : Number(ring[j]) > Number(b)
  BY <1>1, Matched
<1>3. /\ b \in Seq(F) /\ b # <<>> /\ Number(b) \in Nat
      /\ \A j \in 1..Len(ring) : ring[j] \in Seq(F) /\ Number(ring[j]) \in Nat
  BY <1>1 DEF Number
<1> HIDE DEF m
<1>4. \A j \in (m + 1)..Len(ring) : ~IsAncestor(ring[j], b)
  BY <1>2, <1>3 DEF IsAncestor, Number
<1>5. Goal(Mutation(<<b>>, <<>>))
  BY Restarted DEF Mutation
<1>6. CASE m = 0
  <2>1. mutation = Mutation(<<b>>, <<>>)
    BY <1>6 DEF IncorporateBlock, m
  <2> QED
    BY <2>1, <1>5
<1>7. CASE m # 0 /\ ring[m] = b
  <2>1. mutation = Mutation(ring, <<>>)
    BY <1>7 DEF IncorporateBlock, m
  <2>2. Holds(ring, b)
    BY <1>2, <1>7 DEF Holds
  <2> QED
    BY <2>1, <2>2 DEF Mutation
<1>8. CASE m # 0 /\ ring[m] # b /\ Number(ring[m]) = Number(b)
  <2> DEFINE k == m - 1
  <2>1. mutation = Graft(ring, k, b, cap)
    BY <1>8 DEF IncorporateBlock, m
  <2>2. k \in 0..Len(ring) /\ m = k + 1 /\ (k > 0 => Number(b) = Number(ring[k]) + 1)
    BY <1>1, <1>2, <1>8 DEF Dense
  <2> HIDE DEF k, mutation
  <2>3. /\ Whole(mutation.ring, C, cap) /\ Holds(mutation.ring, b)
        /\ mutation.dropped \in Seq(C) /\ mutation.dropped = SubSeq(ring, m, Len(ring))
    <3>1. mutation.dropped = SubSeq(ring, k + 1, Len(ring))
      BY <1>1, <2>1, <2>2, Grafted
    <3> QED
      BY <1>1, <2>1, <2>2, <3>1, Grafted
  <2>4. ~IsAncestor(ring[m], b)
    BY <1>2, <1>3, <1>8, OwnAncestor DEF IsAncestor, Number
  <2>5. \A j \in m..Len(ring) : ~IsAncestor(ring[j], b)
    BY <1>2, <1>4, <2>4
  <2>6. /\ Len(mutation.dropped) = Len(ring) - m + 1
        /\ \A i \in 1..Len(mutation.dropped) : mutation.dropped[i] = ring[m + i - 1]
    BY <1>1, <1>2, <1>8, <2>3
  <2>7. \A i \in 1..Len(mutation.dropped) : m + i - 1 \in m..Len(ring)
    BY <1>1, <1>2, <2>6
  <2>8. \A i \in 1..Len(mutation.dropped) : ~IsAncestor(mutation.dropped[i], b)
    BY <2>5, <2>6, <2>7
  <2> QED
    BY <2>3, <2>8
<1>9. CASE m # 0 /\ Number(ring[m]) # Number(b) /\ ring[m] = Parent(b)
  <2>1. mutation = Graft(ring, m, b, cap)
    BY <1>9 DEF IncorporateBlock, m
  <2>2. Number(b) = Number(ring[m]) + 1
    BY <1>3, <1>9, OneLess
  <2>3. /\ Whole(mutation.ring, C, cap) /\ Holds(mutation.ring, b)
        /\ mutation.dropped \in Seq(C) /\ mutation.dropped = SubSeq(ring, m + 1, Len(ring))
    BY <1>1, <1>2, <2>1, <2>2, Grafted
  <2>4. /\ Len(mutation.dropped) = Len(ring) - m
        /\ \A i \in 1..Len(mutation.dropped) : mutation.dropped[i] = ring[m + i]
    BY <1>1, <1>2, <1>9, <2>3
  <2> HIDE DEF mutation
  <2>5. \A i \in 1..Len(mutation.dropped) : m + i \in (m + 1)..Len(ring)
    BY <1>1, <1>2, <2>4
  <2>6. \A i \in 1..Len(mutation.dropped) : ~IsAncestor(mutation.dropped[i], b)
    BY <1>4, <2>4, <2>5
  <2> QED
    BY <2>3, <2>6
<1>10. CASE /\ m # 0 /\ ring[m] # b /\ Number(ring[m]) # Number(b)
            /\ ring[m] # Parent(b)
  <2>1. mutation = Mutation(<<b>>, <<>>)
    BY <1>10 DEF IncorporateBlock, m
  <2> QED
    BY <2>1, <1>5
<1> QED
  BY <1>6, <1>7, <1>8, <1>9, <1>10

\* Numbers rise by one from each entry to the next, so they rise with the index.
LEMMA Rising ==
  ASSUME NEW F, NEW C \in SUBSET Seq(F), NEW ring \in Seq(C), Dense(ring)
  PROVE  \A i \in 1..Len(ring) : Number(ring[i]) = Number(ring[1]) + i - 1
<1> DEFINE Right == {i \in 0..Len(ring) : i > 0 => Number(ring[i]) = Number(ring[1]) + i - 1}
<1>1. \A i \in 1..Len(ring) : Number(ring[i]) \in Nat
  BY DEF Number
<1>2. ASSUME NEW i \in 0..(Len(ring) - 1), i \in Right PROVE i + 1 \in Right
  <2>1. i + 1 \in 1..Len(ring) /\ 1 \in 1..Len(ring)
    BY <1>2
  <2>2. CASE i = 0
    BY <1>1, <2>1, <2>2
  <2>3. CASE i # 0
    <3>1. Number(ring[i + 1]) = Number(ring[i]) + 1
      BY <1>2, <2>3 DEF Dense
    <3>2. Number(ring[i]) = Number(ring[1]) + i - 1
      BY <1>2, <2>3
    <3>3. Number(ring[1]) \in Nat
      BY <1>1, <2>1
    <3> QED
      BY <2>1, <3>1, <3>2, <3>3
  <2> QED
    BY <2>2, <2>3
<1>3. 0 \in Right /\ Right \in SUBSET (0..Len(ring)) /\ Len(ring) \in Nat
  OBVIOUS
<1>4. Right = 0..Len(ring)
  <2> HIDE DEF Right
  <2> QED
    BY <1>2, <1>3, Ascends
<1>5. \A i \in 1..Len(ring) : i \in Right /\ i > 0
  BY <1>4
<1> QED
  BY <1>5

\* A graft after the parent of b leaves one chain.
LEMMA GraftLinks ==
  ASSUME NEW C, NEW ring \in Seq(C), Linked(ring), NEW cap \in Nat, NEW b \in C,
         NEW k \in 1..Len(ring), ring[k] = Parent(b)
  PROVE  Linked(Graft(ring, k, b, cap).ring)
<1> DEFINE kept == SubSeq(ring, 1, k)
           long == Append(kept, b)
<1>1. kept \in Seq(C) /\ Len(kept) = k /\ \A i \in 1..k : kept[i] = ring[i]
  OBVIOUS
<1> HIDE DEF kept
<1>2. /\ long \in Seq(C) /\ Len(long) = k + 1 /\ long[k + 1] = b
      /\ \A i \in 1..k : long[i] = ring[i]
  BY <1>1
<1> HIDE DEF long
<1>3. Linked(long)
  BY <1>2 DEF Linked
<1>4. Linked(CapTail(long, cap))
  <2>1. CASE cap = 0 \/ Len(long) <= cap
    BY <1>3, <2>1 DEF CapTail
  <2>2. CASE ~(cap = 0 \/ Len(long) <= cap)
    <3> DEFINE cut == Len(long) - cap
               new == SubSeq(long, cut + 1, Len(long))
    <3>1. /\ cap > 0 /\ cut \in Nat /\ cut + cap = Len(long)
          /\ CapTail(long, cap) = new
      BY <1>2, <2>2 DEF CapTail
    <3>2. /\ new \in Seq(C) /\ Len(new) = cap
          /\ \A i \in 1..cap : new[i] = long[cut + i]
      BY <1>2, <3>1, EndOf
    <3> HIDE DEF new, cut
    <3>3. \A i \in 1..(cap - 1) : /\ cut + i \in 1..(Len(long) - 1)
                                  /\ new[i] = long[cut + i] /\ new[i + 1] = long[(cut + i) + 1]
      BY <1>2, <3>1, <3>2
    <3> QED
      BY <1>3, <3>1, <3>2, <3>3 DEF Linked
  <2> QED
    BY <2>1, <2>2
<1> QED
  BY <1>4 DEF Graft, Mutation, long, kept

\* A block whose parent the ring holds leaves one chain.
LEMMA Joins ==
  ASSUME NEW F, NEW C \in SUBSET (Seq(F) \ {<<>>}), NEW b \in C, NEW cap \in Nat,
         NEW ring, Whole(ring, C, cap), Linked(ring), Holds(ring, Parent(b))
  PROVE  Linked(IncorporateBlock(ring, b, cap).ring)
<1> DEFINE m == MatchIndex(ring, b)
           mutation == IncorporateBlock(ring, b, cap)
<1>1. ring \in Seq(C) /\ Dense(ring) /\ C \in SUBSET Seq(F) /\ b \in Seq(F) /\ b # <<>>
  BY DEF Whole
<1>2. /\ m \in 0..Len(ring)
      /\ m > 0 => Number(ring[m]) <= Number(b)
      /\ \A j \in (m + 1)..Len(ring) : Number(ring[j]) > Number(b)
  BY <1>1, Matched
<1>3. PICK p \in 1..Len(ring) : ring[p] = Parent(b)
  BY DEF Holds
<1>4. Number(b) \in Nat /\ Number(b) = Number(ring[p]) + 1
  BY <1>1, <1>3, OneLess
<1>5. \A j \in 1..Len(ring) : Number(ring[j]) = Number(ring[p]) + j - p
  <2>1. \A j \in 1..Len(ring) : Number(ring[j]) = Number(ring[1]) + j - 1
    BY <1>1, Rising
  <2>2. Number(ring[1]) \in Nat
    BY <1>1, <1>3 DEF Number
  <2> QED
    BY <1>3, <2>1, <2>2
<1> HIDE DEF m
<1>6. m \in {p, p + 1} /\ m \in 1..Len(ring)
  <2>0. Number(ring[p]) \in Nat
    BY <1>1, <1>3 DEF Number
  <2>1. p <= m
    BY <1>2, <1>3, <1>4, <2>0
  <2>2. m \in 1..Len(ring)
    BY <1>2, <1>3, <2>1
  <2>3. Number(ring[m]) = Number(ring[p]) + m - p /\ Number(ring[m]) <= Number(ring[p]) + 1
    BY <1>2, <1>4, <1>5, <2>2
  <2> QED
    BY <1>3, <2>0, <2>1, <2>2, <2>3
<1>7. CASE ring[m] = b
  <2>1. mutation = Mutation(ring, <<>>)
    BY <1>6, <1>7 DEF IncorporateBlock, m
  <2> QED
    BY <2>1 DEF Mutation
<1>8. CASE ring[m] # b /\ Number(ring[m]) = Number(b)
  <2>1. mutation = Graft(ring, m - 1, b, cap)
    BY <1>6, <1>8 DEF IncorporateBlock, m
  <2>2. m = p + 1
    BY <1>4, <1>5, <1>6, <1>8
  <2>3. mutation = Graft(ring, p, b, cap)
    BY <1>3, <2>1, <2>2
  <2> QED
    BY <1>1, <1>3, <2>3, GraftLinks
<1>9. CASE ring[m] # b /\ Number(ring[m]) # Number(b)
  <2>1. m = p
    <3>1. CASE m = p + 1
      BY <1>4, <1>5, <1>6, <1>9, <3>1
    <3> QED
      BY <1>6, <3>1
  <2>2. mutation = Graft(ring, m, b, cap)
    BY <1>3, <1>6, <1>9, <2>1 DEF IncorporateBlock, m
  <2> QED
    BY <1>1, <1>3, <2>1, <2>2, GraftLinks
<1> QED
  BY <1>7, <1>8, <1>9

-----------------------------------------------------------------------------
\* When the oracle listens.

\* The part of the state that decides about listening.  Two facts make it
\* inductive: the visibility listener is there exactly while an oracle that
\* heeds the tab is started, and only an oracle that lingers has a stale timer.
Lifecycle ==
  /\ options \in OptionSet
  /\ hidden \in BOOLEAN /\ started \in BOOLEAN
  /\ listening = (started /\ options.pauseWhenHidden)
  /\ attached \in BOOLEAN
  /\ staleTimer => options.lingers
  /\ ListensWhenWanted
  /\ QuietWhenUnwanted

LEMMA LifecycleInit == Init => Lifecycle
  BY ConstantsAssumption DEF Init, Lifecycle, OptionSet, ListensWhenWanted,
     QuietWhenUnwanted, Wanted

\* A step that touches nothing of the lifecycle keeps it.
LEMMA LifecycleStutter ==
  Lifecycle /\ UNCHANGED <<options, idling>> => Lifecycle'
  BY DEF Lifecycle, idling, ListensWhenWanted, QuietWhenUnwanted, Wanted, Showing, Reason

LEMMA LifecycleStep == Lifecycle /\ [Next]_vars => Lifecycle'
<1> SUFFICES ASSUME Lifecycle, [Next]_vars PROVE Lifecycle'
  OBVIOUS
<1> USE DEF Lifecycle, OptionSet, ListensWhenWanted, QuietWhenUnwanted, Wanted,
            Showing, Reason
<1>1. CASE Start
  BY <1>1 DEF Start, Attach, Stay
<1>2. CASE Stop
  BY <1>2 DEF Stop, Detach
<1>3. ASSUME NEW c \in Consumers, Subscribe(c) PROVE Lifecycle'
  <2>1. subscribers' # {}
    BY <1>3 DEF Subscribe
  <2>2. CASE started /\ options.pauseWhenIdle /\ Cardinality(subscribers') = 1 /\ Showing(hidden)
    BY <1>3, <2>1, <2>2 DEF Subscribe, Attach
  <2>3. CASE ~(started /\ options.pauseWhenIdle /\ Cardinality(subscribers') = 1 /\ Showing(hidden))
    <3>1. UNCHANGED <<attached, staleTimer>>
      BY <1>3, <2>3 DEF Subscribe, Stay
    <3>2. started /\ options.pauseWhenIdle /\ Showing(hidden) => subscribers # {}
      BY <1>3, <2>3, FS_EmptySet, FS_AddElement DEF Subscribe
    <3> QED
      BY <1>3, <2>1, <3>1, <3>2 DEF Subscribe
  <2> QED
    BY <2>2, <2>3
<1>4. ASSUME NEW c \in Consumers, Unsubscribe(c) PROVE Lifecycle'
  <2>1. CASE started /\ options.pauseWhenIdle /\ subscribers' = {}
    BY <1>4, <2>1 DEF Unsubscribe, ScheduleIdleDetach, Detach
  <2>2. CASE ~(started /\ options.pauseWhenIdle /\ subscribers' = {})
    BY <1>4, <2>2 DEF Unsubscribe, Stay
  <2> QED
    BY <2>1, <2>2
<1>5. CASE StaleTimerFires
  BY <1>5 DEF StaleTimerFires, Detach
<1>6. CASE VisibilityChange
  BY <1>6 DEF VisibilityChange, Detach, Attach, Stay
<1>7. CASE AdoptHead \/ HandleBlock \/ PollOnce \/ UNCHANGED vars
  BY <1>7, LifecycleStutter DEF AdoptHead, HandleBlock, PollOnce, vars
<1>8. ASSUME NEW s \in Slots,
             FetchByNumber(s) \/ FetchByHash(s) \/ PollAnswered(s) \/ ReduceAndPublish(s)
      PROVE  Lifecycle'
  BY <1>8, LifecycleStutter DEF FetchByNumber, FetchByHash, PollAnswered, ReduceAndPublish
<1> QED
  BY <1>1, <1>2, <1>3, <1>4, <1>5, <1>6, <1>7, <1>8 DEF Next

LEMMA LifecycleHolds == Spec => []Lifecycle
<1>1. Init => Lifecycle
  BY LifecycleInit
<1>2. Lifecycle /\ [Next]_vars => Lifecycle'
  BY LifecycleStep
<1> QED
  BY <1>1, <1>2, PTL DEF Spec

\* Whatever the order of start, stop, subscribe, unsubscribe, visibility changes
\* and stale timers, an oracle without staleAfter listens while it is wanted.
THEOREM AlwaysListensWhenWanted == Spec => []ListensWhenWanted
<1>1. Lifecycle => ListensWhenWanted
  BY DEF Lifecycle
<1> QED
  BY <1>1, LifecycleHolds, PTL

\* The oracle causes no RPC traffic without a reason, in every configuration.
THEOREM AlwaysQuietWhenUnwanted == Spec => []QuietWhenUnwanted
<1>1. Lifecycle => QuietWhenUnwanted
  BY DEF Lifecycle
<1> QED
  BY <1>1, LifecycleHolds, PTL

-----------------------------------------------------------------------------
(* The merge of a bridge into the ring. *)

\* The loop's result is the last value of a function that takes one block a step.
LEMMA MergedIs ==
  ASSUME NEW was, NEW blocks, Len(blocks) \in Nat
  PROVE  \E acc : /\ acc = [i \in 0..Len(blocks) |->
                             IF i = 0 THEN was ELSE Incorporated(acc[i - 1], blocks[i])]
                  /\ Merged(was, blocks) = acc[Len(blocks)]
<1> DEFINE n == Len(blocks)
           Round(g, i) == IF i = 0 THEN was ELSE Incorporated(g[i - 1], blocks[i])
           Good(g, k) == g = [i \in 0..k |-> Round(g, i)]
           Built == {k \in 0..n : \E g : Good(g, k)}
<1>1. 0 \in Built
  <2> DEFINE h == [i \in 0..0 |-> was]
  <2>1. Good(h, 0)
    OBVIOUS
  <2>2. 0 \in 0..n
    OBVIOUS
  <2> HIDE DEF Good, n, h
  <2> QED
    BY <2>1, <2>2
<1>2. ASSUME NEW k \in 0..(n - 1), k \in Built PROVE k + 1 \in Built
  <2>1. PICK g : Good(g, k)
    BY <1>2
  <2> DEFINE h == [i \in 0..(k + 1) |-> Round(g, i)]
  <2>2. \A j \in 0..k : g[j] = Round(g, j) /\ h[j] = Round(g, j)
    BY <2>1
  <2>3. \A i \in 0..(k + 1) : i # 0 => h[i - 1] = g[i - 1]
    <3> HIDE DEF h, Round
    <3> QED
      BY <2>2
  <2>4. \A i \in 0..(k + 1) : Round(h, i) = Round(g, i)
    <3> HIDE DEF h
    <3> QED
      BY <2>3
  <2>5. Good(h, k + 1)
    <3> HIDE DEF Round
    <3> QED
      BY <2>4
  <2>6. k + 1 \in 0..n
    OBVIOUS
  <2> HIDE DEF Good, n, h
  <2> QED
    BY <2>5, <2>6
<1>3. n \in Built
  <2>1. Built \in SUBSET (0..n)
    OBVIOUS
  <2> HIDE DEF Built
  <2>2. Built = 0..n
    BY <1>1, <1>2, <2>1, Ascends
  <2> QED
    BY <2>2
<1> DEFINE acc == CHOOSE g : Good(g, n)
<1>4. Good(acc, n)
  <2>1. \E g : Good(g, n)
    BY <1>3
  <2> HIDE DEF Good
  <2> QED
    BY <2>1, Zenon
<1>5. Merged(was, blocks) = acc[n]
  BY DEF Merged
<1> HIDE DEF acc
<1> QED
  BY <1>4, <1>5

\* What one round of the loop keeps.
Working(w) ==
  /\ Whole(w.ring, Chains, Window)
  /\ w.lastReorg \in Opt(Reorgs)
  /\ w.lastReorg # None =>
       \A i \in 1..Len(w.lastReorg.dropped) :
         ~IsAncestor(w.lastReorg.dropped[i], w.lastReorg.newTip)

LEMMA Constants ==
  /\ Chains \in SUBSET (Seq(Forks) \ {<<>>}) /\ Chains \in SUBSET Seq(Forks)
  /\ Window \in Nat
  BY ConstantsAssumption

LEMMA RoundKeeps ==
  ASSUME NEW w, Working(w), NEW b \in Chains
  PROVE  Working(Incorporated(w, b)) /\ Holds(Incorporated(w, b).ring, b)
<1> DEFINE mutation == IncorporateBlock(w.ring, b, Window)
<1>1. /\ Whole(mutation.ring, Chains, Window) /\ Holds(mutation.ring, b)
      /\ mutation.dropped \in Seq(Chains)
      /\ \A i \in 1..Len(mutation.dropped) : ~IsAncestor(mutation.dropped[i], b)
  BY Constants, Incorporates DEF Working
<1>2. Number(b) \in Nat
  BY Constants DEF Number
<1> HIDE DEF mutation
<1>3. Reorg(b, mutation.dropped) \in Reorgs
  BY <1>1, <1>2 DEF Reorg, Reorgs
<1>4. Incorporated(w, b) =
        [ring |-> mutation.ring,
         lastReorg |-> IF mutation.dropped = <<>> THEN w.lastReorg
                       ELSE Reorg(b, mutation.dropped)]
  BY DEF Incorporated, mutation
<1>5. CASE mutation.dropped = <<>>
  BY <1>1, <1>4, <1>5 DEF Working
<1>6. CASE mutation.dropped # <<>>
  <2>1. /\ Incorporated(w, b).ring = mutation.ring
        /\ Incorporated(w, b).lastReorg = Reorg(b, mutation.dropped)
    BY <1>4, <1>6
  <2>2. Reorg(b, mutation.dropped).dropped = mutation.dropped /\ Reorg(b, mutation.dropped).newTip = b
    BY DEF Reorg
  <2> QED
    BY <1>1, <1>3, <2>1, <2>2 DEF Working, Opt
<1> QED
  BY <1>5, <1>6

\* What the loop keeps, and that the last block ends in the ring.
LEMMA MergedKeeps ==
  ASSUME NEW was, Working(was), NEW blocks \in Seq(Chains), blocks # <<>>
  PROVE  /\ Working(Merged(was, blocks))
         /\ Holds(Merged(was, blocks).ring, blocks[Len(blocks)])
<1>1. PICK acc : /\ acc = [i \in 0..Len(blocks) |->
                           IF i = 0 THEN was ELSE Incorporated(acc[i - 1], blocks[i])]
                /\ Merged(was, blocks) = acc[Len(blocks)]
  BY MergedIs
<1> DEFINE n == Len(blocks)
           Kept == {i \in 0..n : Working(acc[i])}
<1>2. n \in Nat \ {0} /\ acc[0] = was
  BY <1>1
<1>3. \A i \in 0..(n - 1) : /\ acc[i + 1] = Incorporated(acc[i], blocks[i + 1])
                            /\ blocks[i + 1] \in Chains
  BY <1>1, <1>2
<1> HIDE DEF n
<1>4. Kept \in SUBSET (0..n) /\ 0 \in Kept
  BY <1>2
<1>5. ASSUME NEW i \in 0..(n - 1), i \in Kept PROVE i + 1 \in Kept
  <2>1. Working(acc[i + 1])
    BY <1>3, <1>5, RoundKeeps
  <2> QED
    BY <1>2, <2>1
<1>6. Kept = 0..n
  <2> HIDE DEF Kept
  <2> QED
    BY <1>2, <1>4, <1>5, Ascends
<1>7. n - 1 \in Kept /\ n - 1 \in 0..(n - 1) /\ (n - 1) + 1 = n
  BY <1>2, <1>6
<1>8. acc[n] = Incorporated(acc[n - 1], blocks[n]) /\ blocks[n] \in Chains
  BY <1>3, <1>7
<1>9. Working(acc[n]) /\ Holds(acc[n].ring, blocks[n])
  BY <1>7, <1>8, RoundKeeps
<1> QED
  BY <1>1, <1>9 DEF n

\* A branch that starts after a block of a linked ring leaves it linked.
LEMMA MergedJoins ==
  ASSUME NEW was, Working(was), NEW blocks \in Seq(Chains), blocks # <<>>,
         Linked(was.ring), Linked(blocks), Holds(was.ring, Parent(blocks[1]))
  PROVE  Linked(Merged(was, blocks).ring)
<1>1. PICK acc : /\ acc = [i \in 0..Len(blocks) |->
                           IF i = 0 THEN was ELSE Incorporated(acc[i - 1], blocks[i])]
                /\ Merged(was, blocks) = acc[Len(blocks)]
  BY MergedIs
<1> DEFINE n == Len(blocks)
           Joined(i) == /\ Working(acc[i]) /\ Linked(acc[i].ring)
                        /\ i < n => Holds(acc[i].ring, Parent(blocks[i + 1]))
           Kept == {i \in 0..n : Joined(i)}
<1>2. n \in Nat \ {0} /\ acc[0] = was
  BY <1>1
<1>3. \A i \in 0..(n - 1) : /\ acc[i + 1] = Incorporated(acc[i], blocks[i + 1])
                            /\ blocks[i + 1] \in Chains
  BY <1>1, <1>2
<1>4. \A i \in 1..(n - 1) : blocks[i] = Parent(blocks[i + 1])
  BY DEF Linked
<1> HIDE DEF n
<1>5. Kept \in SUBSET (0..n) /\ 0 \in Kept
  BY <1>2
<1>6. ASSUME NEW i \in 0..(n - 1), i \in Kept PROVE i + 1 \in Kept
  <2> DEFINE b == blocks[i + 1]
  <2>1. b \in Chains /\ acc[i + 1] = Incorporated(acc[i], b)
    BY <1>3
  <2>2. Working(acc[i]) /\ Linked(acc[i].ring) /\ Holds(acc[i].ring, Parent(b))
    BY <1>2, <1>6
  <2> HIDE DEF b
  <2>3. Working(acc[i + 1]) /\ Holds(acc[i + 1].ring, b)
    BY <2>1, <2>2, RoundKeeps
  <2>4. acc[i + 1].ring = IncorporateBlock(acc[i].ring, b, Window).ring
    BY <2>1 DEF Incorporated
  <2>5. Linked(acc[i + 1].ring)
    BY <2>1, <2>2, <2>4, Constants, Joins DEF Working
  <2>6. i + 1 < n => Parent(blocks[(i + 1) + 1]) = b
    BY <1>2, <1>4 DEF b
  <2>7. Joined(i + 1)
    BY <2>3, <2>5, <2>6
  <2> HIDE DEF Joined
  <2> QED
    BY <1>2, <2>7
<1>7. Kept = 0..n
  <2> HIDE DEF Kept
  <2> QED
    BY <1>2, <1>5, <1>6, Ascends
<1>8. n \in Kept
  BY <1>2, <1>7
<1> QED
  BY <1>1, <1>8 DEF n

-----------------------------------------------------------------------------
(* Types, the ring and the reorg events. *)

IInv == TypeOK /\ RingWhole /\ ReorgReal

LEMMA TaskKinds ==
  ASSUME NEW tk \in Tasks
  PROVE  /\ tk.at \in {"byNumber", "byHash", "ready"} =>
              tk.block \in Chains /\ tk.missing \in Seq(Chains)
         /\ tk.at \in {"byNumber", "byHash"} => tk.seen \in SUBSET Chains
         /\ tk.at = "byNumber" => tk.tip \in Chains
  BY DEF Tasks, Idle, Latest, Task

LEMMA TaskTypes ==
  ASSUME NEW b \in Chains, NEW missing \in Seq(Chains), NEW seen \in SUBSET Chains
  PROVE  /\ Ready(b, missing) \in Tasks
         /\ Task("byHash", b, seen, None, missing) \in Tasks
         /\ \A t \in Chains : Task("byNumber", b, seen, t, missing) \in Tasks
  BY DEF Tasks, Task, Ready

LEMMA ChainParts ==
  ASSUME NEW b \in Chains
  PROVE  /\ Number(b) \in Nat \ {0}
         /\ \A n \in 1..Number(b) : Ancestor(b, n) \in Chains
         /\ Parent(b) # <<>> => Parent(b) \in Chains
<1>1. b \in Seq(Forks) /\ b # <<>>
  BY ConstantsAssumption
<1>2. Number(b) \in Nat \ {0}
  BY <1>1 DEF Number
<1>3. \A n \in 1..Number(b) : Ancestor(b, n) \in Chains
  BY ConstantsAssumption
<1>4. ASSUME Parent(b) # <<>> PROVE Parent(b) \in Chains
  <2>1. CASE Number(b) = 1
    <3>1. Parent(b) = SubSeq(b, 1, 0)
      BY <2>1 DEF Parent, Ancestor, Number
    <3> QED
      BY <1>1, <1>4, <3>1
  <2>2. CASE Number(b) # 1
    <3>1. Number(b) - 1 \in 1..Number(b)
      BY <1>2, <2>2
    <3> QED
      BY <1>3, <3>1 DEF Parent, Number
  <2> QED
    BY <2>1, <2>2
<1> QED
  BY <1>2, <1>3, <1>4

LEMMA StateParts ==
  ASSUME IInv, state # None
  PROVE  /\ state.block \in Chains
         /\ Whole(state.ring, Chains, Window) /\ Holds(state.ring, state.block)
         /\ Working([ring |-> state.ring, lastReorg |-> state.lastReorg])
<1>1. state \in States
  BY DEF IInv, TypeOK, Opt
<1>2. state.block \in Chains /\ state.ring \in Seq(Chains) /\ state.lastReorg \in Opt(Reorgs)
  BY <1>1 DEF States
<1> QED
  BY <1>2 DEF IInv, RingWhole, ReorgReal, Whole, Holds, Working

LEMMA BridgeType ==
  ASSUME IInv, NEW b \in Chains
  PROVE  Bridge(b) \in Tasks
<1> DEFINE seen == Range(state.ring)
           tip == Last(state.ring)
<1>1. <<>> \in Seq(Chains) /\ {} \in SUBSET Chains
  OBVIOUS
<1>2. Ready(b, <<>>) \in Tasks
  BY <1>1, TaskTypes
<1>3. CASE state = None
  BY <1>2, <1>3 DEF Bridge
<1>4. CASE state # None
  <2>1. state.ring \in Seq(Chains) /\ \E i \in 1..Len(state.ring) : TRUE
    BY <1>4, StateParts DEF Whole, Holds
  <2>2. seen \in SUBSET Chains /\ tip \in Chains
    BY <2>1 DEF Range, Last
  <2> HIDE DEF seen, tip
  <2>3. /\ Task("byHash", b, seen, None, <<>>) \in Tasks
        /\ Task("byNumber", b, seen, tip, <<>>) \in Tasks
    BY <1>1, <2>2, TaskTypes
  <2>4. Bridge(b) \in {Ready(b, <<>>), Task("byHash", b, seen, None, <<>>),
                      Task("byNumber", b, seen, tip, <<>>)}
    BY <1>4 DEF Bridge, seen, tip
  <2> QED
    BY <1>2, <2>3, <2>4
<1> QED
  BY <1>3, <1>4

LEMMA InitInv == Init => IInv
<1> SUFFICES ASSUME Init PROVE IInv
  OBVIOUS
<1>1. Idle \in Tasks
  BY DEF Tasks
<1>2. count \in [{"adopts", "handOuts", "starts", "polls"} -> Nat]
  BY DEF Init
<1>3. head \in Chains /\ task \in [Slots -> Tasks]
  BY <1>1 DEF Init
<1>4. TypeOK
  BY <1>2, <1>3 DEF Init, TypeOK, Opt
<1> QED
  BY <1>4 DEF Init, IInv, RingWhole, ReorgReal

\* The steps that leave the tasks and the state alone, or clear the state.
LEMMA LifecycleTypes ==
  ASSUME IInv,
         \/ AdoptHead \/ Start \/ Stop \/ StaleTimerFires \/ VisibilityChange
         \/ \E c \in Consumers : Subscribe(c) \/ Unsubscribe(c)
         \/ UNCHANGED vars
  PROVE  IInv'
<1> USE DEF IInv, TypeOK
<1>1. CASE AdoptHead
  BY <1>1 DEF AdoptHead, Bumped, idling, RingWhole, ReorgReal
<1>2. CASE Start
  <2>1. options.pauseWhenHidden \in BOOLEAN
    BY ConstantsAssumption DEF OptionSet
  <2>2. attached' \in BOOLEAN /\ UNCHANGED <<staleTimer, handed>>
    BY <1>2 DEF Start, Attach, Stay
  <2>3. count' \in [{"adopts", "handOuts", "starts", "polls"} -> Nat]
    BY <1>2 DEF Start, Bumped
  <2> QED
    BY <1>2, <2>1, <2>2, <2>3 DEF Start, RingWhole, ReorgReal
<1>3. CASE Stop
  BY <1>3 DEF Stop, Detach, Opt, RingWhole, ReorgReal
<1>4. CASE StaleTimerFires
  BY <1>4 DEF StaleTimerFires, Detach, Opt, RingWhole, ReorgReal
<1>5. CASE VisibilityChange
  BY <1>5 DEF VisibilityChange, Detach, Attach, Stay, Opt, RingWhole, ReorgReal
<1>6. ASSUME NEW c \in Consumers, Subscribe(c) PROVE IInv'
  BY <1>6 DEF Subscribe, Attach, Stay, Opt, RingWhole, ReorgReal
<1>7. ASSUME NEW c \in Consumers, Unsubscribe(c) PROVE IInv'
  BY <1>7 DEF Unsubscribe, ScheduleIdleDetach, Detach, Stay, Opt, RingWhole, ReorgReal
<1>8. CASE UNCHANGED vars
  BY <1>8 DEF vars, node, idling, RingWhole, ReorgReal
<1> QED
  BY <1>1, <1>2, <1>3, <1>4, <1>5, <1>6, <1>7, <1>8

\* A step that only gives a task a new value.
LEMMA TaskStep ==
  ASSUME IInv, NEW s \in Slots, NEW tk \in Tasks, task' = [task EXCEPT ![s] = tk],
         UNCHANGED <<options, node, idling, state>>
  PROVE  IInv'
  BY DEF IInv, TypeOK, node, idling, RingWhole, ReorgReal

LEMMA FetchStep ==
  ASSUME IInv, NEW s \in Slots,
         FetchByNumber(s) \/ FetchByHash(s) \/ PollAnswered(s)
  PROVE  IInv'
<1> DEFINE tk == task[s]
<1>1. tk \in Tasks /\ head \in Chains /\ <<>> \in Seq(Chains)
  BY DEF IInv, TypeOK
<1>2. CASE FetchByNumber(s)
  <2> DEFINE n == Number(tk.tip) + Len(tk.missing) + 1
             grown(x) == IF x = None THEN tk.missing ELSE Append(tk.missing, x)
  <2>1. /\ tk.block \in Chains /\ tk.seen \in SUBSET Chains /\ tk.tip \in Chains
        /\ tk.missing \in Seq(Chains) /\ tk.at = "byNumber"
    BY <1>1, <1>2, TaskKinds DEF FetchByNumber
  <2>2. n \in Nat \ {0} /\ Number(head) \in Nat
    BY <1>1, <2>1, ChainParts
  <2>3. n <= Number(head) => Ancestor(head, n) \in Chains
    BY <1>1, <2>2, ChainParts
  <2>4. PICK x \in IF n <= Number(head) THEN Answers(Ancestor(head, n)) ELSE {None} :
          LET missing == grown(x)
              joined  == /\ n + 1 = Number(tk.block) /\ x = Parent(tk.block)
                         /\ Parent(missing[1]) \in tk.seen
          IN task' = [task EXCEPT ![s] =
               IF x # None /\ joined THEN Ready(tk.block, missing)
               ELSE IF x = None \/ n + 1 = Number(tk.block)
               THEN Task("byHash", tk.block, tk.seen, None, <<>>)
               ELSE [tk EXCEPT !.missing = missing]]
    BY <1>2 DEF FetchByNumber
  <2> HIDE DEF n
  <2>5. x \in Chains \cup {None}
    BY <2>3, <2>4 DEF Answers
  <2>6. grown(x) \in Seq(Chains)
    BY <2>1, <2>5
  <2> HIDE DEF grown
  <2>7. [tk EXCEPT !.missing = grown(x)] \in Tasks
    BY <1>1, <2>1, <2>6 DEF Tasks, Idle, Latest, Task
  <2>8. /\ Ready(tk.block, grown(x)) \in Tasks
        /\ Task("byHash", tk.block, tk.seen, None, <<>>) \in Tasks
    BY <1>1, <2>1, <2>6, TaskTypes
  <2>9. UNCHANGED <<options, node, idling, state>>
    BY <1>2 DEF FetchByNumber
  <2> HIDE DEF tk
  <2> QED
    BY <2>4, <2>7, <2>8, <2>9, TaskStep
<1>3. CASE FetchByHash(s)
  <2> DEFINE cursor == Parent(IF tk.missing = <<>> THEN tk.block ELSE tk.missing[1])
             grown(x) == IF x = None THEN tk.missing ELSE <<x>> \o tk.missing
  <2>1. /\ tk.block \in Chains /\ tk.seen \in SUBSET Chains
        /\ tk.missing \in Seq(Chains) /\ tk.at = "byHash"
    BY <1>1, <1>3, TaskKinds DEF FetchByHash
  <2>2. cursor # <<>> => cursor \in Chains
    <3>1. tk.missing # <<>> => tk.missing[1] \in Chains
      BY <2>1
    <3> QED
      BY <2>1, <3>1, ChainParts
  <2>3. PICK x \in IF cursor = <<>> THEN {None} ELSE Answers(cursor) :
          LET missing == grown(x)
          IN task' = [task EXCEPT ![s] =
               IF x = None \/ Parent(x) \in tk.seen \/ Len(missing) = Window
               THEN Ready(tk.block, missing)
               ELSE [tk EXCEPT !.missing = missing]]
    BY <1>3 DEF FetchByHash
  <2> HIDE DEF cursor
  <2>4. x \in Chains \cup {None}
    BY <2>2, <2>3 DEF Answers
  <2>5. grown(x) \in Seq(Chains)
    BY <2>1, <2>4
  <2> HIDE DEF grown
  <2>6. [tk EXCEPT !.missing = grown(x)] \in Tasks
    BY <1>1, <2>1, <2>5 DEF Tasks, Idle, Latest, Task
  <2>7. Ready(tk.block, grown(x)) \in Tasks
    BY <2>1, <2>5, TaskTypes
  <2>8. UNCHANGED <<options, node, idling, state>>
    BY <1>3 DEF FetchByHash
  <2> HIDE DEF tk
  <2> QED
    BY <2>3, <2>6, <2>7, <2>8, TaskStep
<1>4. CASE PollAnswered(s)
  <2>1. PICK x \in Answers(head) :
          task' = [task EXCEPT ![s] = IF x = None THEN Idle ELSE Bridge(x)]
    BY <1>4 DEF PollAnswered
  <2>2. Idle \in Tasks
    BY DEF Tasks
  <2>3. x # None => Bridge(x) \in Tasks
    BY <1>1, <2>1, BridgeType DEF Answers
  <2>4. UNCHANGED <<options, node, idling, state>>
    BY <1>4 DEF PollAnswered
  <2> QED
    BY <2>1, <2>2, <2>3, <2>4, TaskStep
<1> QED
  BY <1>2, <1>3, <1>4

LEMMA ArrivalStep ==
  ASSUME IInv, HandleBlock \/ PollOnce
  PROVE  IInv'
<1>1. \A s \in Slots : \A tk \in Tasks : [task EXCEPT ![s] = tk] \in [Slots -> Tasks]
  BY DEF IInv, TypeOK
<1>2. Latest \in Tasks /\ Bridge(head) \in Tasks /\ IdleSlots \in SUBSET Slots
  BY BridgeType DEF Tasks, IInv, TypeOK, IdleSlots
<1>3. task' \in [Slots -> Tasks]
  <2>1. CASE HandleBlock
    BY <1>1, <1>2, <2>1 DEF HandleBlock, IInv, TypeOK
  <2>2. CASE PollOnce
    BY <1>1, <1>2, <2>2 DEF PollOnce
  <2> QED
    BY <2>1, <2>2
<1>4. /\ UNCHANGED <<options, head, idling, state>> /\ handed' \in {head, handed}
      /\ count' \in [{"adopts", "handOuts", "starts", "polls"} -> Nat]
  BY DEF HandleBlock, PollOnce, Bumped, IInv, TypeOK
<1> QED
  BY <1>3, <1>4 DEF IInv, TypeOK, Opt, idling, RingWhole, ReorgReal

LEMMA BranchType ==
  ASSUME NEW tk, tk.block \in Chains, tk.missing \in Seq(Chains)
  PROVE  /\ Branch(tk) \in Seq(Chains) /\ Branch(tk) # <<>>
         /\ Branch(tk)[Len(Branch(tk))] = tk.block
  BY DEF Branch

LEMMA PublishStep ==
  ASSUME IInv, NEW s \in Slots, ReduceAndPublish(s)
  PROVE  IInv'
<1> DEFINE tk == task[s]
           was == IF state = None THEN [ring |-> <<>>, lastReorg |-> None]
                  ELSE [ring |-> state.ring, lastReorg |-> state.lastReorg]
           is == Merged(was, Branch(tk))
<1>1. tk.block \in Chains /\ tk.missing \in Seq(Chains)
  BY TaskKinds DEF ReduceAndPublish, IInv, TypeOK
<1>2. /\ Branch(tk) \in Seq(Chains) /\ Branch(tk) # <<>>
      /\ Branch(tk)[Len(Branch(tk))] = tk.block
  BY <1>1, BranchType
<1>3. Working(was)
  <2>1. CASE state = None
    BY <2>1, Constants DEF Working, Whole, Dense, Opt
  <2>2. CASE state # None
    BY <2>2, StateParts
  <2> QED
    BY <2>1, <2>2
<1>4. /\ state' = [block |-> tk.block, ring |-> is.ring, lastReorg |-> is.lastReorg]
      /\ task' = [task EXCEPT ![s] = Idle] /\ UNCHANGED <<options, node, idling>>
  BY DEF ReduceAndPublish
<1> HIDE DEF was
<1>5. Working(is) /\ Holds(is.ring, tk.block)
  BY <1>2, <1>3, MergedKeeps
<1> HIDE DEF is, tk
<1>6. state' \in States
  BY <1>1, <1>4, <1>5 DEF States, Working, Whole
<1>7. TypeOK'
  <2>1. task' \in [Slots -> Tasks]
    BY <1>4 DEF IInv, TypeOK, Tasks
  <2> QED
    BY <1>4, <1>6, <2>1 DEF IInv, TypeOK, Opt, node, idling
<1>8. RingWhole'
  BY <1>4, <1>5 DEF RingWhole, Working, Whole, Holds
<1>9. ReorgReal'
  BY <1>4, <1>5 DEF ReorgReal, Working
<1> QED
  BY <1>7, <1>8, <1>9 DEF IInv

LEMMA IInvStep == IInv /\ [Next]_vars => IInv'
  BY LifecycleTypes, FetchStep, ArrivalStep, PublishStep DEF Next

LEMMA IInvHolds == Spec => []IInv
<1>1. Init => IInv
  BY InitInv
<1>2. IInv /\ [Next]_vars => IInv'
  BY IInvStep
<1> QED
  BY <1>1, <1>2, PTL DEF Spec

\* Every variable keeps its type.
THEOREM TypeCorrect == Spec => []TypeOK
<1>1. IInv => TypeOK
  BY DEF IInv
<1> QED
  BY <1>1, IInvHolds, PTL

\* The published ring has no gap, keeps to its window and holds the block of its
\* state, whatever the node answered and however the calls in flight overlap.
THEOREM RingAlwaysWhole == Spec => []RingWhole
<1>1. IInv => RingWhole
  BY DEF IInv
<1> QED
  BY <1>1, IInvHolds, PTL

\* No reorg event ever reports an ancestor of its new tip as dropped.
THEOREM ReorgsAlwaysReal == Spec => []ReorgReal
<1>1. IInv => ReorgReal
  BY DEF IInv
<1> QED
  BY <1>1, IInvHolds, PTL

\* Nothing but its publication ends a task that is ready.
LEMMA OnlyPublishing ==
  ASSUME IInv, [Next]_vars, NEW s \in Slots, task[s].at = "ready", task'[s] = Idle
  PROVE  ReduceAndPublish(s)
<1>1. task \in [Slots -> Tasks] /\ task[s] # Idle
  BY DEF IInv, TypeOK, Idle
<1>2. \A t \in Slots : \A e : t # s => task' # [task EXCEPT ![t] = e]
  BY <1>1
<1>3. task' # task
  BY <1>1
<1>4. \A t \in Slots : ~FetchByNumber(t)
  BY <1>1, <1>2 DEF FetchByNumber
<1>5. \A t \in Slots : ~FetchByHash(t)
  BY <1>1, <1>2 DEF FetchByHash
<1>6. \A t \in Slots : ~PollAnswered(t)
  BY <1>1, <1>2 DEF PollAnswered
<1>7. \A t \in Slots : t # s => ~ReduceAndPublish(t)
  BY <1>1, <1>2 DEF ReduceAndPublish
<1>8. s \notin IdleSlots /\ IdleSlots \in SUBSET Slots
  BY <1>1 DEF IdleSlots
<1>9. ~HandleBlock
  BY <1>2, <1>3, <1>8 DEF HandleBlock
<1>10. ~PollOnce
  BY <1>2, <1>8 DEF PollOnce
<1>11. ~(AdoptHead \/ Start \/ Stop \/ StaleTimerFires \/ VisibilityChange \/ UNCHANGED vars)
  BY <1>3 DEF AdoptHead, Start, Stop, StaleTimerFires, VisibilityChange, vars
<1>12. \A c \in Consumers : ~Subscribe(c) /\ ~Unsubscribe(c)
  BY <1>3 DEF Subscribe, Unsubscribe
<1> QED
  BY <1>4, <1>5, <1>6, <1>7, <1>9, <1>10, <1>11, <1>12 DEF Next

\* A connected bridge keeps the ring one chain, whatever was published meanwhile.
THEOREM BridgesAlwaysJoin == Spec => BridgeJoins
<1> DEFINE Kept == \A s \in Slots :
             /\ task[s].at = "ready" /\ task'[s] = Idle
             /\ state # None /\ Linked(state.ring)
             /\ Linked(Branch(task[s])) /\ Parent(Branch(task[s])[1]) \in Range(state.ring)
             => Linked(state'.ring)
<1>1. IInv /\ [Next]_vars => [Kept]_vars
  <2> SUFFICES ASSUME IInv, [Next]_vars, vars' # vars, NEW s \in Slots,
                      task[s].at = "ready", task'[s] = Idle,
                      state # None, Linked(state.ring), Linked(Branch(task[s])),
                      Parent(Branch(task[s])[1]) \in Range(state.ring)
               PROVE  Linked(state'.ring)
    OBVIOUS
  <2> DEFINE was == [ring |-> state.ring, lastReorg |-> state.lastReorg]
             bridge == Branch(task[s])
  <2>1. ReduceAndPublish(s)
    BY OnlyPublishing
  <2>2. task[s].block \in Chains /\ task[s].missing \in Seq(Chains)
    BY TaskKinds DEF IInv, TypeOK
  <2>3. bridge \in Seq(Chains) /\ bridge # <<>>
    BY <2>2, BranchType
  <2>4. Working(was)
    BY StateParts
  <2>5. Holds(was.ring, Parent(bridge[1])) /\ Linked(was.ring)
    <3>1. state.ring \in Seq(Chains)
      BY StateParts DEF Whole
    <3> QED
      BY <3>1 DEF Range, Holds
  <2>6. state'.ring = Merged(was, bridge).ring
    BY <2>1 DEF ReduceAndPublish
  <2> HIDE DEF was, bridge
  <2>7. Linked(bridge)
    BY DEF bridge
  <2> QED
    BY <2>3, <2>4, <2>5, <2>6, <2>7, MergedJoins
<1>2. Spec => [][Kept]_vars
  BY <1>1, IInvHolds, PTL DEF Spec
<1> QED
  BY <1>2 DEF BridgeJoins
================================================================================
