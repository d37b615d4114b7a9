------------------------- MODULE UnchainedReaderProofs -------------------------
(***************************************************************************)
(* That the lanes of UnchainedReader are used to the full and no further,  *)
(* that its binary search finds what a table holds, and that an answer is  *)
(* complete if no gateway answers with a file cut off, for every value of  *)
(* the constants.                                                          *)
(***************************************************************************)
EXTENDS UnchainedReader, WellFoundedInduction, FiniteSetTheorems, TLAPS

-----------------------------------------------------------------------------
\* The least member of a set of naturals, which stands for induction.

LEMMA HasLeast ==
  ASSUME NEW T \in SUBSET Nat, T # {}
  PROVE  \E x \in T : \A y \in T : x <= y
<1>1. OpToRel(<, Nat) = {p \in Nat \X Nat : p[1] < p[2]}
  BY DEF OpToRel
<1>2. PICK x \in T : \A y \in T : ~(<<y, x>> \in {p \in Nat \X Nat : p[1] < p[2]})
  BY <1>1, WFMin, NatLessThanWellFounded
<1>3. \A y \in T : ~(y < x)
  BY <1>2
<1> QED
  BY <1>3

\* A set that holds 0, and i + 1 whenever it holds i below n, holds 0..n.
LEMMA Ascends ==
  ASSUME NEW n \in Nat, NEW T \in SUBSET (0..n),
         0 \in T, \A i \in 0..(n - 1) : i \in T => i + 1 \in T
  PROVE  T = 0..n
<1> DEFINE Missing == (0..n) \ T
<1> SUFFICES ASSUME Missing # {} PROVE FALSE
  OBVIOUS
<1>0. Missing \in SUBSET Nat
  OBVIOUS
<1>1. PICK k \in Missing : \A i \in Missing : k <= i
  BY <1>0, HasLeast
<1>2. k - 1 \in 0..(n - 1) /\ k - 1 \in 0..n /\ (k - 1) + 1 = k /\ ~(k <= k - 1)
  BY <1>1
<1>3. k - 1 \notin Missing
  <2> HIDE DEF Missing
  <2> QED
    BY <1>1, <1>2
<1>4. k \in T
  BY <1>2, <1>3
<1> QED
  BY <1>1, <1>4

Places == {"idle", "lookup", "queued", "fetching", "storing", "settled"}
TaskType ==
  [at : Places, file : Files, attempt : 0..MaxRetries, bytes : Answers \cup {None}]

-----------------------------------------------------------------------------
\* The lanes.

Fetching(l) == {t \in Tasks : At(t, "fetching") /\ Lane(t) = l}

\* Whoever waits is queued for that lane, and has one place: the slot that is
\* handed over is not one of a task that fetches already.
InLine(l) ==
  \A i \in 1..Len(queue[l]) :
    /\ task[queue[l][i]].at = "queued" /\ task[queue[l][i]].file = l
    /\ \A j \in 1..Len(queue[l]) : queue[l][i] = queue[l][j] => i = j

LanesInv ==
  /\ query \in [Queries -> {"idle", "manifest", "scanning", "returned", "rejected"}]
  /\ task \in [Tasks -> TaskType]
  /\ active \in [Files -> Nat]
  /\ queue \in [Files -> Seq(Tasks)]
  /\ cache \in [Chunks \X Files -> Answers \cup {None}]
  \* What ResolveManifest sets anew was not under way.
  /\ \A t \in Tasks : query[t[1]] \notin {"scanning", "returned"} => At(t, "idle")
  /\ \A l \in Files : InLine(l)
  /\ LanesBusy

LEMMA LanesInit == Init => LanesInv
<1> SUFFICES ASSUME Init PROVE LanesInv
  OBVIOUS
<1>1. Idle \in TaskType
  BY ReaderAssumption DEF Idle, Task, TaskType, Places, Files
<1>2. \A t \in Tasks : At(t, "idle") /\ ~At(t, "fetching")
  BY DEF Init, At, Idle, Task
<1>3. \A l \in Files : Fetching(l) = {}
  BY <1>2 DEF Fetching
<1>4. LanesBusy
  <2>1. \A l \in Files : Cardinality(Fetching(l)) = 0
    BY <1>3, FS_EmptySet
  <2> QED
    BY <2>1, ReaderAssumption DEF Init, LanesBusy, Fetching
<1>5. \A l \in Files : InLine(l)
  BY DEF Init, InLine
<1> QED
  BY <1>1, <1>2, <1>4, <1>5 DEF Init, LanesInv

LEMMA TasksFinite == IsFiniteSet(Tasks)
  BY ReaderAssumption, FS_Product DEF Tasks

LEMMA FetchingFinite == \A l \in Files : IsFiniteSet(Fetching(l))
<1>1. \A l \in Files : Fetching(l) \in SUBSET Tasks
  BY DEF Fetching
<1> QED
  BY <1>1, TasksFinite, FS_Subset

\* A step that touches one task, neither fetching nor queued before and after,
\* leaves the lanes as they are.
LEMMA LanesApart ==
  ASSUME LanesInv, NEW t \in Tasks, NEW new \in TaskType,
         task[t].at \in {"lookup", "storing"}, new.at \in {"lookup", "storing", "settled"},
         SetTask(t, new), UNCHANGED <<query, lanes>>,
         cache' \in [Chunks \X Files -> Answers \cup {None}]
  PROVE  LanesInv'
<1>1. /\ task' \in [Tasks -> TaskType] /\ task'[t] = new
      /\ \A s \in Tasks : s # t => task'[s] = task[s]
  BY DEF LanesInv, SetTask
<1>2. \A l \in Files : Fetching(l)' = Fetching(l)
  BY <1>1 DEF Fetching, At, Lane
<1>3. \A s \in Tasks : query'[s[1]] \notin {"scanning", "returned"} => At(s, "idle")'
  BY <1>1 DEF LanesInv, At
<1>4. ASSUME NEW l \in Files PROVE InLine(l)'
  <2>1. queue[l] \in Seq(Tasks) /\ queue'[l] = queue[l] /\ InLine(l)
    BY DEF LanesInv, lanes
  <2>2. \A i \in 1..Len(queue[l]) : queue[l][i] \in Tasks /\ queue[l][i] # t
    BY <2>1 DEF InLine
  <2> QED
    BY <1>1, <2>1, <2>2 DEF InLine
<1>5. LanesBusy'
  BY <1>2 DEF LanesInv, LanesBusy, Fetching, lanes
<1> QED
  BY <1>1, <1>3, <1>4, <1>5 DEF LanesInv, lanes

\* What processChunk makes of a file: the task is settled or looks up the next.
LEMMA ArrivedTask ==
  ASSUME NEW t \in Tasks, NEW bytes, Arrived(t, bytes)
  PROVE  \E new \in TaskType : new.at \in {"lookup", "settled"} /\ SetTask(t, new)
<1>1. /\ Settled \in TaskType /\ Task("lookup", "index") \in TaskType
      /\ Settled.at = "settled" /\ Task("lookup", "index").at = "lookup"
  BY ReaderAssumption DEF Settled, Task, TaskType, Places, Files
<1>2. SetTask(t, Settled) \/ SetTask(t, Task("lookup", "index"))
  BY DEF Arrived, Failed
<1> QED
  BY <1>1, <1>2

LEMMA OneMore ==
  ASSUME NEW S, IsFiniteSet(S), NEW x, x \notin S
  PROVE  Cardinality(S \cup {x}) = Cardinality(S) + 1
<1>1. Cardinality(S \cup {x}) = IF x \in S THEN Cardinality(S) ELSE Cardinality(S) + 1
  BY FS_AddElement
<1> QED
  BY <1>1

LEMMA OneLess ==
  ASSUME NEW S, IsFiniteSet(S), NEW x \in S
  PROVE  /\ IsFiniteSet(S \ {x}) /\ Cardinality(S \ {x}) = Cardinality(S) - 1
         /\ Cardinality(S \ {x}) \in Nat
<1>1. /\ IsFiniteSet(S \ {x})
      /\ Cardinality(S \ {x}) = IF x \in S THEN Cardinality(S) - 1 ELSE Cardinality(S)
  BY FS_RemoveElement
<1>2. Cardinality(S \ {x}) \in Nat
  BY <1>1, FS_CardinalityType
<1> QED
  BY <1>1, <1>2

\* A slot that is given back goes to the head of the queue, or is free.
LEMMA SlotGivenBack ==
  ASSUME LanesInv, NEW t \in Tasks, At(t, "fetching"), NEW new \in TaskType,
         new.at \in {"storing", "settled"}, Release(Lane(t), [task EXCEPT ![t] = new]),
         UNCHANGED <<query, cache>>
  PROVE  LanesInv'
<1> PICK l \in Files : l = Lane(t)
  BY DEF LanesInv, TaskType, Lane
<1> PICK after : after = [task EXCEPT ![t] = new]
  OBVIOUS
<1>1. /\ after \in [Tasks -> TaskType] /\ after[t] = new
      /\ \A s \in Tasks : s # t => after[s] = task[s]
  BY DEF LanesInv
<1>2. /\ t \in Fetching(l) /\ IsFiniteSet(Fetching(l))
      /\ active[l] = Cardinality(Fetching(l)) /\ active[l] <= Limit[l]
      /\ Limit[l] \in Nat /\ active[l] \in Nat
      /\ queue[l] # <<>> => active[l] = Limit[l]
  BY FetchingFinite, ReaderAssumption DEF Fetching, LanesInv, LanesBusy
<1>3. ASSUME NEW m \in Files PROVE queue[m] \in Seq(Tasks) /\ InLine(m)
  BY DEF LanesInv
<1>4. Release(l, after)
  OBVIOUS
<1>5. CASE queue[l] = <<>>
  <2>1. active' = [active EXCEPT ![l] = @ - 1] /\ task' = after /\ queue' = queue
    BY <1>4, <1>5 DEF Release
  <2>2. Fetching(l)' = Fetching(l) \ {t}
    BY <1>1, <2>1 DEF Fetching, At, Lane
  <2>3. \A m \in Files : m # l => Fetching(m)' = Fetching(m)
    BY <1>1, <2>1 DEF Fetching, At, Lane
  <2>4. Cardinality(Fetching(l)') = active[l] - 1 /\ active[l] - 1 \in Nat
    BY <1>2, <2>2, OneLess
  <2>5. /\ active' \in [Files -> Nat] /\ active'[l] = active[l] - 1
        /\ \A m \in Files : m # l => active'[m] = active[m]
    BY <2>1, <2>4 DEF LanesInv
  <2>6. ASSUME NEW m \in Files PROVE InLine(m)'
    <3>1. \A i \in 1..Len(queue[m]) : queue[m][i] \in Tasks /\ queue[m][i] # t
      BY <1>3 DEF InLine, At
    <3> QED
      BY <1>1, <1>3, <2>1, <3>1 DEF InLine
  <2>7. LanesBusy'
    <3> SUFFICES ASSUME NEW m \in Files
                 PROVE  /\ active'[m] = Cardinality(Fetching(m)')
                        /\ active'[m] <= Limit[m]
                        /\ queue'[m] # <<>> => active'[m] = Limit[m]
      BY DEF LanesBusy, Fetching
    <3>1. CASE m = l
      BY <1>2, <1>5, <2>1, <2>4, <2>5, <3>1
    <3>2. CASE m # l
      BY <2>1, <2>3, <2>5, <3>2 DEF LanesInv, LanesBusy, Fetching
    <3> QED
      BY <3>1, <3>2
  <2>8. \A s \in Tasks : query'[s[1]] \notin {"scanning", "returned"} => At(s, "idle")'
    BY <1>1, <2>1 DEF LanesInv, At
  <2> QED
    BY <1>1, <2>1, <2>5, <2>6, <2>7, <2>8 DEF LanesInv
<1>6. CASE queue[l] # <<>>
  <2> PICK h \in Tasks : h = Head(queue[l])
    BY <1>3, <1>6
  <2>1. /\ active' = active /\ task' = [after EXCEPT ![h] = Task("fetching", l)]
        /\ queue' = [queue EXCEPT ![l] = Tail(@)]
    BY <1>4, <1>6 DEF Release
  <2>2. 1 \in 1..Len(queue[l]) /\ queue[l][1] = h
    BY <1>3, <1>6
  <2>3. task[h].at = "queued" /\ task[h].file = l /\ h # t /\ h \notin Fetching(l)
    BY <1>3, <2>2 DEF InLine, At, Fetching
  <2>4. Task("fetching", l) \in TaskType /\ Task("fetching", l).at = "fetching"
        /\ Task("fetching", l).file = l
    BY ReaderAssumption DEF Task, TaskType, Places
  <2>5. /\ task' \in [Tasks -> TaskType] /\ task'[t] = new /\ task'[h] = Task("fetching", l)
        /\ \A s \in Tasks : s # t /\ s # h => task'[s] = task[s]
    BY <1>1, <2>1, <2>3, <2>4
  <2>6. Fetching(l)' = (Fetching(l) \ {t}) \cup {h}
    BY <2>3, <2>4, <2>5 DEF Fetching, At, Lane
  <2>7. \A m \in Files : m # l => Fetching(m)' = Fetching(m)
    BY <2>3, <2>4, <2>5 DEF Fetching, At, Lane
  <2>8. Cardinality(Fetching(l)') = active[l]
    <3>1. /\ IsFiniteSet(Fetching(l) \ {t}) /\ h \notin Fetching(l) \ {t}
          /\ Cardinality(Fetching(l) \ {t}) = active[l] - 1
      BY <1>2, <2>3, OneLess
    <3>2. Cardinality((Fetching(l) \ {t}) \cup {h}) = Cardinality(Fetching(l) \ {t}) + 1
      BY <3>1, OneMore
    <3>3. Cardinality((Fetching(l) \ {t}) \cup {h}) = (active[l] - 1) + 1
      BY <3>1, <3>2
    <3> QED
      BY <1>2, <2>6, <3>3
  <2>9. ASSUME NEW m \in Files PROVE queue'[m] \in Seq(Tasks) /\ InLine(m)'
    <3>1. CASE m = l
      <4>1. /\ queue'[l] = Tail(queue[l]) /\ queue'[l] \in Seq(Tasks)
            /\ Len(queue'[l]) = Len(queue[l]) - 1
            /\ \A i \in 1..Len(queue'[l]) : /\ i + 1 \in 1..Len(queue[l])
                                            /\ queue'[l][i] = queue[l][i + 1]
        BY <1>3, <1>6, <2>1 DEF LanesInv
      <4>2. ASSUME NEW i \in 1..Len(queue'[l])
            PROVE  queue'[l][i] \in Tasks /\ queue'[l][i] # t /\ queue'[l][i] # h
        <5>1. i + 1 \in 1..Len(queue[l]) /\ queue'[l][i] = queue[l][i + 1] /\ i + 1 # 1
          BY <4>1
        <5> QED
          BY <1>3, <2>2, <4>1, <5>1 DEF InLine, At
      <4>3. ASSUME NEW i \in 1..Len(queue'[l])
            PROVE  /\ task'[queue'[l][i]].at = "queued" /\ task'[queue'[l][i]].file = l
                   /\ \A j \in 1..Len(queue'[l]) : queue'[l][i] = queue'[l][j] => i = j
        <5>1. task[queue'[l][i]].at = "queued" /\ task[queue'[l][i]].file = l
          <6>1. i + 1 \in 1..Len(queue[l]) /\ queue'[l][i] = queue[l][i + 1]
            BY <4>1
          <6> QED
            BY <1>3, <6>1 DEF InLine
        <5>2. ASSUME NEW j \in 1..Len(queue'[l]), queue'[l][i] = queue'[l][j] PROVE i = j
          <6>1. i + 1 = j + 1
            BY <1>3, <4>1, <5>2 DEF InLine
          <6> QED
            BY <6>1
        <5> QED
          BY <2>5, <4>2, <5>1, <5>2
      <4> QED
        BY <3>1, <4>1, <4>3 DEF InLine
    <3>2. CASE m # l
      <4>1. queue'[m] = queue[m]
        BY <2>1, <3>2 DEF LanesInv
      <4>2. \A i \in 1..Len(queue[m]) : queue[m][i] \in Tasks /\ queue[m][i] # t /\ queue[m][i] # h
        BY <1>3, <2>3, <3>2 DEF InLine, At
      <4> QED
        BY <1>3, <2>5, <4>1, <4>2 DEF InLine
    <3> QED
      BY <3>1, <3>2
  <2>10. LanesBusy'
    <3> SUFFICES ASSUME NEW m \in Files
                 PROVE  /\ active'[m] = Cardinality(Fetching(m)')
                        /\ active'[m] <= Limit[m]
                        /\ queue'[m] # <<>> => active'[m] = Limit[m]
      BY DEF LanesBusy, Fetching
    <3>1. CASE m = l
      BY <1>2, <1>6, <2>1, <2>8, <3>1
    <3>2. CASE m # l
      <4>1. queue'[m] = queue[m]
        BY <2>1, <3>2 DEF LanesInv
      <4> QED
        BY <2>1, <2>7, <3>2, <4>1 DEF LanesInv, LanesBusy, Fetching
    <3> QED
      BY <3>1, <3>2
  <2>11. \A s \in Tasks : query'[s[1]] \notin {"scanning", "returned"} => At(s, "idle")'
    BY <2>3, <2>5 DEF LanesInv, At
  <2>12. queue' \in [Files -> Seq(Tasks)]
    <3>1. queue' = [m \in Files |-> queue'[m]]
      BY <2>1 DEF LanesInv
    <3> QED
      BY <2>9, <3>1
  <2> QED
    BY <2>1, <2>5, <2>9, <2>10, <2>11, <2>12 DEF LanesInv
<1> QED
  BY <1>5, <1>6

\* A query that goes on touches no task; one that starts, only its own.
LEMMA LanesQuery ==
  ASSUME LanesInv, NEW q \in Queries,
         \/ GetAppearances(q) \/ ResolveManifest(q) \/ RejectManifest(q)
         \/ Abort(q) \/ Return(q)
  PROVE  LanesInv'
<1>1. CASE GetAppearances(q) \/ RejectManifest(q) \/ Abort(q) \/ Return(q)
  <2>1. UNCHANGED <<task, lanes, cache>>
    BY <1>1 DEF GetAppearances, RejectManifest, Abort, Return
  <2>2. /\ query' \in [Queries -> {"idle", "manifest", "scanning", "returned", "rejected"}]
        /\ \A p \in Queries : query'[p] \notin {"scanning", "returned"}
                              => query[p] \notin {"scanning", "returned"}
    BY <1>1 DEF LanesInv, GetAppearances, RejectManifest, Abort, Return
  <2>3. \A l \in Files : Fetching(l)' = Fetching(l) /\ InLine(l)'
    BY <2>1 DEF LanesInv, Fetching, At, Lane, InLine, lanes
  <2>4. LanesBusy'
    BY <2>1, <2>3 DEF LanesInv, LanesBusy, Fetching, lanes
  <2>5. \A t \in Tasks : t[1] \in Queries
    BY DEF Tasks
  <2>6. \A t \in Tasks : query'[t[1]] \notin {"scanning", "returned"} => At(t, "idle")'
    BY <2>1, <2>2, <2>5 DEF LanesInv, At
  <2> QED
    BY <2>1, <2>2, <2>3, <2>4, <2>6 DEF LanesInv, lanes
<1>2. CASE ResolveManifest(q)
  <2>1. /\ query[q] = "manifest" /\ query' = [query EXCEPT ![q] = "scanning"]
        /\ UNCHANGED <<lanes, cache>>
        /\ task' = [t \in Tasks |->
             IF t[1] # q THEN task[t]
             ELSE IF t[2] \in InScope /\ q \notin aborted THEN Task("lookup", "bloom")
             ELSE Settled]
    BY <1>2 DEF ResolveManifest
  <2>2. /\ Settled \in TaskType /\ Task("lookup", "bloom") \in TaskType
        /\ Settled.at = "settled" /\ Task("lookup", "bloom").at = "lookup"
    BY ReaderAssumption DEF Settled, Task, TaskType, Places, Files
  <2>3. /\ task' \in [Tasks -> TaskType]
        /\ \A t \in Tasks : IF t[1] = q THEN task[t].at = "idle" /\ task'[t].at \in {"lookup", "settled"}
                            ELSE task'[t] = task[t]
    BY <2>1, <2>2 DEF LanesInv, At
  <2>4. \A l \in Files : Fetching(l)' = Fetching(l)
    BY <2>3 DEF Fetching, At, Lane
  <2>5. ASSUME NEW l \in Files PROVE InLine(l)'
    <3>1. queue[l] \in Seq(Tasks) /\ queue'[l] = queue[l] /\ InLine(l)
      BY <2>1 DEF LanesInv, lanes
    <3>2. \A i \in 1..Len(queue[l]) : queue[l][i] \in Tasks /\ task'[queue[l][i]] = task[queue[l][i]]
      BY <2>3, <3>1 DEF InLine
    <3> QED
      BY <3>1, <3>2 DEF InLine
  <2>6. LanesBusy'
    BY <2>1, <2>4 DEF LanesInv, LanesBusy, Fetching, lanes
  <2>7. \A t \in Tasks : t[1] \in Queries
    BY DEF Tasks
  <2>8. \A t \in Tasks : query'[t[1]] \notin {"scanning", "returned"} => At(t, "idle")'
    BY <2>1, <2>3, <2>7 DEF LanesInv, At
  <2> QED
    BY <2>1, <2>3, <2>5, <2>6, <2>8 DEF LanesInv, lanes
<1> QED
  BY <1>1, <1>2

\* A task asks for a slot.
LEMMA LanesAsked == ASSUME LanesInv, NEW t \in Tasks, CacheMiss(t) PROVE LanesInv'
<1> PICK l \in Files : l = Lane(t)
  BY DEF LanesInv, TaskType, Lane
<1>1. /\ task[t].at = "lookup" /\ t \notin Fetching(l)
      /\ IsFiniteSet(Fetching(l)) /\ active[l] = Cardinality(Fetching(l)) /\ active[l] <= Limit[l]
      /\ Limit[l] \in Nat /\ active[l] \in Nat /\ queue[l] \in Seq(Tasks) /\ InLine(l)
      /\ queue[l] # <<>> => active[l] = Limit[l]
  BY FetchingFinite, ReaderAssumption DEF CacheMiss, Fetching, LanesInv, LanesBusy, At
<1>2. UNCHANGED <<query, cache>>
  BY DEF CacheMiss
<1>3. /\ Task("fetching", l) \in TaskType /\ Task("queued", l) \in TaskType
      /\ Task("fetching", l).at = "fetching" /\ Task("queued", l).at = "queued"
      /\ Task("fetching", l).file = l /\ Task("queued", l).file = l
  BY ReaderAssumption DEF Task, TaskType, Places
<1>4. ASSUME NEW m \in Files
      PROVE  \A i \in 1..Len(queue[m]) : queue[m][i] \in Tasks /\ queue[m][i] # t
  <2>1. queue[m] \in Seq(Tasks) /\ InLine(m)
    BY DEF LanesInv
  <2> QED
    BY <1>1, <2>1 DEF InLine
<1>5. CASE active[l] < Limit[l]
  <2>1. /\ active' = [active EXCEPT ![l] = @ + 1] /\ queue' = queue
        /\ task' = [task EXCEPT ![t] = Task("fetching", l)]
    BY <1>5 DEF CacheMiss, SetTask
  <2>2. /\ task' \in [Tasks -> TaskType] /\ task'[t] = Task("fetching", l)
        /\ \A s \in Tasks : s # t => task'[s] = task[s]
    BY <1>3, <2>1 DEF LanesInv
  <2>3. Fetching(l)' = Fetching(l) \cup {t}
    BY <1>3, <2>2 DEF Fetching, At, Lane
  <2>4. \A m \in Files : m # l => Fetching(m)' = Fetching(m)
    BY <1>1, <1>3, <2>2 DEF Fetching, At, Lane
  <2>5. Cardinality(Fetching(l)') = active[l] + 1
    BY <1>1, <2>3, OneMore
  <2>6. /\ active' \in [Files -> Nat] /\ active'[l] = active[l] + 1
        /\ \A m \in Files : m # l => active'[m] = active[m]
    BY <1>1, <2>1 DEF LanesInv
  <2>7. ASSUME NEW m \in Files PROVE InLine(m)'
    <3>1. queue[m] \in Seq(Tasks) /\ queue'[m] = queue[m] /\ InLine(m)
      BY <2>1 DEF LanesInv
    <3>2. \A i \in 1..Len(queue[m]) : task'[queue[m][i]] = task[queue[m][i]]
      BY <1>4, <2>2
    <3> QED
      BY <3>1, <3>2 DEF InLine
  <2>8. LanesBusy'
    <3> SUFFICES ASSUME NEW m \in Files
                 PROVE  /\ active'[m] = Cardinality(Fetching(m)')
                        /\ active'[m] <= Limit[m]
                        /\ queue'[m] # <<>> => active'[m] = Limit[m]
      BY DEF LanesBusy, Fetching
    <3>1. CASE m = l
      BY <1>1, <1>5, <2>1, <2>5, <2>6, <3>1
    <3>2. CASE m # l
      BY <2>1, <2>4, <2>6, <3>2 DEF LanesInv, LanesBusy, Fetching
    <3> QED
      BY <3>1, <3>2
  <2>9. \A s \in Tasks : query'[s[1]] \notin {"scanning", "returned"} => At(s, "idle")'
    BY <1>1, <1>2, <2>2 DEF LanesInv, At
  <2> QED
    BY <1>2, <2>1, <2>2, <2>6, <2>7, <2>8, <2>9 DEF LanesInv
<1>6. CASE ~(active[l] < Limit[l])
  <2>1. /\ active' = active /\ queue' = [queue EXCEPT ![l] = Append(@, t)]
        /\ task' = [task EXCEPT ![t] = Task("queued", l)]
    BY <1>6 DEF CacheMiss, SetTask
  <2>2. /\ task' \in [Tasks -> TaskType] /\ task'[t] = Task("queued", l)
        /\ \A s \in Tasks : s # t => task'[s] = task[s]
    BY <1>3, <2>1 DEF LanesInv
  <2>3. \A m \in Files : Fetching(m)' = Fetching(m)
    BY <1>1, <1>3, <2>2 DEF Fetching, At, Lane
  <2>4. /\ queue' \in [Files -> Seq(Tasks)] /\ queue'[l] = Append(queue[l], t)
        /\ \A m \in Files : m # l => queue'[m] = queue[m]
    BY <2>1 DEF LanesInv
  <2>5. ASSUME NEW m \in Files PROVE InLine(m)'
    <3>1. CASE m # l
      BY <1>4, <2>2, <2>4, <3>1 DEF LanesInv, InLine
    <3>2. CASE m = l
      <4>1. /\ Len(queue'[l]) = Len(queue[l]) + 1 /\ queue'[l][Len(queue[l]) + 1] = t
            /\ \A i \in 1..Len(queue[l]) : queue'[l][i] = queue[l][i]
        BY <1>1, <2>4
      <4>2. \A i \in 1..Len(queue'[l]) : i \in 1..Len(queue[l]) \/ i = Len(queue[l]) + 1
        BY <1>1, <4>1
      <4>3. \A i \in 1..Len(queue[l]) :
              /\ task'[queue'[l][i]].at = "queued" /\ task'[queue'[l][i]].file = l
              /\ queue'[l][i] # t
              /\ \A j \in 1..Len(queue[l]) : queue'[l][i] = queue'[l][j] => i = j
        BY <1>1, <1>4, <2>2, <4>1 DEF InLine
      <4>4. task'[t].at = "queued" /\ task'[t].file = l
        BY <1>3, <2>2
      <4> QED
        BY <3>2, <4>1, <4>2, <4>3, <4>4 DEF InLine
    <3> QED
      BY <3>1, <3>2
  <2>6. LanesBusy'
    <3> SUFFICES ASSUME NEW m \in Files
                 PROVE  /\ active'[m] = Cardinality(Fetching(m)')
                        /\ active'[m] <= Limit[m]
                        /\ queue'[m] # <<>> => active'[m] = Limit[m]
      BY DEF LanesBusy, Fetching
    <3>1. CASE m = l
      BY <1>1, <1>6, <2>1, <2>3, <3>1
    <3>2. CASE m # l
      BY <2>1, <2>3, <2>4, <3>2 DEF LanesInv, LanesBusy, Fetching
    <3> QED
      BY <3>1, <3>2
  <2>7. \A s \in Tasks : query'[s[1]] \notin {"scanning", "returned"} => At(s, "idle")'
    BY <1>1, <1>2, <2>2 DEF LanesInv, At
  <2> QED
    BY <1>2, <2>1, <2>2, <2>4, <2>5, <2>6, <2>7 DEF LanesInv
<1> QED
  BY <1>5, <1>6

\* An attempt ends: another one keeps the slot, a last one gives it back.
LEMMA LanesRetried == ASSUME LanesInv, NEW t \in Tasks, AttemptFails(t) PROVE LanesInv'
<1>1. CASE task[t].attempt < MaxRetries
  <2> PICK n : n = task[t].attempt + 1
    OBVIOUS
  <2> PICK new : new = [task[t] EXCEPT !.attempt = n]
    OBVIOUS
  <2>1. task[t] \in TaskType /\ task[t].attempt \in 0..MaxRetries /\ MaxRetries \in Nat
    BY ReaderAssumption DEF LanesInv, TaskType
  <2>2. n \in 0..MaxRetries
    BY <1>1, <2>1
  <2>3. new \in TaskType /\ new.at = task[t].at /\ new.file = task[t].file
    BY <2>1, <2>2 DEF TaskType
  <2>4. task' = [task EXCEPT ![t] = new] /\ UNCHANGED <<query, lanes, cache>>
    BY <1>1 DEF AttemptFails
  <2>5. /\ task' \in [Tasks -> TaskType]
        /\ \A s \in Tasks : task'[s].at = task[s].at /\ task'[s].file = task[s].file
    BY <2>3, <2>4 DEF LanesInv
  <2>6. \A l \in Files : Fetching(l)' = Fetching(l)
    BY <2>5 DEF Fetching, At, Lane
  <2>7. \A l \in Files : InLine(l)'
    BY <2>4, <2>5 DEF LanesInv, InLine, lanes
  <2>8. LanesBusy'
    BY <2>4, <2>6 DEF LanesInv, LanesBusy, Fetching, lanes
  <2> QED
    BY <2>4, <2>5, <2>7, <2>8 DEF LanesInv, At, lanes
<1>2. CASE ~(task[t].attempt < MaxRetries)
  <2>1. Settled \in TaskType /\ Settled.at = "settled"
    BY ReaderAssumption DEF Settled, Task, TaskType, Places, Files
  <2>2. /\ At(t, "fetching") /\ Release(Lane(t), [task EXCEPT ![t] = Settled])
        /\ UNCHANGED <<query, cache>>
    BY <1>2 DEF AttemptFails
  <2> QED
    BY <2>1, <2>2, SlotGivenBack
<1> QED
  BY <1>1, <1>2

LEMMA LanesStep == LanesInv /\ [Next]_vars => LanesInv'
<1> SUFFICES ASSUME LanesInv, [Next]_vars PROVE LanesInv'
  OBVIOUS
<1>1. ASSUME NEW q \in Queries,
             \/ GetAppearances(q) \/ ResolveManifest(q) \/ RejectManifest(q)
             \/ Abort(q) \/ Return(q)
      PROVE  LanesInv'
  BY <1>1, LanesQuery
<1>2. ASSUME NEW t \in Tasks, CacheHit(t) \/ CacheFails(t) \/ StoreFails(t) PROVE LanesInv'
  <2>1. /\ task[t].at \in {"lookup", "storing"} /\ UNCHANGED <<query, lanes, cache>>
    BY <1>2 DEF CacheHit, CacheFails, StoreFails, At
  <2>2. Settled \in TaskType /\ Settled.at = "settled"
    BY ReaderAssumption DEF Settled, Task, TaskType, Places, Files
  <2>3. \E new \in TaskType : new.at \in {"lookup", "settled"} /\ SetTask(t, new)
    BY <1>2, <2>2, ArrivedTask DEF CacheHit, CacheFails, StoreFails, Failed
  <2>4. cache' \in [Chunks \X Files -> Answers \cup {None}]
    BY <2>1 DEF LanesInv
  <2> QED
    BY <2>1, <2>3, <2>4, LanesApart
<1>3. ASSUME NEW t \in Tasks, Stored(t) PROVE LanesInv'
  <2>1. /\ task[t].at = "storing" /\ UNCHANGED <<query, lanes>>
        /\ cache' = [cache EXCEPT ![File(t)] = task[t].bytes] /\ Arrived(t, task[t].bytes)
    BY <1>3 DEF Stored, At
  <2>2. \E new \in TaskType : new.at \in {"lookup", "settled"} /\ SetTask(t, new)
    BY <2>1, ArrivedTask
  <2>3. cache' \in [Chunks \X Files -> Answers \cup {None}]
    BY <2>1 DEF LanesInv, TaskType
  <2> QED
    BY <2>1, <2>2, <2>3, LanesApart
<1>4. ASSUME NEW t \in Tasks, CacheMiss(t) PROVE LanesInv'
  BY <1>4, LanesAsked
<1>5. ASSUME NEW t \in Tasks, AttemptFails(t) PROVE LanesInv'
  BY <1>5, LanesRetried
<1>6. ASSUME NEW t \in Tasks, NEW bytes \in Answers, GatewayAnswers(t, bytes) PROVE LanesInv'
  <2> PICK new : new = [Task("storing", Lane(t)) EXCEPT !.bytes = bytes]
    OBVIOUS
  <2>1. Lane(t) \in Files
    BY DEF LanesInv, TaskType, Lane
  <2>2. new \in TaskType /\ new.at = "storing"
    BY <2>1, ReaderAssumption DEF Task, TaskType, Places
  <2>3. /\ At(t, "fetching") /\ Release(Lane(t), [task EXCEPT ![t] = new])
        /\ UNCHANGED <<query, cache>>
    BY <1>6 DEF GatewayAnswers
  <2> QED
    BY <2>2, <2>3, SlotGivenBack
<1>7. CASE UNCHANGED vars
  <2>1. UNCHANGED <<query, task, lanes, cache>>
    BY <1>7 DEF vars
  <2>2. \A l \in Files : Fetching(l)' = Fetching(l) /\ InLine(l)'
    BY <2>1 DEF LanesInv, Fetching, At, Lane, InLine, lanes
  <2> QED
    BY <2>1, <2>2 DEF LanesInv, LanesBusy, Fetching, At, lanes
<1> QED
  BY <1>1, <1>2, <1>3, <1>4, <1>5, <1>6, <1>7 DEF Next

LEMMA LanesHold == Spec => []LanesInv
<1>1. LanesInv /\ [Next]_vars => LanesInv'
  BY LanesStep
<1> QED
  BY LanesInit, <1>1, PTL DEF Spec

(* In each lane a slot is counted for every fetch under way, never more    *)
(* than it has, and none is free while a task waits: retries, timeouts and *)
(* failed fetches hand theirs on (fetcher.ts:94-111).                      *)
THEOREM LanesAlwaysBusy == Spec => []LanesBusy
<1>1. LanesInv => LanesBusy
  BY DEF LanesInv
<1> QED
  BY LanesHold, <1>1, PTL

-----------------------------------------------------------------------------
\* The binary search.

Records == [address : Int, offset : Nat, count : Nat]
Appearances == [block : Nat, tx : Nat]
Sorted(table) == 
  \A i, j \in 1..Len(table) : i < j => table[i].address < table[j].address

\* What the search of lo..hi answers.
Where(table, target, lo, hi) ==
  IF \E i \in lo..hi : table[i + 1].address = target
  THEN CHOOSE i \in lo..hi : table[i + 1].address = target ELSE -1

LEMMA Addresses ==
  ASSUME NEW table \in Seq(Records)
  PROVE  /\ Len(table) \in Nat
         /\ \A i \in 1..Len(table) : table[i] \in Records /\ table[i].address \in Int
<1>1. Len(table) \in Nat /\ \A i \in 1..Len(table) : table[i] \in Records
  OBVIOUS
<1> QED
  BY <1>1 DEF Records

LEMMA WhereIs ==
  ASSUME NEW table \in Seq(Records), Sorted(table), NEW target \in Int,
         NEW lo \in 0..Len(table), NEW hi \in -1..(Len(table) - 1)
  PROVE  /\ Where(table, target, lo, hi) \in -1..(Len(table) - 1)
         /\ \A i \in lo..hi : table[i + 1].address = target
                              => Where(table, target, lo, hi) = i
         /\ (\A i \in lo..hi : table[i + 1].address # target) => Where(table, target, lo, hi) = -1
<1>1. Len(table) \in Nat /\ \A i \in 1..Len(table) : table[i].address \in Int
  BY Addresses
<1>2. (\A i \in lo..hi : table[i + 1].address # target) => Where(table, target, lo, hi) = -1
  BY DEF Where
<1>3. ASSUME NEW i \in lo..hi, table[i + 1].address = target
      PROVE  Where(table, target, lo, hi) = i
  <2>1. \A j \in lo..hi : table[j + 1].address = target => j = i
    <3> SUFFICES ASSUME NEW j \in lo..hi, table[j + 1].address = target, j # i PROVE FALSE
      OBVIOUS
    <3>1. i + 1 \in 1..Len(table) /\ j + 1 \in 1..Len(table)
      BY <1>1
    <3>2. i + 1 < j + 1 \/ j + 1 < i + 1
      BY <1>1
    <3> QED
      BY <1>1, <1>3, <3>1, <3>2 DEF Sorted
  <2>2. (CHOOSE j \in lo..hi : table[j + 1].address = target) = i
    BY <1>3, <2>1
  <2> QED
    BY <1>3, <2>2 DEF Where
<1>4. Where(table, target, lo, hi) \in -1..(Len(table) - 1)
  <2>1. CASE \A i \in lo..hi : table[i + 1].address # target
    BY <1>1, <1>2, <2>1
  <2>2. ASSUME NEW i \in lo..hi, table[i + 1].address = target
        PROVE  Where(table, target, lo, hi) \in -1..(Len(table) - 1)
    <3>1. Where(table, target, lo, hi) = i
      BY <1>3, <2>2
    <3> QED
      BY <1>1, <3>1
  <2> QED
    BY <2>1, <2>2
<1> QED
  BY <1>2, <1>3, <1>4

Located(table, target, lo, hi) ==
  \A i \in lo..hi : table[i + 1].address = target => Where(table, target, lo, hi) = i

LEMMA WhereLocates ==
  ASSUME NEW table \in Seq(Records), Sorted(table), NEW target \in Int,
         NEW lo \in 0..Len(table), NEW hi \in -1..(Len(table) - 1)
  PROVE  Located(table, target, lo, hi)
  BY WhereIs DEF Located

\* One round: what is sought is at mid, or in the half the order points to.
Halves(table, target, lo, hi, mid) ==
  /\ mid \in lo..hi /\ mid + 1 \in 0..Len(table) /\ mid - 1 \in -1..(Len(table) - 1)
  /\ Where(table, target, lo, hi) =
       IF table[mid + 1].address = target THEN mid
       ELSE IF table[mid + 1].address < target THEN Where(table, target, mid + 1, hi)
       ELSE Where(table, target, lo, mid - 1)

LEMMA SearchHalves ==
  ASSUME NEW table \in Seq(Records), Sorted(table), NEW target \in Int,
         NEW lo \in 0..Len(table), NEW hi \in -1..(Len(table) - 1), lo <= hi
  PROVE  Halves(table, target, lo, hi, (lo + hi) \div 2)
<1> PICK mid : mid = (lo + hi) \div 2
  OBVIOUS
<1> USE DEF Halves
<1>0. Len(table) \in Nat /\ \A i \in 1..Len(table) : table[i].address \in Int
  BY Addresses
<1>1. mid \in lo..hi /\ mid + 1 \in 0..Len(table) /\ mid - 1 \in -1..(Len(table) - 1)
  BY <1>0
<1> PICK here : here = table[mid + 1].address
  OBVIOUS
<1>2. here \in Int /\ mid \in Int /\ lo \in Int /\ hi \in Int /\ mid + 1 \in 1..Len(table)
  BY <1>0, <1>1
<1>3. CASE here = target
  <2>1. table[mid + 1].address = target
    BY <1>3
  <2>2. Where(table, target, lo, hi) = mid
    <3>1. \A i \in lo..hi : table[i + 1].address = target
                           => Where(table, target, lo, hi) = i
      BY WhereIs
    <3> QED
      BY <1>1, <2>1, <3>1
  <2> QED
    BY <1>1, <1>3, <2>2
<1>4. CASE here < target
  <2>1. \A i \in lo..hi : table[i + 1].address = target => i \in (mid + 1)..hi
    <3> SUFFICES ASSUME NEW i \in lo..hi, table[i + 1].address = target, i <= mid PROVE FALSE
      BY <1>2
    <3>1. i + 1 \in 1..Len(table) /\ (i + 1 < mid + 1 \/ i = mid)
      BY <1>0, <1>2
    <3>2. table[i + 1].address < here \/ table[i + 1].address = here
      BY <1>2, <3>1 DEF Sorted
    <3> QED
      BY <1>2, <1>4, <3>2
  <2>2. \A i \in (mid + 1)..hi : i \in lo..hi
    BY <1>1, <1>2
  <2>3. Where(table, target, lo, hi) = Where(table, target, mid + 1, hi)
    <3>1. CASE \E i \in lo..hi : table[i + 1].address = target
      <4> PICK i \in lo..hi : table[i + 1].address = target
        BY <3>1
      <4>1. i \in (mid + 1)..hi
        BY <2>1
      <4>2. Where(table, target, lo, hi) = i /\ Where(table, target, mid + 1, hi) = i
        BY <1>1, <4>1, WhereIs
      <4> QED
        BY <4>2
    <3>2. CASE \A i \in lo..hi : table[i + 1].address # target
      BY <2>2, <3>2 DEF Where
    <3> QED
      BY <3>1, <3>2
  <2> QED
    BY <1>1, <1>2, <1>4, <2>3
<1>5. CASE here > target
  <2>1. \A i \in lo..hi : table[i + 1].address = target => i \in lo..(mid - 1)
    <3> SUFFICES ASSUME NEW i \in lo..hi, table[i + 1].address = target, i >= mid PROVE FALSE
      BY <1>2
    <3>1. i + 1 \in 1..Len(table) /\ (mid + 1 < i + 1 \/ i = mid)
      BY <1>0, <1>2
    <3>2. table[i + 1].address > here \/ table[i + 1].address = here
      BY <1>0, <1>2, <3>1 DEF Sorted
    <3> QED
      BY <1>2, <1>5, <3>2
  <2>2. \A i \in lo..(mid - 1) : i \in lo..hi
    BY <1>1, <1>2
  <2>3. Where(table, target, lo, hi) = Where(table, target, lo, mid - 1)
    <3>1. CASE \E i \in lo..hi : table[i + 1].address = target
      <4> PICK i \in lo..hi : table[i + 1].address = target
        BY <3>1
      <4>1. i \in lo..(mid - 1)
        BY <2>1
      <4>2. Where(table, target, lo, hi) = i /\ Where(table, target, lo, mid - 1) = i
        BY <1>1, <4>1, WhereIs
      <4> QED
        BY <4>2
    <3>2. CASE \A i \in lo..hi : table[i + 1].address # target
      BY <2>2, <3>2 DEF Where
    <3> QED
      BY <3>1, <3>2
  <2> QED
    BY <1>1, <1>2, <1>5, <2>3
<1> QED
  BY <1>2, <1>3, <1>4, <1>5

\* The search, whichever function the recursion defines, answers what Where says.
LEMMA FindIs ==
  ASSUME NEW table \in Seq(Records), Sorted(table), NEW target \in Int
  PROVE  C!Find(table, target) = Where(table, target, 0, Len(table) - 1)
<1> DEFINE n == Len(table)
           Body(f, lo, hi) ==
             LET mid == (lo + hi) \div 2
                 here == table[mid + 1].address
             IN IF lo > hi THEN -1
                ELSE IF here = target THEN mid
                ELSE IF here < target THEN f[<<mid + 1, hi>>]
                ELSE f[<<lo, mid - 1>>]
           Ranges == (0..n) \X (-1..(n - 1))
           Good(f) == f = [r \in Ranges |-> Body(f, r[1], r[2])]
           search == CHOOSE f : Good(f)
           w == [r \in Ranges |-> Where(table, target, r[1], r[2])]
<1>1. C!Find(table, target) = search[<<0, n - 1>>]
  BY DEF C!Find
<1>2. n \in Nat
  BY Addresses
<1> HIDE DEF n
<1>3. Good(w)
  <2>1. ASSUME NEW lo \in 0..n, NEW hi \in -1..(n - 1)
        PROVE  Where(table, target, lo, hi) = Body(w, lo, hi)
    <3>1. CASE lo > hi
      <4>1. \A i \in lo..hi : FALSE
        BY <1>2, <3>1
      <4>2. Where(table, target, lo, hi) = -1
        BY <4>1 DEF Where
      <4> QED
        BY <3>1, <4>2
    <3>2. CASE lo <= hi
      <4> PICK mid : mid = (lo + hi) \div 2
        OBVIOUS
      <4>1. /\ mid + 1 \in 0..n /\ mid - 1 \in -1..(n - 1)
            /\ Where(table, target, lo, hi) =
                 IF table[mid + 1].address = target THEN mid
                 ELSE IF table[mid + 1].address < target THEN Where(table, target, mid + 1, hi)
                 ELSE Where(table, target, lo, mid - 1)
        <5>1. Halves(table, target, lo, hi, mid)
          BY <3>2, SearchHalves DEF n
        <5> QED
          BY <5>1 DEF Halves, n
      <4>2. /\ w[<<mid + 1, hi>>] = Where(table, target, mid + 1, hi)
            /\ w[<<lo, mid - 1>>] = Where(table, target, lo, mid - 1)
        BY <4>1
      <4>3. ~(lo > hi)
        BY <1>2, <3>2
      <4> HIDE DEF w
      <4> QED
        BY <4>1, <4>2, <4>3
    <3> QED
      BY <1>2, <3>1, <3>2
  <2> HIDE DEF Body
  <2> QED
    BY <2>1
<1>4. Good(search)
  <2> HIDE DEF Good
  <2> QED
    BY <1>3, Zenon
<1> HIDE DEF search
<1> DEFINE Alike(k) == \A lo \in 0..n, hi \in -1..(n - 1) :
                         hi - lo < k => search[<<lo, hi>>] = Where(table, target, lo, hi)
           T == {k \in 0..n : Alike(k)}
<1>5. ASSUME NEW lo \in 0..n, NEW hi \in -1..(n - 1)
      PROVE  search[<<lo, hi>>] = Body(search, lo, hi)
  <2> HIDE DEF Body
  <2> QED
    BY <1>4
<1>6. 0 \in T
  <2>1. ASSUME NEW lo \in 0..n, NEW hi \in -1..(n - 1), hi - lo < 0
        PROVE  search[<<lo, hi>>] = Where(table, target, lo, hi)
    <3>1. lo > hi
      BY <1>2, <2>1
    <3>2. \A i \in lo..hi : FALSE
      BY <1>2, <3>1
    <3>3. Where(table, target, lo, hi) = -1
      BY <3>2 DEF Where
    <3> QED
      BY <1>5, <3>1, <3>3
  <2> QED
    BY <1>2, <2>1
<1>7. ASSUME NEW k \in 0..(n - 1), k \in T PROVE k + 1 \in T
  <2>1. ASSUME NEW lo \in 0..n, NEW hi \in -1..(n - 1), hi - lo < k + 1
        PROVE  search[<<lo, hi>>] = Where(table, target, lo, hi)
    <3>1. CASE hi - lo < k
      BY <1>7, <3>1
    <3>2. CASE hi - lo = k
      <4> PICK mid : mid = (lo + hi) \div 2
        OBVIOUS
      <4>1. lo <= hi /\ ~(lo > hi)
        BY <1>2, <3>2
      <4>2. /\ mid \in lo..hi /\ mid + 1 \in 0..n /\ mid - 1 \in -1..(n - 1)
            /\ Where(table, target, lo, hi) =
                 IF table[mid + 1].address = target THEN mid
                 ELSE IF table[mid + 1].address < target THEN Where(table, target, mid + 1, hi)
                 ELSE Where(table, target, lo, mid - 1)
        <5>1. Halves(table, target, lo, hi, mid)
          BY <4>1, SearchHalves DEF n
        <5> QED
          BY <5>1 DEF Halves, n
      <4>3. hi - (mid + 1) < k /\ (mid - 1) - lo < k
        BY <1>2, <3>2, <4>2
      <4>4. /\ search[<<mid + 1, hi>>] = Where(table, target, mid + 1, hi)
            /\ search[<<lo, mid - 1>>] = Where(table, target, lo, mid - 1)
        BY <1>7, <4>2, <4>3
      <4>5. search[<<lo, hi>>] = Body(search, lo, hi)
        BY <1>5
      <4> QED
        BY <4>1, <4>2, <4>4, <4>5
    <3> QED
      BY <1>2, <2>1, <3>1, <3>2
  <2>2. k + 1 \in 0..n
    BY <1>2
  <2> QED
    BY <2>1, <2>2
<1>8. n \in T
  <2>1. T \in SUBSET (0..n)
    OBVIOUS
  <2> HIDE DEF T
  <2>2. T = 0..n
    BY <1>2, <1>6, <1>7, <2>1, Ascends
  <2> QED
    BY <1>2, <2>2
<1>9. search[<<0, n - 1>>] = Where(table, target, 0, n - 1)
  BY <1>2, <1>8
<1> QED
  BY <1>1, <1>9 DEF n

-----------------------------------------------------------------------------
\* What an answer accounts for.

\* Gateways answer with the file, or with bytes that cannot be parsed.
WholeAnswers == Answers \subseteq {"whole", "garbled"}

Due(c) == {a \in Held(c) : C!InRange(a, BlockRange)}

\* A chunk a query is done with, and does not report, gave it all it has.
AccountedFor ==
  \A t \in Tasks :
    /\ query[t[1]] \in {"scanning", "returned"} /\ t[1] \notin aborted
    /\ At(t, "settled") /\ t[2] \notin failures[t[1]]
    => Due(t[2]) \subseteq found[t[1]]

ResultsInv ==
  /\ chunk \in Manifests
  /\ DOMAIN found = Queries /\ \A q \in Queries : found[q] \subseteq Wanted
  /\ failures \in [Queries -> SUBSET Chunks]
  /\ \A t \in Tasks : At(t, "storing") => task[t].bytes \in Answers
  /\ \A t \in Tasks : query[t[1]] = "returned" => At(t, "settled")
  /\ AccountedFor

\* What the reader finds in an index file is what the file holds.
LEMMA LookupFinds ==
  ASSUME chunk \in Manifests, NEW c \in Chunks
  PROVE  C!AppearancesOf(chunk[c].index, Address) = Held(c)
<1> PICK table : table = chunk[c].index.table
  OBVIOUS
<1>1. table \in Seq(Records) /\ Sorted(table) /\ Address \in Int
  BY IndexAssumption DEF C!Published, Records, Sorted
<1>2. /\ Len(table) \in Nat /\ DOMAIN table = 1..Len(table)
      /\ \A i \in 1..Len(table) : table[i] \in Records
  BY <1>1, Addresses
<1>3. C!Find(table, Address) = Where(table, Address, 0, Len(table) - 1)
  BY <1>1, FindIs
<1>4. 0 \in 0..Len(table) /\ Len(table) - 1 \in -1..(Len(table) - 1)
  BY <1>2
<1>5. CASE \E j \in 1..Len(table) : table[j].address = Address
  <2> PICK j \in 1..Len(table) : table[j].address = Address
    BY <1>5
  <2> PICK i : i = j - 1
    OBVIOUS
  <2>1. i \in 0..(Len(table) - 1) /\ i + 1 = j
    BY <1>2
  <2>2. \A k \in 0..(Len(table) - 1) : table[k + 1].address = Address
                                       => Where(table, Address, 0, Len(table) - 1) = k
    <3>1. Located(table, Address, 0, Len(table) - 1)
      BY <1>1, <1>4, WhereLocates
    <3> QED
      BY <3>1 DEF Located
  <2>3. Where(table, Address, 0, Len(table) - 1) = i
    BY <2>1, <2>2
  <2>4. ASSUME NEW k \in 1..Len(table), table[k].address = Address PROVE k = j
    <3>1. k - 1 \in 0..(Len(table) - 1) /\ (k - 1) + 1 = k
      BY <1>2
    <3>2. k - 1 = i
      BY <2>2, <2>3, <2>4, <3>1
    <3> QED
      BY <2>1, <3>1, <3>2
  <2>5. C!Find(table, Address) = i /\ i # -1 /\ table[i + 1] = table[j]
    BY <1>2, <1>3, <2>1, <2>3
  <2>6. {k \in DOMAIN table : table[k].address = Address} = {j}
    BY <1>2, <2>4
  <2>7. UNION {r.offset..(r.offset + r.count - 1) :
               r \in {table[k] : k \in {m \in DOMAIN table : table[m].address = Address}}}
          = table[j].offset..(table[j].offset + table[j].count - 1)
    BY <2>6
  <2> QED
    BY <2>5, <2>7 DEF C!AppearancesOf, Held
<1>6. CASE \A j \in 1..Len(table) : table[j].address # Address
  <2>1. \A k \in 0..(Len(table) - 1) : table[k + 1].address # Address
    <3> SUFFICES ASSUME NEW k \in 0..(Len(table) - 1) PROVE table[k + 1].address # Address
      OBVIOUS
    <3>1. k + 1 \in 1..Len(table)
      BY <1>2
    <3> QED
      BY <1>6, <3>1
  <2>2. Where(table, Address, 0, Len(table) - 1) = -1
    BY <1>1, <1>4, <2>1, WhereIs
  <2>3. {k \in DOMAIN table : table[k].address = Address} = {}
    BY <1>2, <1>6
  <2>4. Held(c) = {}
    BY <2>3 DEF Held
  <2> QED
    BY <1>3, <2>2, <2>4 DEF C!AppearancesOf
<1> QED
  BY <1>5, <1>6

LEMMA Slice ==
  ASSUME NEW offset \in Nat, NEW count \in Nat, NEW n \in Nat, offset + count <= n,
         NEW i \in offset..(offset + count - 1)
  PROVE  i + 1 \in 1..n
  OBVIOUS

\* A chunk that has appearances of the address passes its bloom filter, and one
\* that has any in the range is in scope.
LEMMA HeldPasses ==
  ASSUME chunk \in Manifests, NEW c \in Chunks
  PROVE  /\ Held(c) # {} => C!MightContain(chunk[c].bloom, Address)
         /\ Due(c) # {} => c \in InScope
<1> PICK table : table = chunk[c].index.table
  OBVIOUS
<1> PICK apps : apps = chunk[c].index.apps
  OBVIOUS
<1>1. /\ table \in Seq(Records) /\ apps \in Seq(Appearances)
      /\ \A i \in 1..Len(table) : /\ table[i].offset + table[i].count <= Len(apps)
                                  /\ C!MightContain(chunk[c].bloom, table[i].address)
      /\ chunk[c].range \in [first : Nat, last : Nat]
      /\ \A i \in 1..Len(apps) : C!InRange(apps[i], chunk[c].range)
  BY IndexAssumption DEF C!Published, Records, Appearances
<1>2. /\ Len(table) \in Nat /\ DOMAIN table = 1..Len(table)
      /\ \A i \in 1..Len(table) : table[i] \in Records
  BY <1>1, Addresses
<1> PICK n : n = Len(apps)
  OBVIOUS
<1>5. n \in Nat /\ \A i \in 1..n : apps[i] \in Appearances
  BY <1>1
<1>3. ASSUME NEW a \in Held(c)
      PROVE  /\ C!MightContain(chunk[c].bloom, Address)
             /\ a.block \in Nat /\ C!InRange(a, chunk[c].range)
  <2>1. PICK j \in 1..Len(table) :
          /\ table[j].address = Address
          /\ \E i \in table[j].offset..(table[j].offset + table[j].count - 1) : a = apps[i + 1]
    BY <1>2 DEF Held
  <2>2. PICK i \in table[j].offset..(table[j].offset + table[j].count - 1) : a = apps[i + 1]
    BY <2>1
  <2>3. table[j].offset \in Nat /\ table[j].count \in Nat
    BY <1>2 DEF Records
  <2> PICK offset \in Nat, count \in Nat : offset = table[j].offset /\ count = table[j].count
    BY <2>3
  <2>4. i + 1 \in 1..n
    <3>1. i \in offset..(offset + count - 1) /\ offset + count <= n
      BY <1>1, <2>2
    <3> QED
      BY <1>5, <3>1, Slice
  <2>5. a.block \in Nat /\ C!InRange(a, chunk[c].range)
    <3>1. apps[i + 1] \in Appearances
      BY <1>5, <2>4
    <3> QED
      BY <1>1, <2>2, <2>4, <3>1 DEF Appearances
  <2> QED
    BY <1>1, <2>1, <2>5
<1>4. ASSUME NEW a \in Due(c) PROVE c \in InScope
  <2>1. /\ C!InRange(a, BlockRange) /\ C!InRange(a, chunk[c].range) /\ a.block \in Nat
    BY <1>3 DEF Due
  <2>2. /\ BlockRange.first \in Nat /\ BlockRange.last \in Nat
        /\ chunk[c].range.first \in Nat /\ chunk[c].range.last \in Nat
    BY <1>1, IndexAssumption
  <2>3. C!RangesOverlap(chunk[c].range, BlockRange)
    BY <2>1, <2>2 DEF C!RangesOverlap, C!InRange
  <2> QED
    BY <2>3 DEF InScope
<1> QED
  BY <1>3, <1>4

LEMMA DueIsWanted == Wanted = UNION {Due(c) : c \in Chunks}
  BY DEF Wanted, Due, C!InRange

LEMMA ResultsInit == Init => ResultsInv
<1> SUFFICES ASSUME Init PROVE ResultsInv
  OBVIOUS
<1>1. \A t \in Tasks : At(t, "idle") /\ ~At(t, "storing") /\ t[1] \in Queries
  BY DEF Init, At, Idle, Task, Tasks
<1>2. AccountedFor
  BY <1>1 DEF Init, AccountedFor
<1>3. \A t \in Tasks : query[t[1]] # "returned"
  BY <1>1 DEF Init
<1> QED
  BY <1>1, <1>2, <1>3 DEF Init, ResultsInv

\* Tasks move on; one that is done is reported, or has handed in what is due,
\* unless its query is aborted.
LEMMA ResultsMove ==
  ASSUME ResultsInv, UNCHANGED <<chunk, query, aborted>>,
         DOMAIN found' = Queries,
         \A q \in Queries : found[q] \subseteq found'[q] /\ found'[q] \subseteq Wanted,
         failures' \in [Queries -> SUBSET Chunks],
         \A q \in Queries : failures[q] \subseteq failures'[q],
         \A t \in Tasks :
           \/ task'[t] = task[t]
           \/ /\ task[t].at \notin {"idle", "settled"}
              /\ task'[t].at = "storing" => task'[t].bytes \in Answers
              /\ task'[t].at = "settled" => \/ t[1] \in aborted
                                            \/ t[2] \in failures'[t[1]]
                                            \/ Due(t[2]) \subseteq found'[t[1]]
  PROVE  ResultsInv'
<1>1. Wanted' = Wanted /\ \A c \in Chunks : Due(c)' = Due(c)
  BY DEF Wanted, Due, Held
<1>2. \A t \in Tasks : t[1] \in Queries /\ t[2] \in Chunks
  BY DEF Tasks
<1>3. ASSUME NEW t \in Tasks, query[t[1]] \in {"scanning", "returned"}, t[1] \notin aborted,
             task'[t].at = "settled", t[2] \notin failures'[t[1]]
      PROVE  Due(t[2]) \subseteq found'[t[1]]
  <2>1. CASE task'[t] = task[t]
    BY <1>2, <1>3, <2>1 DEF ResultsInv, AccountedFor, At
  <2>2. CASE task'[t] # task[t]
    BY <1>3, <2>2
  <2> QED
    BY <2>1, <2>2
<1>4. AccountedFor'
  BY <1>1, <1>2, <1>3 DEF AccountedFor, At
<1>5. \A t \in Tasks : query'[t[1]] = "returned" => At(t, "settled")'
  BY DEF ResultsInv, At
<1>6. \A t \in Tasks : At(t, "storing")' => task'[t].bytes \in Answers
  BY DEF ResultsInv, At
<1> QED
  BY <1>1, <1>4, <1>5, <1>6 DEF ResultsInv

\* A fetch or a file that comes to nothing is reported.
LEMMA ResultsFail ==
  ASSUME LanesInv, ResultsInv, NEW t \in Tasks, task[t].at \in {"lookup", "storing"},
         UNCHANGED <<chunk, query, aborted>>, Failed(t)
  PROVE  ResultsInv'
<1>1. /\ t[1] \in Queries /\ t[2] \in Chunks /\ task \in [Tasks -> TaskType]
      /\ DOMAIN found = Queries /\ \A q \in Queries : found[q] \subseteq Wanted
      /\ failures \in [Queries -> SUBSET Chunks]
  BY DEF Tasks, LanesInv, ResultsInv
<1>2. Settled.at = "settled"
  BY DEF Settled, Task
<1>3. /\ task' = [task EXCEPT ![t] = Settled] /\ found' = found
      /\ failures' = [failures EXCEPT ![t[1]] = @ \cup {t[2]}]
  BY DEF Failed, SetTask
<1>4. /\ failures' \in [Queries -> SUBSET Chunks] /\ t[2] \in failures'[t[1]]
      /\ \A q \in Queries : failures[q] \subseteq failures'[q]
  BY <1>1, <1>3
<1>5. \A s \in Tasks : s # t => task'[s] = task[s]
  BY <1>1, <1>3
<1> QED
  BY <1>1, <1>2, <1>3, <1>4, <1>5, ResultsMove

\* A file that is there is used up: what it holds is found, or it is reported.
LEMMA ResultsArrive ==
  ASSUME WholeAnswers, LanesInv, ResultsInv, NEW t \in Tasks, NEW bytes \in Answers,
         task[t].at \in {"lookup", "storing"}, UNCHANGED <<chunk, query, aborted>>,
         Arrived(t, bytes)
  PROVE  ResultsInv'
<1>1. /\ t[1] \in Queries /\ t[2] \in Chunks /\ task \in [Tasks -> TaskType]
      /\ chunk \in Manifests
      /\ DOMAIN found = Queries /\ \A q \in Queries : found[q] \subseteq Wanted
      /\ failures \in [Queries -> SUBSET Chunks]
  BY DEF Tasks, LanesInv, ResultsInv
<1>2. Kept(t) = Due(t[2]) /\ Due(t[2]) \subseteq Wanted
  BY <1>1, LookupFinds, DueIsWanted DEF Kept, Due
<1>3. Settled.at = "settled" /\ Task("lookup", "index").at = "lookup"
  BY DEF Settled, Task
<1>4. CASE Failed(t)
  BY <1>4, ResultsFail
<1>5. ~Failed(t) => bytes = "whole"
  <2>1. bytes \in {"whole", "garbled"}
    BY DEF WholeAnswers
  <2>2. CASE bytes = "garbled"
    BY <2>2 DEF Arrived
  <2> QED
    BY <2>1, <2>2
<1>6. CASE ~Failed(t) /\ task[t].file = "bloom"
  <2>1. /\ bytes = "whole" /\ UNCHANGED <<found, failures>>
        /\ IF C!MightContain(chunk[t[2]].bloom, Address) /\ t[1] \notin aborted
           THEN SetTask(t, Task("lookup", "index")) ELSE SetTask(t, Settled)
    BY <1>5, <1>6 DEF Arrived
  <2>2. \A s \in Tasks : s # t => task'[s] = task[s]
    BY <1>1, <2>1 DEF SetTask
  <2>3. \/ task'[t].at = "lookup"
        \/ /\ task'[t].at = "settled"
           /\ t[1] \in aborted \/ ~C!MightContain(chunk[t[2]].bloom, Address)
    BY <1>1, <1>3, <2>1 DEF SetTask
  <2>4. ~C!MightContain(chunk[t[2]].bloom, Address) => Due(t[2]) = {}
    BY <1>1, HeldPasses DEF Due
  <2>5. \/ task'[t].at = "lookup"
        \/ task'[t].at = "settled" /\ (t[1] \in aborted \/ Due(t[2]) \subseteq found'[t[1]])
    BY <2>3, <2>4
  <2> QED
    BY <1>1, <2>1, <2>2, <2>5, ResultsMove
<1>7. CASE ~Failed(t) /\ task[t].file # "bloom"
  <2>1. /\ SetTask(t, Settled) /\ failures' = failures
        /\ found' = [found EXCEPT ![t[1]] = @ \cup Kept(t)]
    BY <1>5, <1>7 DEF Arrived
  <2>2. /\ \A s \in Tasks : s # t => task'[s] = task[s]
        /\ task'[t].at = "settled"
    BY <1>1, <1>3, <2>1 DEF SetTask
  <2>3. /\ DOMAIN found' = Queries /\ found'[t[1]] = found[t[1]] \cup Due(t[2])
        /\ \A q \in Queries : q # t[1] => found'[q] = found[q]
    BY <1>1, <1>2, <2>1
  <2>4. \A q \in Queries : found[q] \subseteq found'[q] /\ found'[q] \subseteq Wanted
    BY <1>1, <1>2, <2>3
  <2> QED
    BY <1>1, <2>1, <2>2, <2>3, <2>4, ResultsMove
<1> QED
  BY <1>4, <1>6, <1>7

LEMMA ResultsQuery ==
  ASSUME LanesInv, ResultsInv, NEW q \in Queries,
         \/ GetAppearances(q) \/ ResolveManifest(q) \/ RejectManifest(q)
         \/ Abort(q) \/ Return(q)
  PROVE  ResultsInv'
<1>1. /\ \A t \in Tasks : t[1] \in Queries /\ t[2] \in Chunks /\ t = <<t[1], t[2]>>
      /\ query \in [Queries -> {"idle", "manifest", "scanning", "returned", "rejected"}]
      /\ task \in [Tasks -> TaskType]
  BY DEF Tasks, LanesInv
<1>2. UNCHANGED <<chunk, found, failures>>
  BY DEF GetAppearances, ResolveManifest, RejectManifest, Abort, Return
<1>3. Wanted' = Wanted /\ \A c \in Chunks : Due(c)' = Due(c)
  BY <1>2 DEF Wanted, Due, Held
<1>4. CASE GetAppearances(q) \/ RejectManifest(q) \/ Abort(q) \/ Return(q)
  <2>1. /\ task' = task /\ aborted \subseteq aborted'
        /\ \A p \in Queries : query'[p] \in {"scanning", "returned"}
                              => query[p] \in {"scanning", "returned"}
        /\ \A p \in Queries : query'[p] = "returned" =>
             query[p] = "returned" \/ \A c \in Chunks : At(<<p, c>>, "settled")
    BY <1>1, <1>4 DEF GetAppearances, RejectManifest, Abort, Return
  <2>2. \A t \in Tasks : query'[t[1]] = "returned" => At(t, "settled")'
    BY <1>1, <2>1 DEF ResultsInv, At
  <2>3. AccountedFor'
    BY <1>1, <1>2, <1>3, <2>1 DEF ResultsInv, AccountedFor, At
  <2> QED
    BY <1>2, <1>3, <2>1, <2>2, <2>3 DEF ResultsInv, At
<1>5. CASE ResolveManifest(q)
  <2>1. /\ query[q] = "manifest" /\ query' = [query EXCEPT ![q] = "scanning"]
        /\ aborted' = aborted
        /\ task' = [t \in Tasks |->
             IF t[1] # q THEN task[t]
             ELSE IF t[2] \in InScope /\ q \notin aborted THEN Task("lookup", "bloom")
             ELSE Settled]
    BY <1>5 DEF ResolveManifest
  <2>2. Task("lookup", "bloom").at = "lookup" /\ Settled.at = "settled"
    BY DEF Settled, Task
  <2>3. /\ query'[q] = "scanning"
        /\ \A p \in Queries : p # q => query'[p] = query[p]
    BY <1>1, <2>1
  <2>4. ASSUME NEW t \in Tasks
        PROVE  \/ t[1] # q /\ task'[t] = task[t]
               \/ /\ t[1] = q
                  /\ \/ task'[t].at = "lookup"
                     \/ task'[t].at = "settled" /\ (t[2] \notin InScope \/ q \in aborted)
    BY <2>1, <2>2
  <2>5. ASSUME NEW t \in Tasks, query'[t[1]] \in {"scanning", "returned"}, t[1] \notin aborted,
               task'[t].at = "settled", t[2] \notin failures[t[1]]
        PROVE  Due(t[2]) \subseteq found[t[1]]
    <3>1. CASE t[1] = q
      <4>1. t[2] \notin InScope
        BY <2>4, <2>5, <3>1
      <4> QED
        BY <1>1, <4>1, HeldPasses DEF ResultsInv
    <3>2. CASE t[1] # q
      BY <1>1, <2>3, <2>4, <2>5, <3>2 DEF ResultsInv, AccountedFor, At
    <3> QED
      BY <3>1, <3>2
  <2>6. AccountedFor'
    BY <1>1, <1>2, <1>3, <2>1, <2>5 DEF AccountedFor, At
  <2>7. \A t \in Tasks : query'[t[1]] = "returned" => At(t, "settled")'
    BY <1>1, <2>3, <2>4 DEF ResultsInv, At
  <2>8. \A t \in Tasks : At(t, "storing")' => task'[t].bytes \in Answers
    BY <2>4 DEF ResultsInv, At
  <2> QED
    BY <1>2, <1>3, <2>6, <2>7, <2>8 DEF ResultsInv
<1> QED
  BY <1>4, <1>5

\* What a slot that is given back does: its task moves on, and the next fetches.
LEMMA Handed ==
  ASSUME LanesInv, NEW t \in Tasks, At(t, "fetching"), NEW new,
         Release(Lane(t), [task EXCEPT ![t] = new])
  PROVE  /\ task'[t] = new
         /\ \A s \in Tasks : s # t =>
              \/ task'[s] = task[s]
              \/ task[s].at = "queued" /\ task'[s].at = "fetching"
<1> PICK l \in Files : l = Lane(t)
  BY DEF LanesInv, TaskType, Lane
<1> PICK after : after = [task EXCEPT ![t] = new]
  OBVIOUS
<1>1. /\ DOMAIN after = Tasks /\ after[t] = new
      /\ \A s \in Tasks : s # t => after[s] = task[s]
  BY DEF LanesInv
<1>2. Release(l, after)
  OBVIOUS
<1>3. CASE queue[l] = <<>>
  BY <1>1, <1>2, <1>3 DEF Release
<1>4. CASE queue[l] # <<>>
  <2>1. queue[l] \in Seq(Tasks) /\ InLine(l)
    BY DEF LanesInv
  <2> PICK h \in Tasks : h = Head(queue[l])
    BY <1>4, <2>1
  <2>2. task[h].at = "queued" /\ h # t
    <3>1. 1 \in 1..Len(queue[l]) /\ queue[l][1] = h
      BY <1>4, <2>1
    <3> QED
      BY <2>1, <3>1 DEF InLine, At
  <2>3. task' = [after EXCEPT ![h] = Task("fetching", l)]
    BY <1>2, <1>4 DEF Release
  <2>4. Task("fetching", l).at = "fetching"
    BY DEF Task
  <2> QED
    BY <1>1, <2>2, <2>3, <2>4
<1> QED
  BY <1>3, <1>4

LEMMA ResultsStep ==
  ASSUME WholeAnswers, LanesInv, ResultsInv, [Next]_vars
  PROVE  ResultsInv'
<1>1. /\ \A t \in Tasks : t[1] \in Queries /\ t[2] \in Chunks
      /\ DOMAIN found = Queries /\ \A q \in Queries : found[q] \subseteq Wanted
      /\ failures \in [Queries -> SUBSET Chunks] /\ task \in [Tasks -> TaskType]
  BY DEF Tasks, ResultsInv, LanesInv
<1>2. ASSUME NEW q \in Queries,
             \/ GetAppearances(q) \/ ResolveManifest(q) \/ RejectManifest(q)
             \/ Abort(q) \/ Return(q)
      PROVE  ResultsInv'
  BY <1>2, ResultsQuery
<1>3. ASSUME NEW t \in Tasks, CacheHit(t) PROVE ResultsInv'
  <2>1. /\ task[t].at = "lookup" /\ UNCHANGED <<chunk, query, aborted>>
        /\ cache[File(t)] # None /\ Arrived(t, cache[File(t)])
    BY <1>3 DEF CacheHit, At
  <2>2. File(t) \in Chunks \X Files
    BY <1>1 DEF File, TaskType
  <2>3. cache[File(t)] \in Answers
    BY <2>1, <2>2 DEF LanesInv
  <2> QED
    BY <2>1, <2>3, ResultsArrive
<1>4. ASSUME NEW t \in Tasks, Stored(t) PROVE ResultsInv'
  <2>1. /\ task[t].at = "storing" /\ UNCHANGED <<chunk, query, aborted>>
        /\ Arrived(t, task[t].bytes)
    BY <1>4 DEF Stored, At
  <2>2. task[t].bytes \in Answers
    BY <2>1 DEF ResultsInv, At
  <2> QED
    BY <2>1, <2>2, ResultsArrive
<1>5. ASSUME NEW t \in Tasks, CacheFails(t) \/ StoreFails(t) PROVE ResultsInv'
  <2>1. /\ task[t].at \in {"lookup", "storing"} /\ UNCHANGED <<chunk, query, aborted>>
        /\ Failed(t)
    BY <1>5 DEF CacheFails, StoreFails, At
  <2> QED
    BY <2>1, ResultsFail
<1>6. ASSUME NEW t \in Tasks, CacheMiss(t) PROVE ResultsInv'
  <2>1. /\ task[t].at = "lookup" /\ UNCHANGED <<chunk, query, aborted, found, failures>>
    BY <1>6 DEF CacheMiss, At
  <2>2. SetTask(t, Task("fetching", Lane(t))) \/ SetTask(t, Task("queued", Lane(t)))
    BY <1>6 DEF CacheMiss
  <2>3. task'[t].at \in {"fetching", "queued"} /\ \A s \in Tasks : s # t => task'[s] = task[s]
    BY <1>1, <2>2 DEF SetTask, Task
  <2> QED
    BY <1>1, <2>1, <2>3, ResultsMove
<1>7. ASSUME NEW t \in Tasks, NEW bytes \in Answers, GatewayAnswers(t, bytes) PROVE ResultsInv'
  <2> PICK new : new = [Task("storing", Lane(t)) EXCEPT !.bytes = bytes]
    OBVIOUS
  <2>1. new.at = "storing" /\ new.bytes = bytes
    BY DEF Task
  <2>2. /\ At(t, "fetching") /\ Release(Lane(t), [task EXCEPT ![t] = new])
        /\ UNCHANGED <<chunk, query, aborted, found, failures>>
    BY <1>7 DEF GatewayAnswers
  <2>3. /\ task'[t] = new
        /\ \A s \in Tasks : s # t =>
             \/ task'[s] = task[s]
             \/ task[s].at = "queued" /\ task'[s].at = "fetching"
    BY <2>2, Handed
  <2> QED
    BY <1>1, <2>1, <2>2, <2>3, ResultsMove DEF At
<1>8. ASSUME NEW t \in Tasks, AttemptFails(t) PROVE ResultsInv'
  <2>1. At(t, "fetching") /\ UNCHANGED <<chunk, query, aborted, found>>
    BY <1>8 DEF AttemptFails
  <2>2. CASE task[t].attempt < MaxRetries
    <3> PICK new : new = [task[t] EXCEPT !.attempt = task[t].attempt + 1]
      OBVIOUS
    <3>1. new.at = task[t].at
      BY <1>1 DEF TaskType
    <3>2. task' = [task EXCEPT ![t] = new] /\ UNCHANGED failures
      BY <1>8, <2>2 DEF AttemptFails
    <3>3. task'[t].at = "fetching" /\ \A s \in Tasks : s # t => task'[s] = task[s]
      BY <1>1, <2>1, <3>1, <3>2 DEF At
    <3> QED
      BY <1>1, <2>1, <3>2, <3>3, ResultsMove DEF At
  <2>3. CASE ~(task[t].attempt < MaxRetries)
    <3>1. /\ Release(Lane(t), [task EXCEPT ![t] = Settled])
          /\ failures' = [failures EXCEPT ![t[1]] = @ \cup {t[2]}]
      BY <1>8, <2>3 DEF AttemptFails
    <3>2. /\ task'[t] = Settled
          /\ \A s \in Tasks : s # t =>
               \/ task'[s] = task[s]
               \/ task[s].at = "queued" /\ task'[s].at = "fetching"
      BY <2>1, <3>1, Handed
    <3>3. /\ failures' \in [Queries -> SUBSET Chunks] /\ t[2] \in failures'[t[1]]
          /\ \A q \in Queries : failures[q] \subseteq failures'[q]
      BY <1>1, <3>1
    <3>4. Settled.at = "settled"
      BY DEF Settled, Task
    <3> QED
      BY <1>1, <2>1, <3>2, <3>3, <3>4, ResultsMove DEF At
  <2> QED
    BY <2>2, <2>3
<1>9. CASE UNCHANGED vars
  BY <1>1, <1>9, ResultsMove DEF vars
<1> QED
  BY <1>2, <1>3, <1>4, <1>5, <1>6, <1>7, <1>8, <1>9 DEF Next

LEMMA ResultsHold == WholeAnswers => (Spec => []ResultsInv)
<1> SUFFICES ASSUME WholeAnswers PROVE Spec => []ResultsInv
  OBVIOUS
<1>1. LanesInv /\ ResultsInv /\ [Next]_vars => ResultsInv'
  BY ResultsStep
<1> QED
  BY ResultsInit, LanesHold, <1>1, PTL DEF Spec

(* An answer that names no failed chunk has every appearance of the address *)
(* in the range, and none has one too many, whatever fails, is retried, is  *)
(* read from the cache or is aborted beside it, if no gateway answers with  *)
(* a file cut off (reader.ts:13-15).                                        *)
THEOREM AnswersComplete == WholeAnswers => (Spec => []Complete)
<1> SUFFICES ASSUME WholeAnswers PROVE Spec => []Complete
  OBVIOUS
<1>1. ResultsInv => Complete
  <2> SUFFICES ASSUME ResultsInv, NEW q \in Queries, query[q] = "returned", q \notin aborted
               PROVE  /\ failures[q] = {} => found[q] = Wanted
                      /\ found[q] \subseteq Wanted
    BY DEF Complete
  <2>1. found[q] \subseteq Wanted
    BY DEF ResultsInv
  <2>2. ASSUME failures[q] = {}, NEW c \in Chunks PROVE Due(c) \subseteq found[q]
    <3>1. <<q, c>> \in Tasks /\ <<q, c>>[1] = q /\ <<q, c>>[2] = c
      BY DEF Tasks
    <3>2. At(<<q, c>>, "settled")
      BY <3>1 DEF ResultsInv
    <3> QED
      BY <2>2, <3>1, <3>2 DEF ResultsInv, AccountedFor
  <2> QED
    BY <2>1, <2>2, DueIsWanted
<1> QED
  BY ResultsHold, <1>1, PTL
================================================================================
