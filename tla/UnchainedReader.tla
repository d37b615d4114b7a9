--------------------------- MODULE UnchainedReader ---------------------------
(***************************************************************************)
(* @valve-tech/unchained-reader: getAppearances over the fetcher, whose    *)
(* two lanes, retries, timeouts and cache several queries share.           *)
(*                                                                         *)
(* A query works on all chunks in scope at once; what it does for one of   *)
(* them is a task: look the bloom file up in the cache, wait for a slot of *)
(* the normal lane, fetch, cache, and on a hit the same for the index file *)
(* in the priority lane.                                                   *)
(***************************************************************************)
EXTENDS Integers, FiniteSets, Sequences

CONSTANTS
  None,
  Queries, Chunks,
  Manifests,   \* what the chunks hold: of each its range, bloom and index file
  Address,     \* the address the queries are about
  BlockRange,  \* the blocks a query is restricted to
  BitsOf,
  Limit,       \* slots of each lane: concurrency and priorityConcurrency
  MaxRetries,
  Answers,     \* what a gateway may answer: "whole", "garbled" or "truncated" bytes
  Abortable    \* the queries that have a signal

C == INSTANCE ChunkFile
Files == {"bloom", "index"}      \* also the lanes: an index file has priority
Tasks == Queries \X Chunks

ASSUME ReaderAssumption ==
  /\ IsFiniteSet(Queries) /\ IsFiniteSet(Chunks)
  /\ \A m \in Manifests : DOMAIN m = Chunks
  /\ DOMAIN Limit = Files /\ \A l \in Files : Limit[l] \in Nat
  /\ MaxRetries \in Nat /\ Answers \subseteq {"whole", "garbled", "truncated"}
  /\ Abortable \subseteq Queries

\* The index is what its publishers made it, an answer of a gateway may not be.
ASSUME IndexAssumption ==
  /\ Address \in Int /\ BlockRange \in [first : Nat, last : Nat]
  /\ \A m \in Manifests, c \in Chunks : C!Published(m[c])

VARIABLES
  chunk,     \* what each chunk of the manifest holds
  query,     \* "idle", "manifest", "scanning", "returned" or "rejected"
  aborted,   \* queries whose signal is aborted
  task,      \* what a query does for a chunk
  active,    \* slots of a lane in use
  queue,     \* tasks that wait for a slot
  cache,     \* the bytes put for a chunk's file, None before
  found,     \* the appearances of a query so far
  failures   \* the chunks it reports as failed

lanes == <<active, queue>>
vars == <<chunk, query, aborted, task, lanes, cache, found, failures>>

Task(at, file) == [at |-> at, file |-> file, attempt |-> 0, bytes |-> None]
Idle == Task("idle", "bloom")
Settled == Task("settled", "bloom")

Init ==
  /\ chunk \in Manifests
  /\ query = [q \in Queries |-> "idle"] /\ aborted = {}
  /\ task = [t \in Tasks |-> Idle]
  /\ active = [l \in Files |-> 0] /\ queue = [l \in Files |-> <<>>]
  /\ cache = [f \in Chunks \X Files |-> None]
  /\ found = [q \in Queries |-> {}] /\ failures = [q \in Queries |-> {}]

At(t, at) == task[t].at = at
SetTask(t, new) == task' = [task EXCEPT ![t] = new]

-----------------------------------------------------------------------------
\* getAppearances.

GetAppearances(q) ==
  /\ query[q] = "idle"
  /\ query' = [query EXCEPT ![q] = "manifest"]
  /\ UNCHANGED <<chunk, aborted, task, lanes, cache, found, failures>>

InScope == {c \in Chunks : C!RangesOverlap(chunk[c].range, BlockRange)}

\* processChunk starts for every chunk in scope; its first check for an abort
\* comes before anything is fetched.
ResolveManifest(q) ==
  /\ query[q] = "manifest"
  /\ query' = [query EXCEPT ![q] = "scanning"]
  /\ task' = [t \in Tasks |->
       IF t[1] # q THEN task[t]
       ELSE IF t[2] \in InScope /\ q \notin aborted THEN Task("lookup", "bloom")
       ELSE Settled]
  /\ UNCHANGED <<chunk, aborted, lanes, cache, found, failures>>

RejectManifest(q) ==
  /\ query[q] = "manifest"
  /\ query' = [query EXCEPT ![q] = "rejected"]
  /\ UNCHANGED <<chunk, aborted, task, lanes, cache, found, failures>>

Abort(q) ==
  /\ q \in Abortable \ aborted /\ query[q] \in {"manifest", "scanning"}
  /\ aborted' = aborted \cup {q}
  /\ UNCHANGED <<chunk, query, task, lanes, cache, found, failures>>

Return(q) ==
  /\ query[q] = "scanning"
  /\ \A c \in Chunks : At(<<q, c>>, "settled")
  /\ query' = [query EXCEPT ![q] = "returned"]
  /\ UNCHANGED <<chunk, aborted, task, lanes, cache, found, failures>>

\* The await of fetchCid rejects, or what it brought cannot be parsed.
Failed(t) ==
  /\ SetTask(t, Settled)
  /\ failures' = [failures EXCEPT ![t[1]] = @ \cup {t[2]}]
  /\ UNCHANGED found

Kept(t) == {a \in C!AppearancesOf(chunk[t[2]].index, Address) : C!InRange(a, BlockRange)}

\* The rest of processChunk once fetchCid resolves.  A truncated bloom file has
\* no lit bits where its body is missing; a truncated index throws, or, cut in
\* its address table, has no record of the address.
Arrived(t, bytes) ==
  CASE bytes = "garbled" -> Failed(t)
    [] bytes # "garbled" /\ task[t].file = "bloom" ->
         /\ IF /\ bytes = "whole" /\ C!MightContain(chunk[t[2]].bloom, Address)
               /\ t[1] \notin aborted
            THEN SetTask(t, Task("lookup", "index"))
            ELSE SetTask(t, Settled)
         /\ UNCHANGED <<found, failures>>
    [] OTHER ->
         \/ bytes = "truncated" /\ Failed(t)
         \/ /\ SetTask(t, Settled)
            /\ found' = [found EXCEPT ![t[1]] =
                 @ \cup IF bytes = "whole" THEN Kept(t) ELSE {}]
            /\ UNCHANGED failures

-----------------------------------------------------------------------------
\* fetchCid and the limiter.

File(t) == <<t[2], task[t].file>>
Lane(t) == task[t].file

CacheHit(t) ==
  /\ At(t, "lookup") /\ cache[File(t)] # None
  /\ Arrived(t, cache[File(t)])
  /\ UNCHANGED <<chunk, query, aborted, lanes, cache>>

\* A slot, or a place in the queue.
CacheMiss(t) ==
  /\ At(t, "lookup") /\ cache[File(t)] = None
  /\ IF active[Lane(t)] < Limit[Lane(t)]
     THEN /\ active' = [active EXCEPT ![Lane(t)] = @ + 1]
          /\ SetTask(t, Task("fetching", Lane(t)))
          /\ UNCHANGED queue
     ELSE /\ queue' = [queue EXCEPT ![Lane(t)] = Append(@, t)]
          /\ SetTask(t, Task("queued", Lane(t)))
          /\ UNCHANGED active
  /\ UNCHANGED <<chunk, query, aborted, cache, found, failures>>

CacheFails(t) ==
  /\ At(t, "lookup") /\ Failed(t)
  /\ UNCHANGED <<chunk, query, aborted, lanes, cache>>

(* Mutant: a slot that is given back does not start the next task. *)
ReleaseQuietly(l, new) ==
  /\ active' = [active EXCEPT ![l] = @ - 1]
  /\ task' = new /\ UNCHANGED queue

(* Mutant: the next task starts without a slot of its own being counted. *)
ReleaseTwice(l, new) ==
  /\ active' = [active EXCEPT ![l] = @ - 1]
  /\ IF queue[l] = <<>> THEN task' = new /\ UNCHANGED queue
     ELSE /\ task' = [new EXCEPT ![Head(queue[l])] = Task("fetching", l)]
          /\ queue' = [queue EXCEPT ![l] = Tail(@)]

\* next(): the slot goes to the task at the head of the queue.
Release(l, new) ==
  IF queue[l] = <<>>
  THEN /\ active' = [active EXCEPT ![l] = @ - 1]
       /\ task' = new /\ UNCHANGED queue
  ELSE /\ task' = [new EXCEPT ![Head(queue[l])] = Task("fetching", l)]
       /\ queue' = [queue EXCEPT ![l] = Tail(@)]
       /\ UNCHANGED active

GatewayAnswers(t, bytes) ==
  /\ At(t, "fetching")
  /\ Release(Lane(t), [task EXCEPT ![t] = [Task("storing", Lane(t)) EXCEPT !.bytes = bytes]])
  /\ UNCHANGED <<chunk, query, aborted, cache, found, failures>>

\* An attempt fails, by an error of the gateway or by the timeout.
AttemptFails(t) ==
  /\ At(t, "fetching")
  /\ IF task[t].attempt < MaxRetries
     THEN /\ task' = [task EXCEPT ![t].attempt = @ + 1]
          /\ UNCHANGED <<lanes, failures>>
     ELSE /\ Release(Lane(t), [task EXCEPT ![t] = Settled])
          /\ failures' = [failures EXCEPT ![t[1]] = @ \cup {t[2]}]
  /\ UNCHANGED <<chunk, query, aborted, cache, found>>

\* cache.put, of bytes nobody has looked at yet, and then processChunk.
Stored(t) ==
  /\ At(t, "storing")
  /\ cache' = [cache EXCEPT ![File(t)] = task[t].bytes]
  /\ Arrived(t, task[t].bytes)
  /\ UNCHANGED <<chunk, query, aborted, lanes>>

StoreFails(t) ==
  /\ At(t, "storing") /\ Failed(t)
  /\ UNCHANGED <<chunk, query, aborted, lanes, cache>>

Next ==
  \/ \E q \in Queries : \/ GetAppearances(q) \/ ResolveManifest(q)
                        \/ RejectManifest(q) \/ Abort(q) \/ Return(q)
  \/ \E t \in Tasks : \/ CacheHit(t) \/ CacheMiss(t) \/ CacheFails(t)
                      \/ AttemptFails(t) \/ Stored(t) \/ StoreFails(t)
                      \/ \E bytes \in Answers : GatewayAnswers(t, bytes)

Spec == Init /\ [][Next]_vars

\* A gateway need not answer: the timer of fetchOnce ends an attempt.  The
\* cache answers, and promises that are settled are acted upon.
Fairness ==
  /\ \A q \in Queries : WF_vars(ResolveManifest(q) \/ RejectManifest(q)) /\ WF_vars(Return(q))
  /\ \A t \in Tasks : /\ WF_vars(CacheHit(t) \/ CacheMiss(t) \/ CacheFails(t))
                      /\ WF_vars(AttemptFails(t))
                      /\ WF_vars(Stored(t) \/ StoreFails(t))
FairSpec == Spec /\ Fairness

-----------------------------------------------------------------------------
(* An answer without failures has every appearance of the address in the    *)
(* range that the manifest's chunks hold, and nothing else: no silent       *)
(* downgrade (reader.ts:13-15), unless the query was aborted.               *)
Held(c) == {chunk[c].index.apps[i + 1] :
  i \in UNION {r.offset..(r.offset + r.count - 1) :
               r \in {chunk[c].index.table[j] : j \in {k \in DOMAIN chunk[c].index.table :
                        chunk[c].index.table[k].address = Address}}}}
Wanted == {a \in UNION {Held(c) : c \in Chunks} :
             BlockRange.first <= a.block /\ a.block <= BlockRange.last}
Complete ==
  \A q \in Queries : query[q] = "returned" /\ q \notin aborted =>
    /\ failures[q] = {} => found[q] = Wanted
    /\ found[q] \subseteq Wanted

(* A slot is counted for each fetch under way, never more than the lane has, *)
(* and none is free while a task waits: retries, timeouts and failures give *)
(* theirs back (fetcher.ts:94-111).                                         *)
LanesBusy ==
  \A l \in Files :
    /\ active[l] = Cardinality({t \in Tasks : At(t, "fetching") /\ Lane(t) = l})
    /\ active[l] <= Limit[l]
    /\ queue[l] # <<>> => active[l] = Limit[l]

(* Every query ends, whatever the gateway leaves unanswered                 *)
(* (fetcher.ts:59-65).                                                      *)
QueryEnds == \A q \in Queries : query[q] = "manifest" ~> query[q] \in {"returned", "rejected"}

-----------------------------------------------------------------------------
(* What comments of the repository say and the code does not do.            *)

(* reader.ts:63: failures "Empty = fully complete"; 15: a partial answer is *)
(* never returned looking complete.                                         *)
NeverLooksComplete ==
  \A q \in Queries : query[q] = "returned" /\ failures[q] = {} => found[q] = Wanted

(* fetcher.ts:11-12: "a cache hit is always valid".                         *)
CacheValid == \A f \in Chunks \X Files : cache[f] \in {None, "whole"}

(* reader.ts:56: the signal aborts an in-flight query, so no request starts *)
(* for it afterwards.                                                       *)
AbortStops ==
  [][\A t \in Tasks : t[1] \in aborted /\ ~At(t, "fetching") => task'[t].at # "fetching"]_vars
=============================================================================
