---------------------------- MODULE FlightStore ----------------------------
(***************************************************************************)
(* The reducers of @valve-tech/tx-flight-react (store/reducers.ts): what   *)
(* an operation makes of the entries `txs` and of the entries that have a  *)
(* watcher, `watched`.  Pure: store.ts stops the watchers they let go.     *)
(* Of an entry: its status, when it was submitted, and confirmedAt (None   *)
(* until the entry settles).  "lost" is `failed` with the note the provider *)
(* gives an entry that was lost during a reload.                           *)
(***************************************************************************)
EXTENDS Integers, FiniteSets

CONSTANTS None, Entries   \* Entries: the ids

Terminal == {"confirmed", "failed", "lost", "dropped", "replaced"}
Statuses == {"preparing", "awaiting-signature", "pending"} \cup Terminal

EmptyStore == [txs |-> [e \in Entries |-> None], watched |-> {}]
In(s) == {e \in Entries : s.txs[e] # None}
NewTx(status, now) == [status |-> status, submittedAt |-> now, confirmedAt |-> None]
IsTerminal(tx) == tx.status \in Terminal

AddReducer(s, e, tx, watcher) ==
  [txs |-> [s.txs EXCEPT ![e] = tx],
   watched |-> IF watcher THEN s.watched \cup {e} ELSE s.watched \ {e}]

\* An entry that settles is stamped, once.
UpdateReducer(s, e, status, now) ==
  LET tx == [s.txs[e] EXCEPT !.status = status]
  IN IF e \notin In(s) THEN s
     ELSE [s EXCEPT !.txs[e] =
             IF IsTerminal(tx) /\ tx.confirmedAt = None
             THEN [tx EXCEPT !.confirmedAt = now] ELSE tx]

RemoveAll(s, gone) ==
  [txs |-> [e \in Entries |-> IF e \in gone THEN None ELSE s.txs[e]],
   watched |-> s.watched \ gone]
RemoveReducer(s, e) == RemoveAll(s, {e})

SettledOrSubmittedAt(tx) ==
  IF IsTerminal(tx) /\ tx.confirmedAt # None THEN tx.confirmedAt ELSE tx.submittedAt

Expired(s, retention, now) ==
  {e \in In(s) : /\ IsTerminal(s.txs[e])
                 /\ now - SettledOrSubmittedAt(s.txs[e]) > retention}

(* Mutant: the oldest goes first, settled or not. *)
BeforeByAge(x, y) == SettledOrSubmittedAt(x) < SettledOrSubmittedAt(y)

\* The order in which entries over the cap go: terminal ones, then old ones.
Before(x, y) ==
  IF IsTerminal(x) # IsTerminal(y) THEN IsTerminal(x)
  ELSE SettledOrSubmittedAt(x) < SettledOrSubmittedAt(y)

\* The results evictReducer may have: which of two entries of the same age
\* goes is the order of insertion, which the model leaves open.
EvictReducer(s, maxItems, retention, now) ==
  LET survivors == In(s) \ Expired(s, retention, now)
      surplus   == Cardinality(survivors) - maxItems
  IN {RemoveAll(s, Expired(s, retention, now) \cup extra) :
        extra \in {x \in SUBSET survivors :
                     /\ Cardinality(x) = IF surplus > 0 THEN surplus ELSE 0
                     /\ \A e \in x, f \in survivors \ x : ~Before(s.txs[f], s.txs[e])}}
=============================================================================
