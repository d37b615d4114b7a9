--------------------------- MODULE EventIterator ---------------------------
(***************************************************************************)
(* The queue behind every async iterator of @valve-tech/tx-tracker:        *)
(* track(hash), the match stream of a bulk subscription and the event      *)
(* stream of a group each keep events nobody asked for yet in `queue` and  *)
(* unanswered next() calls in `waiters`.  Only how many there are matters  *)
(* here: both are first-in first-out.                                      *)
(***************************************************************************)
EXTENDS Naturals

Opened == [queued |-> 0, parked |-> 0, done |-> FALSE]

\* n events arrive: each answers a parked next() call or is queued.
Push(it, n) ==
  LET answered == IF n < it.parked THEN n ELSE it.parked
  IN [it EXCEPT !.queued = @ + (n - answered), !.parked = @ - answered]

\* The event that ends the iteration; the calls it leaves parked are answered
\* with the end.
Close(it) == [Push(it, 1) EXCEPT !.done = TRUE, !.parked = 0]

\* next(): a queued event, the end, or a parked promise.
NextCall(it, over) ==
  IF it.queued > 0 THEN [it EXCEPT !.queued = @ - 1]
  ELSE IF it.done \/ over THEN it
  ELSE [it EXCEPT !.parked = @ + 1]

\* return(): the end, for the parked calls as well.
Returned(it) == [it EXCEPT !.done = TRUE, !.parked = 0]
=============================================================================
