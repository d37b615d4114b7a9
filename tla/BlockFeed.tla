------------------------------- MODULE BlockFeed -------------------------------
(***************************************************************************)
(* What `subscribeBlocks` promises, with no polling, sockets or timers in  *)
(* it.  A node's head moves through a history of blocks; a consumer is     *)
(* handed blocks that were the head at some time, and is never handed the  *)
(* same block twice running.  A reset (the source's stop()) forgets what   *)
(* was handed out, so that the next session starts with a current block.   *)
(***************************************************************************)
EXTENDS Naturals, Sequences

CONSTANT Blocks

VARIABLES
  history,   \* the node's heads, oldest first; the last one is the head now
  feed       \* positions in history of the blocks handed out since the reset

vars == <<history, feed>>

Init ==
  /\ \E b \in Blocks : history = <<b>>
  /\ feed = <<>>

\* The node adopts another head: a block on top, several blocks, or a reorg.
Adopt ==
  /\ \E b \in Blocks \ {history[Len(history)]} : history' = Append(history, b)
  /\ UNCHANGED feed

\* The consumer is handed the block that was the head at position p.
HandOut(p) ==
  /\ feed # <<>> => history[p] # history[feed[Len(feed)]]
  /\ feed' = Append(feed, p)
  /\ UNCHANGED history

Reset ==
  /\ feed' = <<>>
  /\ UNCHANGED history

Next == Adopt \/ Reset \/ \E p \in 1..Len(history) : HandOut(p)

Spec == Init /\ [][Next]_vars
================================================================================
