---------------------------- MODULE MCTxConsumers ----------------------------
(* Instances of TxConsumers for TLC; the blocks and polls are MCTxObserver's. *)
EXTENDS MCTxObserver, TxConsumers

AllUses == {"group", "wait", "watch", "pending"}

\* o and r share a slot, q has its own.
CONSTANTS o, q, r
TwoSlots == [t \in Txs |-> IF t = q THEN 1 ELSE 0]
\* The one snapshot holds the replacement of o.
Rival == {[t \in Txs |-> IF t = r THEN "pending" ELSE None]}
================================================================================
