----------------------------- MODULE MCTxObserver -----------------------------
(* Instances of TxObserver for TLC; the cfgs give the other constants. *)
EXTENDS TxObserver, TLC

CONSTANTS
  Forks,       \* tells apart blocks of one parent and one content
  MinHeight,   \* the blocks up to this number are one and empty
  MaxHeight,
  Contents     \* sets of transactions a block may hold

\* Each transaction and each slot at most once on a chain.
Valid(b) ==
  /\ \A i \in 1..Len(b) : i <= MinHeight => b[i] = [fork |-> 0, txs |-> {}]
  /\ \A i, j \in 1..Len(b) : \A t \in b[i].txs, u \in b[j].txs :
       SlotOf[t] = SlotOf[u] => i = j /\ t = u

\* One block, the empty one, above a given parent is named by fork 0.
MCChains ==
  {b \in UNION {[1..n -> [fork : Forks, txs : Contents]] : n \in MinHeight..MaxHeight} :
     Valid(b)}

\* The slot of every transaction: o and its replacement r share one.
OneSlot == [t \in Txs |-> 0]
OwnSlots == [t \in Txs |-> t]

NoPolls == [k \in PollKinds |-> 0]
StatusPoll == [NoPolls EXCEPT !["status"] = 1]
SlowReceipts == [NoPolls EXCEPT !["receipt"] = 2]
AllPolls == [k \in PollKinds |-> IF k = "receipt" THEN 2 ELSE 1]

NoPools == {}
AllPools == Snapshots
NoChanges == {}
Negotiation == {<<0, 1>>, <<0, 2>>, <<2, 1>>}
OnlyProbe == {<<0, 2>>}
================================================================================
