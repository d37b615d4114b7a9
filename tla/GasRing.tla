-------------------------------- MODULE GasRing --------------------------------
(***************************************************************************)
(* The block window of @valve-tech/gas-oracle, packages/gas-oracle/src/    *)
(* ring.ts: what a ring of recent blocks becomes when a block is observed. *)
(*                                                                         *)
(* A block hash commits to the block's ancestry, so a block is its chain:  *)
(* a sequence with one tag for each of its ancestors and itself.  Its      *)
(* number is its length, its parent the sequence without the last tag.     *)
(***************************************************************************)
EXTENDS Naturals, Sequences

Number(b) == Len(b)
Ancestor(b, n) == SubSeq(b, 1, n)
Parent(b) == Ancestor(b, Len(b) - 1)
IsAncestor(a, b) == Len(a) <= Len(b) /\ Ancestor(b, Len(a)) = a

\* capTail: the newest blocks of the ring; a cap of 0 is none.
CapTail(ring, cap) ==
  IF cap = 0 \/ Len(ring) <= cap THEN ring
  ELSE SubSeq(ring, Len(ring) - cap + 1, Len(ring))

\* The newest entry that is not above b, 0 when every entry is.
MatchIndex(ring, b) ==
  CHOOSE i \in 0..Len(ring) :
    /\ i > 0 => Number(ring[i]) <= Number(b)
    /\ \A j \in (i + 1)..Len(ring) : Number(ring[j]) > Number(b)

Mutation(ring, dropped) == [ring |-> ring, dropped |-> dropped]

\* Mutant: the last block that stays is reported as dropped.
GraftMisreported(ring, k, b, cap) ==
  Mutation(CapTail(Append(SubSeq(ring, 1, k), b), cap),
           IF k = 0 THEN ring ELSE SubSeq(ring, k, Len(ring)))

\* The first k blocks stay, b comes after them, the rest is a dropped branch.
Graft(ring, k, b, cap) ==
  Mutation(CapTail(Append(SubSeq(ring, 1, k), b), cap), SubSeq(ring, k + 1, Len(ring)))

\* Mutant: a gap is no reason to start over.
IncorporateOver(ring, b, cap) ==
  LET m == MatchIndex(ring, b)
  IN IF m = 0 THEN Mutation(<<b>>, <<>>)
     ELSE IF ring[m] = b THEN Mutation(ring, <<>>)
     ELSE IF Number(ring[m]) = Number(b) THEN Graft(ring, m - 1, b, cap)
     ELSE Graft(ring, m, b, cap)

\* Mutant: the block a reorg replaces stays.
IncorporateBeside(ring, b, cap) ==
  LET m == MatchIndex(ring, b)
  IN IF m = 0 THEN Mutation(<<b>>, <<>>)
     ELSE IF ring[m] = b THEN Mutation(ring, <<>>)
     ELSE IF Number(ring[m]) = Number(b) \/ ring[m] = Parent(b) THEN Graft(ring, m, b, cap)
     ELSE Mutation(<<b>>, <<>>)

\* Restart, duplicate, reorg at b's height, append after b's parent, restart.
IncorporateBlock(ring, b, cap) ==
  LET m == MatchIndex(ring, b)
  IN IF m = 0 THEN Mutation(<<b>>, <<>>)
     ELSE IF ring[m] = b THEN Mutation(ring, <<>>)
     ELSE IF Number(ring[m]) = Number(b) THEN Graft(ring, m - 1, b, cap)
     ELSE IF ring[m] = Parent(b) THEN Graft(ring, m, b, cap)
     ELSE Mutation(<<b>>, <<>>)

Dense(ring) ==
  \A i \in 1..(Len(ring) - 1) : Number(ring[i + 1]) = Number(ring[i]) + 1

Linked(ring) == \A i \in 1..(Len(ring) - 1) : ring[i] = Parent(ring[i + 1])
================================================================================
