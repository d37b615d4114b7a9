------------------------------- MODULE ReorgRing -------------------------------
(***************************************************************************)
(* The reorg detector of @valve-tech/tx-tracker, packages/tx-tracker/src/  *)
(* reorg.ts: a bounded ring of observed blocks and its comparison with     *)
(* blocks known to be canonical.                                           *)
(*                                                                         *)
(* A block hash commits to the block's ancestry, so a block is its chain:  *)
(* the sequence of what was put in each block from the first one on.  Its  *)
(* number is its length and its ancestors are its prefixes.  The code      *)
(* keeps the ring as an array sorted by number with one entry a number;    *)
(* that is a set of blocks of different numbers.                           *)
(***************************************************************************)
EXTENDS Naturals, Sequences, FiniteSets

Number(b) == Len(b)

\* What the last block of the chain b holds.
Transactions(b) == b[Len(b)].txs

\* b's ancestor of number n, b itself included.
Ancestor(b, n) == SubSeq(b, 1, n)
IsAncestor(a, b) == Len(a) <= Len(b) /\ Ancestor(b, Len(a)) = a

OnChain(t, b) == \E i \in 1..Len(b) : t \in b[i].txs

\* The ancestor of b that holds t.
InclusionOf(t, b) == Ancestor(b, CHOOSE i \in 1..Len(b) : t \in b[i].txs)

-----------------------------------------------------------------------------
\* The cap highest blocks of a set of blocks of different numbers.
Highest(blocks, cap) ==
  {x \in blocks : Cardinality({y \in blocks : Number(y) > Number(x)}) < cap}

AppendBlock(ring, b, cap) ==
  Highest({x \in ring : Number(x) # Number(b)} \cup {b}, cap)

\* The last element of the sorted array.
TipNumber(blocks) == CHOOSE n \in {Number(x) : x \in blocks} :
                       \A y \in blocks : Number(y) <= n

\* Mutant: the depth is counted from the block below the tip.
DivergencesOffByOne(ring, canonical, depth) ==
  IF ring = {} \/ canonical = {} THEN {}
  ELSE {x \in ring :
          /\ Number(x) + depth > TipNumber(ring \cup canonical) + 1
          /\ \E c \in canonical : Number(c) = Number(x) /\ c # x}

\* The ring's blocks at the last `depth` heights that a canonical block of the
\* same number displaces.
DetectDivergences(ring, canonical, depth) ==
  IF ring = {} \/ canonical = {} THEN {}
  ELSE {x \in ring :
          /\ Number(x) + depth > TipNumber(ring \cup canonical)
          /\ \E c \in canonical : Number(c) = Number(x) /\ c # x}
================================================================================
