----------------------------- MODULE ChunkFile -----------------------------
(***************************************************************************)
(* The files of the Unchained Index as @valve-tech/unchained-reader reads  *)
(* them.  A chunk has a range of blocks, a bloom file, which is a sequence *)
(* of filters, each the set of its lit bits, and an index file: a table of *)
(* addresses, ascending, each with a slice of the appearance table.        *)
(* Records are numbered from 0, as in the file.                            *)
(***************************************************************************)
EXTENDS Integers, Sequences

CONSTANT BitsOf   \* the bits that an address selects

\* rangesOverlap and inRange of reader.ts.
RangesOverlap(a, b) == a.first <= b.last /\ b.first <= a.last
InRange(app, range) == range.first <= app.block /\ app.block <= range.last

(* Mutant: every filter has to have the bits. *)
InEveryFilter(bloom, address) ==
  \A j \in DOMAIN bloom : BitsOf[address] \subseteq bloom[j]

MightContain(bloom, address) ==
  \E j \in DOMAIN bloom : BitsOf[address] \subseteq bloom[j]

(* Mutant: the search gives up when one record is left. *)
FindShort(table, target) ==
  LET search[r \in (0..Len(table)) \X (-1..(Len(table) - 1))] ==
        LET lo == r[1]
            hi == r[2]
            mid == (lo + hi) \div 2
            here == table[mid + 1].address
        IN IF lo >= hi THEN -1
           ELSE IF here = target THEN mid
           ELSE IF here < target THEN search[<<mid + 1, hi>>]
           ELSE search[<<lo, mid - 1>>]
  IN search[<<0, Len(table) - 1>>]

\* The record of an address, -1 if it has none.
Find(table, target) ==
  LET search[r \in (0..Len(table)) \X (-1..(Len(table) - 1))] ==
        LET lo == r[1]
            hi == r[2]
            mid == (lo + hi) \div 2
            here == table[mid + 1].address
        IN IF lo > hi THEN -1
           ELSE IF here = target THEN mid
           ELSE IF here < target THEN search[<<mid + 1, hi>>]
           ELSE search[<<lo, mid - 1>>]
  IN search[<<0, Len(table) - 1>>]

\* What a reader takes for granted of a chunk as published: the table ascends,
\* a record's slice lies in the appearance table, the appearances lie in the
\* chunk's range, and for every address of the table a filter has its bits.
Published(chunk) ==
  LET table == chunk.index.table
      apps  == chunk.index.apps
  IN /\ table \in Seq([address : Int, offset : Nat, count : Nat])
     /\ \A i, j \in 1..Len(table) : i < j => table[i].address < table[j].address
     /\ \A i \in 1..Len(table) : /\ table[i].offset + table[i].count <= Len(apps)
                                 /\ MightContain(chunk.bloom, table[i].address)
     /\ apps \in Seq([block : Nat, tx : Nat])
     /\ chunk.range \in [first : Nat, last : Nat]
     /\ \A i \in 1..Len(apps) : InRange(apps[i], chunk.range)

AppearancesOf(file, address) ==
  LET at  == Find(file.table, address)
      rec == file.table[at + 1]
  IN IF at = -1 THEN {}
     ELSE {file.apps[i + 1] : i \in rec.offset..(rec.offset + rec.count - 1)}
=============================================================================
