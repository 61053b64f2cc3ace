--------------------------- MODULE WorkPartition ---------------------------
(***************************************************************************)
(* How the generator divides the positions of a table among its workers    *)
(* (generator.c, generate_threaded_impl): whole pages, and a page is a     *)
(* number of whole words of the bitmaps, which that function insists on.   *)
(***************************************************************************)
EXTENDS Naturals

CONSTANTS ThreadCount,
          WordBits,   \* 64
          PageWords,  \* a page has PageWords * WordBits positions
          Positions   \* of the table; the last page may be short

ASSUME PartitionAssumption ==
  /\ ThreadCount \in Nat \ {0} /\ WordBits \in Nat \ {0}
  /\ PageWords \in Nat \ {0} /\ Positions \in Nat \ {0}

Worker == 0 .. ThreadCount - 1
Index == 0 .. Positions - 1
Bit == 0 .. WordBits - 1
WordOf(i) == i \div WordBits
Word == 0 .. WordOf(Positions - 1)

PagePositions == PageWords * WordBits
PageCount == (Positions + PagePositions - 1) \div PagePositions

FirstPage(w) ==
  w * (PageCount \div ThreadCount)
    + (IF w < PageCount % ThreadCount THEN w ELSE PageCount % ThreadCount)

AtMostAll(i) == IF i > Positions THEN Positions ELSE i

FirstIndex_Even(w) == (w * Positions) \div ThreadCount   \* Mutant: not whole pages
FirstIndex(w) == AtMostAll(FirstPage(w) * PagePositions)
EndIndex(w) == FirstIndex(w + 1)
RangeOf(w) == FirstIndex(w) .. EndIndex(w) - 1
=============================================================================
