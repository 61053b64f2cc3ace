------------------------------ MODULE MCWorkers ------------------------------
(***************************************************************************)
(* Small instances of what parallel workers share: the streams of the      *)
(* frontier generator, its bitmaps, or the slices that are merged into one *)
(* database.  One of the three is at work, and the other two are idle.     *)
(***************************************************************************)
EXTENDS FrontierStore, CandidateBitmap, SliceMerge

all == <<bitmapVars, storeVars, mergeVars>>

ThreeAndOne == [o \in Owner |-> IF o = 0 THEN 3 ELSE 1]
SomeRanges == {<<0, 2>>, <<0, 1>>, <<1, 2>>, <<1, 1>>}

SomeSources == {{}, {2, 3}, {0, 4, 6}}
SomeMarks == [Worker -> {{}, {0, 3}, {1, 3, 6}}]

(* Every mapping of two slices of at most three entries each: complete,    *)
(* overlapping, short or out of order.  (The slices may change roles.)     *)
UpToThree == UNION {[1 .. l -> 0 .. MergedPositions - 1] : l \in 0 .. 3}
AllRankings ==
  {r \in [{"a", "b"} -> UpToThree] :
     r["a"] # <<>> /\ r["b"] # <<>> => r["a"][1] <= r["b"][1]}

Elsewhere == [op |-> "elsewhere"]

NoMerge ==
  /\ rank = [s \in Slice |-> <<>>]
  /\ faulty = TRUE
  /\ mergeStage = "failed"
  /\ mergeCursor = 0
  /\ from = <<>> /\ upto = <<>> /\ status = [w \in Merger |-> "failed"] /\ next = <<>>
  /\ heap = <<>> /\ expected = <<>> /\ buffer = <<>> /\ output = <<>>
  /\ cancelled = FALSE

MCInit ==
  \/ Init /\ BitmapsFrom("elsewhere") /\ NoMerge
  \/ BitmapInit /\ StoreFrom(Elsewhere) /\ NoMerge
  \/ BitmapsFrom("elsewhere") /\ StoreFrom(Elsewhere) /\ MergeInit

MCNext ==
  \/ Next /\ UNCHANGED <<bitmapVars, mergeVars>>
  \/ BitmapNext /\ UNCHANGED <<storeVars, mergeVars>>
  \/ MergeNext /\ UNCHANGED <<bitmapVars, storeVars>>

MCSpec == MCInit /\ [][MCNext]_all
=============================================================================
