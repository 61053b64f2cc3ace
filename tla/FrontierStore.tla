--------------------------- MODULE FrontierStore ---------------------------
(***************************************************************************)
(* The frontier store (frontier.c).  Every owner appends to streams of its *)
(* own, one for each distance; a full buffer becomes a block of the        *)
(* owner's temporary file, and a directory in memory says where it is and  *)
(* between which indices its records lie.  The owners share only the       *)
(* longest distance, which they raise with a compare-and-swap.             *)
(*                                                                         *)
(* A compressed block is a number of cells of the file; it can be read     *)
(* back iff all of them are still those of one write.                      *)
(***************************************************************************)
EXTENDS WorkPartition, Sequences, FiniteSets, SequencesExt, FiniteSetsExt

CONSTANTS Records,       \* the positions that are appended
          Distances,
          BlockRecords,  \* FRONTIER_BLOCK_RECORDS
          Ranges,        \* the ranges <<first, end>> that are visited
          BlockSizes,    \* what a compressed block may take
          FileSize,      \* the cells the disk has for an owner's file
          MaxRecords     \* owner -> a bound on its records

(* Every worker owns the streams of its positions. *)
Owner == Worker

ASSUME StoreAssumption ==
  /\ Records \subseteq Index /\ Distances \subseteq Nat /\ BlockSizes \subseteq Nat \ {0}
  /\ {BlockRecords, FileSize} \subseteq Nat \ {0}
  /\ \A r \in Ranges : r[1] \in Nat /\ r[2] \in Nat /\ r[1] <= r[2]
  /\ MaxRecords \in [Owner -> Nat]

VARIABLES
  pending,  \* owner -> stream -> its write buffer
  blocks,   \* owner -> stream -> its block directory
  file,     \* owner -> the cells of its file
  endOffset,
  maximum,  \* maximum_distance
  thread,   \* owner -> what its worker is doing
  answer,   \* the records the last visit met
  failed

storeVars == <<pending, blocks, file, endOffset, maximum, thread, answer, failed>>

Free == "free"
Idle == [op |-> "idle"]

(* An empty store, and t is what every worker does. *)
StoreFrom(t) ==
  /\ pending = [o \in Owner |-> [d \in Distances |-> << >>]]
  /\ blocks = pending
  /\ file = [o \in Owner |-> [n \in 1 .. FileSize |-> Free]]
  /\ endOffset = [o \in Owner |-> 0]
  /\ maximum = 0
  /\ thread = [o \in Owner |-> t]
  /\ answer = << >>
  /\ failed = FALSE

Init == StoreFrom(Idle)

-----------------------------------------------------------------------------
Cells(records, size) == [k \in 1 .. size |-> [of |-> records, part |-> k]]

(* write_all_at *)
Written(f, at, cells) ==
  [n \in DOMAIN f |-> IF n - at \in DOMAIN cells THEN cells[n - at] ELSE f[n]]

Whole(f, b) ==
  \A k \in 1 .. b.size : f[b.offset + k] = [of |-> b.checksum, part |-> k]

NewBlock(o, records, size) ==
  [offset |-> endOffset[o], size |-> size, checksum |-> records,
   minimum |-> Min(ToSet(records)), maximum |-> Max(ToSet(records))]

Advanced_One(o, size) == endOffset[o] + 1   \* Mutant: counts blocks, not bytes
Advanced(o, size) == endOffset[o] + size

(* append_block: what it makes of the owner's file and directory. *)
Flush(o, d, size) ==
  LET records == pending[o][d] IN
  /\ endOffset[o] + size <= FileSize
  /\ file' = [file EXCEPT ![o] = Written(@, endOffset[o], Cells(records, size))]
  /\ blocks' = [blocks EXCEPT ![o][d] = Append(@, NewBlock(o, records, size))]
  /\ endOffset' = [endOffset EXCEPT ![o] = Advanced(o, size)]

DoesNotFit(o) == \E size \in BlockSizes : endOffset[o] + size > FileSize

-----------------------------------------------------------------------------
Count(o) == FoldSet(LAMBDA d, n :
  n + Len(pending[o][d]) + FoldSeq(LAMBDA b, k : k + Len(b.checksum), 0, blocks[o][d]),
  0, Distances)

(* frontier_store_append: the record, then the longest distance. *)
AppendRecord(o, d, i) ==
  /\ ~failed /\ thread[o] = Idle
  /\ Count(o) < MaxRecords[o]
  /\ pending' = [pending EXCEPT ![o][d] = Append(@, i)]
  /\ thread' = [thread EXCEPT ![o] = [op |-> "raise", distance |-> d, observed |-> maximum]]
  /\ answer' = << >>
  /\ UNCHANGED <<blocks, file, endOffset, maximum, failed>>

(* Mutant: the longest distance is stored whatever it is by now. *)
Raise_Store(o) ==
  LET t == thread[o] IN
  /\ ~failed /\ t.op = "raise"
  /\ maximum' = IF t.distance > t.observed THEN t.distance ELSE maximum
  /\ thread' = [thread EXCEPT ![o] = [op |-> "flush", distance |-> t.distance]]
  /\ UNCHANGED <<pending, blocks, file, endOffset, answer, failed>>

(* One turn of the compare-and-swap loop. *)
Raise(o) ==
  LET t == thread[o] IN
  /\ ~failed /\ t.op = "raise"
  /\ IF t.distance > t.observed /\ maximum # t.observed
       THEN /\ thread' = [thread EXCEPT ![o].observed = maximum]
            /\ UNCHANGED maximum
       ELSE /\ maximum' = IF t.distance > t.observed THEN t.distance ELSE maximum
            /\ thread' = [thread EXCEPT ![o] = [op |-> "flush", distance |-> t.distance]]
  /\ UNCHANGED <<pending, blocks, file, endOffset, answer, failed>>

FlushFull(o) ==
  LET d == thread[o].distance IN
  /\ ~failed /\ thread[o].op = "flush"
  /\ IF Len(pending[o][d]) = BlockRecords
       THEN /\ \E size \in BlockSizes : Flush(o, d, size)
            /\ pending' = [pending EXCEPT ![o][d] = << >>]
       ELSE UNCHANGED <<pending, blocks, file, endOffset>>
  /\ thread' = [thread EXCEPT ![o] = Idle]
  /\ UNCHANGED <<maximum, answer, failed>>

(* The worker reports the failure, and the generation ends with it. *)
FlushFails(o) ==
  /\ ~failed /\ thread[o].op = "flush"
  /\ Len(pending[o][thread[o].distance]) = BlockRecords
  /\ DoesNotFit(o)
  /\ failed' = TRUE
  /\ thread' = [thread EXCEPT ![o] = Idle]
  /\ UNCHANGED <<pending, blocks, file, endOffset, maximum, answer>>

-----------------------------------------------------------------------------
Skipped_AtEnd(b, first, end) ==   \* Mutant: the bounds are taken as exclusive
  first = end \/ b.maximum <= first \/ b.minimum >= end

Skipped(b, first, end) ==
  first = end \/ b.maximum < first \/ b.minimum >= end

(* The records of one block that the visitor gets. *)
Passed(records, first, end) ==
  FlattenSeq([n \in 1 .. Len(records) |->
    IF first <= records[n] /\ records[n] < end THEN <<records[n]>> ELSE << >>])

Met(bs, first, end) ==
  FlattenSeq([n \in 1 .. Len(bs) |->
    IF Skipped(bs[n], first, end) THEN << >> ELSE Passed(bs[n].checksum, first, end)])

(* visit: the buffer is flushed, however short, and the blocks are read.   *)
(* A range as in frontier_store_visit_range; all positions otherwise.      *)
VisitRange(o, d, first, end) ==
  /\ ~failed /\ thread[o] = Idle
  /\ IF pending[o][d] = << >>
       THEN UNCHANGED <<pending, blocks, file, endOffset>>
       ELSE /\ \E size \in BlockSizes : Flush(o, d, size)
            /\ pending' = [pending EXCEPT ![o][d] = << >>]
  /\ LET read == {n \in 1 .. Len(blocks'[o][d]) : ~Skipped(blocks'[o][d][n], first, end)} IN
     IF \A n \in read : Whole(file'[o], blocks'[o][d][n])
       THEN answer' = Met(blocks'[o][d], first, end) /\ UNCHANGED failed
       ELSE failed' = TRUE /\ UNCHANGED answer
  /\ UNCHANGED <<maximum, thread>>

(* The visitor sees no record after the buffer could not be flushed. *)
VisitFails(o, d) ==
  /\ ~failed /\ thread[o] = Idle
  /\ pending[o][d] # << >> /\ DoesNotFit(o)
  /\ failed' = TRUE
  /\ UNCHANGED <<pending, blocks, file, endOffset, maximum, thread, answer>>

(* frontier_store_finish, one stream at a time, when the workers are       *)
(* joined: the streams of longer distances are not looked at.              *)
FinishStream(o, d) ==
  /\ ~failed /\ \A w \in Owner : thread[w] = Idle
  /\ d <= maximum /\ pending[o][d] # << >>
  /\ \E size \in BlockSizes : Flush(o, d, size)
  /\ pending' = [pending EXCEPT ![o][d] = << >>]
  /\ UNCHANGED <<maximum, thread, answer, failed>>

Next ==
  \E o \in Owner :
    \/ Raise(o) \/ FlushFull(o) \/ FlushFails(o)
    \/ \E d \in Distances :
         \/ \E i \in Records : AppendRecord(o, d, i)
         \/ \E r \in Ranges : VisitRange(o, d, r[1], r[2])
         \/ VisitFails(o, d)
         \/ FinishStream(o, d)

Spec == Init /\ [][Next]_storeVars

-----------------------------------------------------------------------------
(***************************************************************************)
(* Properties.                                                             *)
(***************************************************************************)

(* What is in a stream: its blocks as they can be read from the file, then *)
(* its buffer.                                                             *)
Stored(o, d) ==
  FlattenSeq([n \in 1 .. Len(blocks[o][d]) |->
    IF Whole(file[o], blocks[o][d][n]) THEN blocks[o][d][n].checksum ELSE << >>])
  \o pending[o][d]

Contents == [o \in Owner |-> [d \in Distances |-> Stored(o, d)]]

Streams == INSTANCE RecordStreams WITH
       Stream <- Distances, Index <- Records, appended <- Contents, seen <- answer, broken <- failed

(* The blocks, their directory and their skipping cannot be told from      *)
(* plain sequences: whatever the interleaving, a visit meets exactly the   *)
(* records of its range, and nothing that was appended is lost or changed. *)
RefinesStreams == Streams!Init /\ [][Streams!Break \/ \E o \in Owner, d \in Distances :
                     \/ \E i \in Records : Streams!Append1(o, d, i)
                     \/ \E r \in Ranges : Streams!Visit(o, d, r[1], r[2])]_(Streams!streamVars)

(* The generator goes on to longer distances, flushes, replays and frees   *)
(* the streams up to the longest distance only: no worker may lower it, or *)
(* leave a record beyond it.                                               *)
MaximumIsReached ==
  (\A o \in Owner : thread[o].op # "raise") =>
    maximum = Max({0} \cup {d \in Distances : \E o \in Owner :
                              pending[o][d] # << >> \/ blocks[o][d] # << >>})

-----------------------------------------------------------------------------
(***************************************************************************)
(* Why: a record beyond the longest distance belongs to a worker that is   *)
(* about to raise it, and what a worker observed was never more.           *)
(***************************************************************************)
Block == [offset : Nat, size : Nat, checksum : Seq(Records),
          minimum : Records, maximum : Records]

StoreTypeOK ==
  /\ pending \in [Owner -> [Distances -> Seq(Records)]]
  /\ blocks \in [Owner -> [Distances -> Seq(Block)]]
  /\ endOffset \in [Owner -> Nat]
  /\ maximum \in Nat
  /\ thread \in [Owner -> {Idle} \cup [op : {"raise"}, distance : Distances, observed : Nat]
                            \cup [op : {"flush"}, distance : Distances]]

Stocked == {d \in Distances : \E o \in Owner : pending[o][d] # << >> \/ blocks[o][d] # << >>}

MaximumInv ==
  /\ maximum \in {0} \cup Stocked
  /\ \A o \in Owner : thread[o].op = "raise" =>
       thread[o].observed <= maximum /\ thread[o].distance \in Stocked
  /\ \A d \in Stocked :
       d <= maximum \/ \E o \in Owner : thread[o].op = "raise" /\ thread[o].distance = d

(* A block lies below the end of the file, where the next one is written,  *)
(* and none of its records is outside its bounds.                          *)
BlockInv(o, b) ==
  /\ b.offset + b.size <= endOffset[o]
  /\ \A i \in ToSet(b.checksum) : b.minimum <= i /\ i <= b.maximum
  /\ Whole(file[o], b)

BlocksInv ==
  /\ DOMAIN file = Owner
  /\ \A o \in Owner :
       /\ DOMAIN file[o] = 1 .. FileSize /\ endOffset[o] <= FileSize
       /\ \A d \in Distances : \A n \in 1 .. Len(blocks[o][d]) : BlockInv(o, blocks[o][d][n])
=============================================================================
