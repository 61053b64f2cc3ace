----------------------------- MODULE SliceMerge -----------------------------
(***************************************************************************)
(* The merge of the completed slices into one database (sliced.c           *)
(* compile_slices and merge_worker_main): the coordinator gives each       *)
(* worker a range of output pages and searches, in every slice, the        *)
(* entries that belong to that range; each worker merges its parts by      *)
(* their full index and writes its pages.                                  *)
(*                                                                         *)
(* The mapping of a slice's entries to full indices is ANY function: the   *)
(* code does not rely on its being monotonic, or on the slices' covering   *)
(* the database, but checks it "even in production".                       *)
(***************************************************************************)
EXTENDS Naturals, Sequences, FiniteSets, FiniteSetsExt

CONSTANTS
    Slice,          \* the slices
    MergedPositions,      \* number of positions of the database
    PerPage,        \* positions in a page
    Threads,        \* requested workers
    Rankings,       \* set of: slice -> sequence of the full indices it holds
    Faults          \* whether reads, writes, threads may fail: \subseteq BOOLEAN

ASSUME MergeAssumption ==
    /\ MergedPositions \in Nat \ {0} /\ PerPage \in Nat \ {0} /\ Threads \in Nat \ {0}
    /\ IsFiniteSet(Slice)
    /\ Rankings \subseteq [Slice -> Seq(0 .. MergedPositions - 1)]
    /\ Faults \subseteq BOOLEAN

VARIABLES
    rank,       \* the slices' mapping to full indices
    faulty,     \* whether operations may fail in this merge
    mergeStage,      \* the coordinator: "divide", "start", "join", "done", "failed"
    mergeCursor,     \* the next worker that it divides for, or starts
    from, upto, \* worker -> slice -> its part: entries from + 1 .. upto
    status,     \* worker -> "idle", "open", "merge", "ok", "failed"
    next,       \* worker -> slice -> entries of its part that were loaded
    heap,       \* worker -> slices with an entry in the heap
    expected,   \* worker -> the full index to be written next
    buffer,     \* worker -> entries of the page that is being filled
    output,     \* full index -> the entry in the output file
    cancelled

work == <<status, next, heap, expected, buffer, output>>
parts == <<from, upto>>
input == <<rank, faulty>>
mergeVars == <<input, mergeStage, mergeCursor, parts, work, cancelled>>

NoEntry == <<>>                             \* a position not written yet
Full == 0 .. MergedPositions - 1
Pages == (MergedPositions + PerPage - 1) \div PerPage
WorkerCount == IF Threads > Pages THEN Pages ELSE Threads
Merger == 0 .. WorkerCount - 1

Smaller(a, b) == IF a < b THEN a ELSE b

(* Contiguous ranges of pages; the first ones are longer by one. *)
FirstOutputPage(w) == (Pages \div WorkerCount) * w + Smaller(w, Pages % WorkerCount)
BeginOf(w) == FirstOutputPage(w) * PerPage
EndOf(w) == IF FirstOutputPage(w + 1) = Pages THEN MergedPositions
                                        ELSE FirstOutputPage(w + 1) * PerPage

EntryCount(s) == Len(rank[s])
FullIndex(s, local) == rank[s][local + 1]   \* local indices begin at 0

(* Mutant: the first entry that is above the target. *)
SearchResult_Above(s, target) ==
    LET search[range \in (0 .. EntryCount(s)) \X (0 .. EntryCount(s))] ==
            LET lo  == range[1]
                hi  == range[2]
                mid == lo + (hi - lo) \div 2
            IN  IF lo >= hi THEN lo
                ELSE IF FullIndex(s, mid) <= target THEN search[<<mid + 1, hi>>]
                                                   ELSE search[<<lo, mid>>]
    IN  search[<<0, EntryCount(s)>>]

(***************************************************************************)
(* merge_lower_bound: a binary search for the first entry that is not      *)
(* below the target, whose result is only accepted when its neighbours     *)
(* are on the right sides.                                                 *)
(***************************************************************************)
SearchResult(s, target) ==
    LET search[range \in (0 .. EntryCount(s)) \X (0 .. EntryCount(s))] ==
            LET lo  == range[1]
                hi  == range[2]
                mid == lo + (hi - lo) \div 2
            IN  IF lo >= hi THEN lo
                ELSE IF FullIndex(s, mid) < target THEN search[<<mid + 1, hi>>]
                                                   ELSE search[<<lo, mid>>]
    IN  search[<<0, EntryCount(s)>>]

BoundaryHolds(s, target, lo) ==
    /\ lo > 0 => FullIndex(s, lo - 1) < target
    /\ lo < EntryCount(s) => FullIndex(s, lo) >= target

-----------------------------------------------------------------------------

MergeInit ==
    /\ rank \in Rankings
    /\ faulty \in Faults
    /\ mergeStage = "divide"
    /\ mergeCursor = 0
    /\ from = [w \in Merger |-> [s \in Slice |-> 0]]
    /\ upto = [w \in Merger |-> [s \in Slice |-> 0]]
    /\ status = [w \in Merger |-> "idle"]
    /\ next = [w \in Merger |-> [s \in Slice |-> 0]]
    /\ heap = [w \in Merger |-> {}]
    /\ expected = [w \in Merger |-> BeginOf(w)]
    /\ buffer = [w \in Merger |-> <<>>]
    /\ output = [i \in Full |-> NoEntry]
    /\ cancelled = FALSE

(***************************************************************************)
(* The coordinator divides the slices' entries among the workers.          *)
(***************************************************************************)
(* Each part begins where the last worker's ended, the last worker's parts *)
(* end with the slices, and a worker's parts add up to its range.          *)
PartsAccepted(w, lower, upper) ==
    /\ \A s \in Slice :
           /\ lower[s] = IF w = 0 THEN 0 ELSE upto[w - 1][s]
           /\ upper[s] >= lower[s]
           /\ w + 1 = WorkerCount => upper[s] = EntryCount(s)
    /\ MapThenSumSet(LAMBDA s : upper[s] - lower[s], Slice) = EndOf(w) - BeginOf(w)

Divide ==
    /\ mergeStage = "divide"
    /\ mergeCursor < WorkerCount
    /\ LET lower == [s \in Slice |-> SearchResult(s, BeginOf(mergeCursor))]
           upper == [s \in Slice |-> SearchResult(s, EndOf(mergeCursor))]
       IN  IF /\ \A s \in Slice :
                     /\ BoundaryHolds(s, BeginOf(mergeCursor), lower[s])
                     /\ BoundaryHolds(s, EndOf(mergeCursor), upper[s])
              /\ PartsAccepted(mergeCursor, lower, upper)
           THEN /\ from' = [from EXCEPT ![mergeCursor] = lower]
                /\ upto' = [upto EXCEPT ![mergeCursor] = upper]
                /\ mergeCursor' = mergeCursor + 1
                /\ UNCHANGED mergeStage
           ELSE /\ mergeStage' = "failed"
                /\ UNCHANGED <<parts, mergeCursor>>
    /\ UNCHANGED <<input, work, cancelled>>

Divided ==
    /\ mergeStage = "divide"
    /\ mergeCursor = WorkerCount
    /\ mergeStage' = "start"
    /\ mergeCursor' = 0
    /\ UNCHANGED <<input, parts, work, cancelled>>

StartWorker ==
    /\ mergeStage = "start"
    /\ mergeCursor < WorkerCount
    /\ status' = [status EXCEPT ![mergeCursor] = "open"]
    /\ mergeCursor' = mergeCursor + 1
    /\ UNCHANGED <<input, mergeStage, parts, next, heap, expected, buffer, output,
                   cancelled>>

(* The workers that were started are still joined. *)
StartFails ==
    /\ faulty
    /\ mergeStage = "start"
    /\ mergeCursor < WorkerCount
    /\ cancelled' = TRUE
    /\ mergeStage' = "join"
    /\ UNCHANGED <<input, mergeCursor, parts, work>>

Started ==
    /\ mergeStage = "start"
    /\ mergeCursor = WorkerCount
    /\ mergeStage' = "join"
    /\ UNCHANGED <<input, mergeCursor, parts, work, cancelled>>

Joined_All == \A w \in Merger : status[w] \in {"ok", "failed"}   \* Mutant

(* The workers that were started have ended. *)
Joined == \A w \in Merger : w < mergeCursor => status[w] \in {"ok", "failed"}

(* The database is complete only when every worker was started and is ok;  *)
(* what they have consumed then adds up to the positions.                  *)
Join ==
    /\ mergeStage = "join"
    /\ Joined
    /\ mergeStage' = IF /\ mergeCursor = WorkerCount
                   /\ \A w \in Merger : status[w] = "ok"
                THEN "done" ELSE "failed"
    /\ UNCHANGED <<input, mergeCursor, parts, work, cancelled>>

(* Opening, creating, closing or renaming the files fails. *)
CoordinatorFault ==
    /\ faulty
    /\ \/ mergeStage = "divide"
       \/ mergeStage = "join" /\ Joined
    /\ mergeStage' = "failed"
    /\ UNCHANGED <<input, mergeCursor, parts, work, cancelled>>

-----------------------------------------------------------------------------
(***************************************************************************)
(* A worker.                                                               *)
(***************************************************************************)
Fail(w) ==
    /\ status' = [status EXCEPT ![w] = "failed"]
    /\ cancelled' = TRUE

Loaded(w, s) == FullIndex(s, next[w][s] - 1)    \* the slice's heap entry

(* One entry of each part goes into the heap. *)
OpenParts(w) ==
    LET S == {s \in Slice : from[w][s] # upto[w][s]} IN
    /\ status[w] = "open"
    /\ heap' = [heap EXCEPT ![w] = S]
    /\ next' = [next EXCEPT ![w] = [s \in Slice |->
                    IF s \in S THEN from[w][s] + 1 ELSE from[w][s]]]
    /\ status' = [status EXCEPT ![w] = "merge"]
    /\ UNCHANGED <<input, mergeStage, mergeCursor, parts, expected, buffer, output,
                   cancelled>>

Smallest(w, s) ==
    s \in heap[w] /\ \A u \in heap[w] : Loaded(w, s) <= Loaded(w, u)

(* Mutant: the loop takes whatever comes next. *)
Matches_Any(w, s) == expected[w] < EndOf(w)

Matches(w, s) == expected[w] < EndOf(w) /\ Loaded(w, s) = expected[w]

(* A full page, or the last one of the range, is written. *)
WritePage(w, page) ==
    IF Len(page) = PerPage \/ expected[w] + 1 = EndOf(w)
    THEN /\ output' = [i \in Full |->
                LET first == expected[w] + 1 - Len(page) IN
                IF first <= i /\ i <= expected[w]
                THEN page[i - first + 1] ELSE output[i]]
         /\ buffer' = [buffer EXCEPT ![w] = <<>>]
    ELSE /\ buffer' = [buffer EXCEPT ![w] = page]
         /\ UNCHANGED output

(* The next entry of the same part, which must be above the last one. *)
LoadNext(w, s) ==
    IF next[w][s] = upto[w][s]
    THEN /\ heap' = [heap EXCEPT ![w] = @ \ {s}]
         /\ UNCHANGED <<next, status, cancelled>>
    ELSE IF FullIndex(s, next[w][s]) > Loaded(w, s)
    THEN /\ next' = [next EXCEPT ![w][s] = @ + 1]
         /\ UNCHANGED <<heap, status, cancelled>>
    ELSE Fail(w) /\ UNCHANGED <<next, heap>>

MergeEntry(w, s) ==
    /\ status[w] = "merge"
    /\ ~ cancelled
    /\ Smallest(w, s)
    /\ IF Matches(w, s)
       THEN /\ WritePage(w, Append(buffer[w], <<s, next[w][s] - 1>>))
            /\ expected' = [expected EXCEPT ![w] = @ + 1]
            /\ LoadNext(w, s)
       ELSE /\ Fail(w)
            /\ UNCHANGED <<output, buffer, expected, next, heap>>
    /\ UNCHANGED <<input, mergeStage, mergeCursor, parts>>

Complete(w) == expected[w] = EndOf(w)

(* The heap is empty, or another worker failed. *)
LeaveLoop(w) ==
    /\ status[w] = "merge"
    /\ heap[w] = {} \/ cancelled
    /\ IF Complete(w)
       THEN status' = [status EXCEPT ![w] = "ok"] /\ UNCHANGED cancelled
       ELSE Fail(w)
    /\ UNCHANGED <<input, mergeStage, mergeCursor, parts, next, heap, expected, buffer,
                   output>>

(* Memory, a view, a read or the page writer fails. *)
WorkerFault(w) ==
    /\ faulty
    /\ status[w] \in {"open", "merge"}
    /\ Fail(w)
    /\ UNCHANGED <<input, mergeStage, mergeCursor, parts, next, heap, expected, buffer,
                   output>>

WorkerStep(w) ==
    \/ OpenParts(w)
    \/ \E s \in Slice : MergeEntry(w, s)
    \/ LeaveLoop(w)

Coordinate == Divide \/ Divided \/ StartWorker \/ Started \/ Join

MergeNext ==
    \/ Coordinate
    \/ StartFails
    \/ CoordinatorFault
    \/ \E w \in Merger : WorkerStep(w) \/ WorkerFault(w)

(* The coordinator and every worker thread are scheduled. *)
MergeSpec ==
    /\ MergeInit
    /\ [][MergeNext]_mergeVars
    /\ WF_mergeVars(Coordinate)
    /\ \A w \in Merger : WF_mergeVars(WorkerStep(w))

-----------------------------------------------------------------------------

Entries == UNION {{<<s, l>> : l \in 0 .. EntryCount(s) - 1} : s \in Slice}

(***************************************************************************)
(* Whatever the mapping: a merge that succeeds has written every position  *)
(* from the entry that maps to it, and has omitted no entry.               *)
(***************************************************************************)
MergedIsExact ==
    mergeStage = "done" =>
        /\ \A i \in Full : /\ output[i] \in Entries
                           /\ FullIndex(output[i][1], output[i][2]) = i
        /\ Entries = {output[i] : i \in Full}

(***************************************************************************)
(* Slices that restrict the full enumeration and together cover it are     *)
(* never refused: all the checks pass on right input.                      *)
(***************************************************************************)
Partition ==
    /\ \A s \in Slice : \A l \in 1 .. EntryCount(s) - 1 :
           FullIndex(s, l - 1) < FullIndex(s, l)
    /\ {FullIndex(e[1], e[2]) : e \in Entries} = Full
    /\ Cardinality(Entries) = MergedPositions

RightIsMerged == mergeStage = "failed" /\ ~ faulty => ~ Partition

(* The merge ends, although workers fail and cancel each other: every step *)
(* is one that is never taken back, and while it has not ended there is    *)
(* one to take that is no fault.                                           *)
NeverStuck ==
    \/ mergeStage \in {"done", "failed"}
    \/ ENABLED (Coordinate \/ \E w \in Merger : WorkerStep(w))

(* A merge accepts only what is exact, refuses nothing that is right, and  *)
(* ends.                                                                   *)
MergeIsRight == MergedIsExact /\ RightIsMerged /\ NeverStuck

-----------------------------------------------------------------------------
(***************************************************************************)
(* Why a merge is exact.                                                   *)
(***************************************************************************)
MergeTypeOK ==
    /\ rank \in [Slice -> Seq(Full)]
    /\ mergeStage \in {"divide", "start", "join", "done", "failed"}
    /\ mergeCursor \in 0 .. WorkerCount
    /\ from \in [Merger -> [Slice -> Nat]] /\ upto \in [Merger -> [Slice -> Nat]]
    /\ status \in [Merger -> {"idle", "open", "merge", "ok", "failed"}]
    /\ next \in [Merger -> [Slice -> Nat]]
    /\ heap \in [Merger -> SUBSET Slice]
    /\ expected \in [Merger -> Nat]
    /\ buffer \in [Merger -> Seq(Slice \X Nat)]
    /\ DOMAIN output = Full
    /\ cancelled \in BOOLEAN

(* The parts of a slice follow each other and are all of the slice. *)
PartRight(w) ==
    \A s \in Slice :
        /\ from[w][s] = IF w = 0 THEN 0 ELSE upto[w - 1][s]
        /\ from[w][s] <= upto[w][s] /\ upto[w][s] <= EntryCount(s)
        /\ w + 1 = WorkerCount => upto[w][s] = EntryCount(s)

PartsInv ==
    \A w \in Merger :
        \/ mergeStage \in {"start", "join", "done"}
        \/ mergeStage = "divide" /\ w < mergeCursor
        => PartRight(w)

(* A merge ends well only if no worker was left out, failed or cancelled. *)
EndedInv ==
    /\ mergeStage = "divide" => \A w \in Merger : status[w] = "idle"
    /\ mergeStage \in {"start", "join"} =>
           \A w \in Merger : w >= mergeCursor => status[w] = "idle"
    /\ \A w \in Merger : status[w] \in {"open", "merge"} => mergeStage \in {"start", "join"}
    /\ mergeStage = "done" =>
           mergeCursor = WorkerCount /\ \A w \in Merger : status[w] = "ok"
    /\ cancelled => \/ \E w \in Merger : status[w] = "failed"
                    \/ mergeStage \in {"join", "failed"} /\ mergeCursor < WorkerCount

(* The entry for a full index below the one that is expected: in the page  *)
(* that is being filled, or before it in the file.                         *)
Collected(w, i) ==
    LET page == expected[w] - Len(buffer[w]) IN
    IF i < page THEN output[i] ELSE buffer[w][i - page + 1]

(* The entries of its part that a worker has taken off the heap. *)
TakenBy(w, s) == from[w][s] .. (IF s \in heap[w] THEN next[w][s] - 2 ELSE next[w][s] - 1)

CollectedRight(w) ==
    /\ expected[w] \in BeginOf(w) .. EndOf(w)
    /\ Len(buffer[w]) <= expected[w] - BeginOf(w)
    /\ expected[w] = EndOf(w) => buffer[w] = <<>>
    /\ \A i \in BeginOf(w) .. expected[w] - 1 :
           LET e == Collected(w, i) IN
           e \in Entries /\ FullIndex(e[1], e[2]) = i
    /\ \A s \in Slice :
           /\ from[w][s] <= next[w][s] /\ next[w][s] <= upto[w][s]
           /\ s \in heap[w] => from[w][s] < next[w][s]
           /\ s \notin heap[w] => next[w][s] = upto[w][s]
           /\ \A l \in TakenBy(w, s) :
                  \E i \in BeginOf(w) .. expected[w] - 1 : Collected(w, i) = <<s, l>>

WorkInv ==
    \A w \in Merger :
        /\ status[w] \in {"idle", "open"} => expected[w] = BeginOf(w) /\ buffer[w] = <<>>
        /\ status[w] \in {"merge", "ok"} => CollectedRight(w)
        /\ status[w] = "ok" => /\ expected[w] = EndOf(w)
                               /\ heap[w] = {} \/ cancelled

MergeInv == MergeTypeOK /\ PartsInv /\ EndedInv /\ WorkInv

(* Why right input is merged: a part holds what belongs in its worker's    *)
(* range, and what a worker has in its heap is not below what it expects.  *)
RightPart(w) ==
    \A s \in Slice : /\ BoundaryHolds(s, BeginOf(w), from[w][s])
                     /\ BoundaryHolds(s, EndOf(w), upto[w][s])

OnTrack ==
    /\ mergeStage # "failed" /\ ~ cancelled
    /\ mergeStage = "join" => mergeCursor = WorkerCount
    /\ \A w \in Merger :
           /\ status[w] # "failed"
           /\ mergeStage # "divide" \/ w < mergeCursor => RightPart(w)
           /\ status[w] = "merge" => \A s \in heap[w] : Loaded(w, s) >= expected[w]

RightInv == Partition /\ ~ faulty => OnTrack

=============================================================================
