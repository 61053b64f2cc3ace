-------------------------- MODULE CandidateBitmap --------------------------
(***************************************************************************)
(* The bitmaps of the frontier generator at the level of their words       *)
(* (bitmap.c, and its use by generator.c).  In a source stage every worker *)
(* sets result bits of its own positions with plain loads and stores, and  *)
(* candidate bits of any position with a fetch-or that says whether the    *)
(* bit is new.  After all have joined, and unless no bit was new, every    *)
(* worker scans its range of the candidates and clears it.                 *)
(***************************************************************************)
EXTENDS WorkPartition, FiniteSets, Bags, FiniteSetsExt

CONSTANTS Layers,   \* bounds the layers that are processed
          Sources,  \* the sets of positions that a layer may settle
          Marks     \* the functions from workers to the positions they mark

ASSUME BitmapAssumption ==
  /\ Layers \in Nat
  /\ Sources \subseteq SUBSET Index /\ Marks \subseteq [Worker -> SUBSET Index]

VARIABLES
  candidates, result,  \* word -> the bits that are set
  stage,
  layer,
  sources,    \* worker -> positions of its stream it has still to settle
  marks,      \* worker -> predecessors it has still to mark
  loaded,     \* worker -> the word it is about to store, or nothing
  fresh,      \* worker -> marked_candidates
  cursor,     \* worker -> where its scan goes on
  evaluated,  \* the candidates that were evaluated, with their number
  settled,    \* history: all positions that were settled
  wanted      \* history: all positions marked in this layer

bitmapVars == <<candidates, result, stage, layer, sources, marks, loaded, fresh,
                cursor, evaluated, settled, wanted>>

Empty == [x \in Word |-> {}]
Bits(b) == {i \in Index : i % WordBits \in b[WordOf(i)]}
NoWord == [index |-> Positions, bits |-> {}]

(* All bitmaps are empty, and s is what the main thread does. *)
BitmapsFrom(s) ==
  /\ candidates = Empty /\ result = Empty
  /\ stage = s /\ layer = 0
  /\ sources = [w \in Worker |-> {}]
  /\ marks = [w \in Worker |-> {}]
  /\ loaded = [w \in Worker |-> NoWord]
  /\ fresh = [w \in Worker |-> 0]
  /\ cursor = [w \in Worker |-> FirstIndex(w)]
  /\ evaluated = EmptyBag
  /\ settled = {} /\ wanted = {}

BitmapInit == BitmapsFrom("idle")

StartLayer ==
  /\ stage = "idle" /\ layer < Layers
  /\ layer' = layer + 1
  /\ stage' = "sources"
  /\ \E S \in Sources : sources' = [w \in Worker |-> S \cap RangeOf(w)] /\ settled' = settled \cup S
  /\ marks' \in Marks
  /\ wanted' = UNION {marks'[w] : w \in Worker}
  /\ fresh' = [w \in Worker |-> 0]
  /\ evaluated' = EmptyBag
  /\ UNCHANGED <<candidates, result, loaded, cursor>>

(* process_frontier_source: a position settled earlier is passed over; the *)
(* bit of another is set with a load and a store of its word.              *)
Load(w) ==
  /\ stage = "sources" /\ loaded[w] = NoWord /\ sources[w] # {}
  /\ LET i == Min(sources[w]) IN
     IF i \in Bits(result)
       THEN /\ sources' = [sources EXCEPT ![w] = @ \ {i}]
            /\ UNCHANGED loaded
       ELSE /\ loaded' = [loaded EXCEPT ![w] = [index |-> i, bits |-> result[WordOf(i)]]]
            /\ UNCHANGED sources
  /\ UNCHANGED <<candidates, result, stage, layer, marks, fresh, cursor,
                 evaluated, settled, wanted>>

Store(w) ==
  /\ loaded[w] # NoWord
  /\ LET i == loaded[w].index IN
     /\ result' = [result EXCEPT ![WordOf(i)] = loaded[w].bits \cup {i % WordBits}]
     /\ sources' = [sources EXCEPT ![w] = @ \ {i}]
  /\ loaded' = [loaded EXCEPT ![w] = NoWord]
  /\ UNCHANGED <<candidates, stage, layer, marks, fresh, cursor, evaluated,
                 settled, wanted>>

(* Mutant: the bit is tested before the word is changed, not by the change. *)
Mark_TestOthers(w) ==
  /\ stage = "sources" /\ loaded[w] = NoWord
  /\ \E i \in marks[w] :
       /\ marks' = [marks EXCEPT ![w] = @ \ {i}]
       /\ fresh' = [fresh EXCEPT ![w] = @ + (IF candidates[WordOf(i)] = {} THEN 1 ELSE 0)]
       /\ candidates' = [candidates EXCEPT ![WordOf(i)] = @ \cup {i % WordBits}]
  /\ UNCHANGED <<result, stage, layer, sources, loaded, cursor, evaluated, settled, wanted>>

(* bitmap_set_new_atomic, for the predecessors of a source and for the     *)
(* deferred candidates.                                                    *)
Mark(w) ==
  /\ stage = "sources" /\ loaded[w] = NoWord
  /\ \E i \in marks[w] :
       /\ marks' = [marks EXCEPT ![w] = @ \ {i}]
       /\ fresh' = [fresh EXCEPT ![w] =
            @ + (IF i % WordBits \in candidates[WordOf(i)] THEN 0 ELSE 1)]
       /\ candidates' = [candidates EXCEPT ![WordOf(i)] = @ \cup {i % WordBits}]
  /\ UNCHANGED <<result, stage, layer, sources, loaded, cursor, evaluated, settled, wanted>>

(* The counters f of the first n workers, added up in turn. *)
Added(f) ==
  LET sum[n \in 0 .. ThreadCount] == IF n = 0 THEN 0 ELSE sum[n - 1] + f[n - 1]
  IN  sum

Total == Added(fresh)[ThreadCount]

(* run_frontier_workers: no evaluation when no bit was new. *)
JoinSources ==
  /\ stage = "sources"
  /\ \A w \in Worker : sources[w] = {} /\ marks[w] = {} /\ loaded[w] = NoWord
  /\ stage' = IF Total = 0 THEN "idle" ELSE "scan"
  /\ cursor' = [w \in Worker |-> FirstIndex(w)]
  /\ UNCHANGED <<candidates, result, layer, sources, marks, loaded, fresh,
                 evaluated, settled, wanted>>

FirstBit(x, bits) == (x * WordBits) + Min(bits)

FindNext_WholeWords(b, first, end) ==   \* Mutant: the first word is not masked
  LET words == {x \in Word : WordOf(first) <= x /\ x * WordBits < end /\ b[x] # {}} IN
  IF first >= end \/ words = {} THEN end ELSE FirstBit(Min(words), b[Min(words)])

(* bitmap_find_next_range: the first word is masked, the words of the      *)
(* range are tried in turn, and a bit beyond the end is not one; end       *)
(* stands for none.                                                        *)
FindNext(b, first, end) ==
  LET masked(x) == IF x = WordOf(first) THEN {k \in b[x] : k >= first % WordBits} ELSE b[x]
      words == {x \in Word : WordOf(first) <= x /\ x * WordBits < end /\ masked(x) # {}}
      found == FirstBit(Min(words), masked(Min(words))) IN
  IF first >= end \/ words = {} \/ found >= end THEN end ELSE found

(* bitmap_clear_range: the words of the range, but for the bits before     *)
(* first in its first word and from end in its last.                       *)
Cleared(b, first, end) ==
  [x \in Word |-> {k \in b[x] : (x * WordBits) + k < first \/ (x * WordBits) + k >= end}]

Scanning(w) == stage = "scan" /\ cursor[w] <= EndIndex(w)

Evaluate(w) ==
  LET found == FindNext(candidates, cursor[w], EndIndex(w)) IN
  /\ Scanning(w) /\ found < EndIndex(w)
  /\ evaluated' = evaluated (+) SetToBag({found})
  /\ cursor' = [cursor EXCEPT ![w] = found + 1]
  /\ UNCHANGED <<candidates, result, stage, layer, sources, marks, loaded, fresh,
                 settled, wanted>>

(* The cursor past the end stands for a worker that is through. *)
ClearRange(w) ==
  /\ Scanning(w) /\ FindNext(candidates, cursor[w], EndIndex(w)) = EndIndex(w)
  /\ candidates' = Cleared(candidates, FirstIndex(w), EndIndex(w))
  /\ cursor' = [cursor EXCEPT ![w] = EndIndex(w) + 1]
  /\ UNCHANGED <<result, stage, layer, sources, marks, loaded, fresh,
                 evaluated, settled, wanted>>

JoinScan ==
  /\ stage = "scan" /\ \A w \in Worker : ~Scanning(w)
  /\ stage' = "idle"
  /\ UNCHANGED <<candidates, result, layer, sources, marks, loaded, fresh, cursor,
                 evaluated, settled, wanted>>

BitmapNext ==
  \/ StartLayer \/ JoinSources \/ JoinScan
  \/ \E w \in Worker : Load(w) \/ Store(w) \/ Mark(w) \/ Evaluate(w) \/ ClearRange(w)

BitmapSpec == BitmapInit /\ [][BitmapNext]_bitmapVars

-----------------------------------------------------------------------------
(***************************************************************************)
(* Properties.                                                             *)
(***************************************************************************)

(* When a layer is through, its candidates are exactly the marked          *)
(* positions, each evaluated once, by whichever workers marked them; the   *)
(* candidates are clear again.                                             *)
EveryCandidateOnce ==
  /\ evaluated \sqsubseteq SetToBag(wanted)
  /\ stage = "idle" => evaluated = SetToBag(wanted) /\ Bits(candidates) = {}

(* As many fetch-ors report a new bit as bits are set: progress counts on  *)
(* it, and a layer is skipped if there are none.                           *)
FreshIsExact ==
  stage = "sources" => Total = Cardinality(Bits(candidates))

(* No plain store undoes another worker's bit: a settled position stays    *)
(* settled.                                                                *)
NoBitIsLost ==
  \A i \in settled : i \in Bits(result) \/ \E w \in Worker : i \in sources[w]

(* A bit is new for exactly one worker, and none is lost.                  *)
MarksAreRight == FreshIsExact /\ NoBitIsLost

-----------------------------------------------------------------------------
(***************************************************************************)
(* Why: a worker's plain stores are to words of its own range, so what it  *)
(* loaded is still there when it stores; and a scan has handed out, and    *)
(* will clear, what its range of the bitmap holds.                         *)
(***************************************************************************)
WordsInv ==
  /\ candidates \in [Word -> SUBSET Bit] /\ result \in [Word -> SUBSET Bit]
  /\ sources \in [Worker -> SUBSET Index] /\ marks \in [Worker -> SUBSET Index]
  /\ loaded \in [Worker -> [index : 0 .. Positions, bits : SUBSET Bit]]
  /\ fresh \in [Worker -> Nat] /\ cursor \in [Worker -> Nat]
  /\ stage \in {"idle", "sources", "scan"}
  /\ settled \subseteq Index /\ wanted \subseteq Index

SettledInv ==
  /\ \A w \in Worker : sources[w] \subseteq RangeOf(w)
  /\ \A w \in Worker : loaded[w] # NoWord =>
       /\ stage = "sources" /\ loaded[w].index \in sources[w]
       /\ loaded[w].bits = result[WordOf(loaded[w].index)]
  /\ stage # "sources" => \A w \in Worker : sources[w] = {}
  /\ NoBitIsLost

Scanned(i) == \E w \in Worker : i \in RangeOf(w) /\ i < cursor[w]

CandidatesInv ==
  /\ stage = "idle" => Bits(candidates) = {} /\ evaluated = SetToBag(wanted)
  /\ stage = "sources" =>
       /\ evaluated = EmptyBag
       /\ wanted = Bits(candidates) \cup UNION {marks[w] : w \in Worker}
       /\ Total = Cardinality(Bits(candidates))
  /\ stage = "scan" =>
       /\ evaluated = SetToBag({i \in wanted : Scanned(i)})
       /\ \A w \in Worker :
            /\ cursor[w] \in FirstIndex(w) .. EndIndex(w) + 1
            /\ Bits(candidates) \cap RangeOf(w) =
                 IF cursor[w] <= EndIndex(w) THEN wanted \cap RangeOf(w) ELSE {}
=============================================================================
