---------------------------- MODULE Verification ----------------------------
(***************************************************************************)
(* Read-only verification (generator.c, verify_consistent_impl): workers   *)
(* recompute every value of their ranges and stop at the first mismatch.   *)
(* Under a maintenance hook the work is cut into rounds that are joined    *)
(* one by one.  Each worker also keeps an example of every kind of value,  *)
(* and the main thread merges them.                                        *)
(***************************************************************************)
EXTENDS TableWork

CONSTANT Chunk   \* MAINTENANCE_SCAN_ENTRIES

VARIABLES
  game, table,  \* what the workers read
  skip,         \* verified_positions, or no position
  left,         \* positions of later rounds
  todo,         \* positions of this round
  result,       \* worker -> how it fared
  examples,     \* worker -> the examples it keeps
  verdict       \* what the verification returns

vars == <<game, table, skip, left, todo, result, examples, verdict>>

Results == {"ok", "failed", "mismatch"}
Entries == [side : Sides, index : Index, value : Dtm]

TypeOK ==
  /\ game \in GameGraphs /\ table \in Tables
  /\ skip \subseteq Index /\ left \subseteq Index /\ todo \subseteq Index
  /\ result \in [Worker -> Results]
  /\ examples \in [Worker -> SUBSET Entries]
  /\ verdict \in Results \cup {"none"}

(* The first positions of every worker's range that are still left. *)
Round(S) ==
  {i \in S : Cardinality({j \in S : Owner[j] = Owner[i] /\ j < i}) < Chunk}

(* The parts of the state a verification sets up when it starts. *)
Started(l, t, r, e, v) ==
  /\ t = Round(Index)
  /\ l = Index \ Round(Index)
  /\ r = [w \in Worker |-> "ok"]
  /\ e = [w \in Worker |-> {}]
  /\ v = "none"

-----------------------------------------------------------------------------
Entry(side, i) == [side |-> side, index |-> i, value |-> table[side][i]]

SameKind(a, b) ==
  \/ a.value = Draw /\ b.value = Draw
  \/ a.side = b.side /\ IsWin(a.value) /\ IsWin(b.value)
  \/ a.side = b.side /\ IsLoss(a.value) /\ IsLoss(b.value)

Beats_DrawByIndex(a, b) ==   \* Mutant: draw_side is not looked at
  IF a.value = Draw THEN a.index < b.index
  ELSE \/ Distance(a.value) > Distance(b.value)
       \/ a.value = b.value /\ a.index < b.index

(* The longest distance at the smallest index; for draws White to move     *)
(* first, then the smallest index.                                         *)
Beats(a, b) ==
  IF a.value = Draw
    THEN \/ a.side = "WTM" /\ b.side = "BTM"
         \/ a.side = b.side /\ a.index < b.index
    ELSE \/ Distance(a.value) > Distance(b.value)
         \/ a.value = b.value /\ a.index < b.index

(* merge_example *)
Merged(E, e) ==
  LET rivals == {k \in E : SameKind(k, e)} IN
  IF \E k \in rivals : ~Beats(e, k) THEN E ELSE (E \ rivals) \cup {e}

Matches(side, i) == table[side][i] = ExpectedDtm(game, table, side, i)

Working(i) ==
  /\ verdict = "none"
  /\ i \in todo
  /\ result[Owner[i]] = "ok"
  /\ \A j \in todo : Owner[j] = Owner[i] => i <= j

SkipPosition(i) ==
  /\ Working(i)
  /\ i \in skip
  /\ todo' = todo \ {i}
  /\ UNCHANGED <<game, table, skip, left, result, examples, verdict>>

(* One side: expected_dtm fails on a value that storage cannot represent. *)
SideResult(side, i) ==
  IF ExpectedDtm(game, table, side, i) \notin Dtm THEN "failed"
  ELSE IF Matches(side, i) THEN "ok"
  ELSE "mismatch"

(* White to move first; Black to move only after White matched. *)
PositionResult(i) ==
  IF SideResult("WTM", i) # "ok" THEN SideResult("WTM", i) ELSE SideResult("BTM", i)

(* An entry is counted before it is compared, but after its expected value *)
(* is known.                                                               *)
Counted(E, i) ==
  LET white == IF SideResult("WTM", i) = "failed" THEN E ELSE Merged(E, Entry("WTM", i)) IN
  IF SideResult("WTM", i) # "ok" \/ SideResult("BTM", i) = "failed"
    THEN white
    ELSE Merged(white, Entry("BTM", i))

CheckPosition(i) ==
  /\ Working(i)
  /\ i \notin skip
  /\ todo' = todo \ {i}
  /\ examples' = [examples EXCEPT ![Owner[i]] = Counted(@, i)]
  /\ result' = [result EXCEPT ![Owner[i]] = PositionResult(i)]
  /\ UNCHANGED <<game, table, skip, left, verdict>>

(* A page cannot be read. *)
ReadFails(i) ==
  /\ Faults
  /\ Working(i)
  /\ i \notin skip
  /\ result' = [result EXCEPT ![Owner[i]] = "failed"]
  /\ UNCHANGED <<game, table, skip, left, todo, examples, verdict>>

RoundJoined == verdict = "none" /\ \A i \in todo : result[Owner[i]] # "ok"

AllOk == \A w \in Worker : result[w] = "ok"

NextRound ==
  /\ RoundJoined
  /\ AllOk
  /\ left # {}
  /\ todo' = Round(left)
  /\ left' = left \ Round(left)
  /\ UNCHANGED <<game, table, skip, result, examples, verdict>>

Verdict_MismatchFirst ==   \* Mutant: the order of the two tests is swapped
  IF \E w \in Worker : result[w] = "mismatch" THEN "mismatch"
  ELSE IF \E w \in Worker : result[w] = "failed" THEN "failed"
  ELSE "ok"

(* A storage or probe error takes precedence over another's mismatch. *)
Verdict ==
  IF \E w \in Worker : result[w] = "failed" THEN "failed"
  ELSE IF \E w \in Worker : result[w] = "mismatch" THEN "mismatch"
  ELSE "ok"

(* Mutant: the positions that are left for later rounds are forgotten. *)
Conclude_FirstRound ==
  /\ RoundJoined
  /\ verdict' = Verdict
  /\ UNCHANGED <<game, table, skip, left, todo, result, examples>>

Conclude ==
  /\ RoundJoined
  /\ left = {} \/ ~AllOk
  /\ verdict' = Verdict
  /\ UNCHANGED <<game, table, skip, left, todo, result, examples>>

(* A thread cannot be created or joined. *)
CoordinatorFault ==
  /\ Faults
  /\ verdict = "none"
  /\ verdict' = "failed"
  /\ UNCHANGED <<game, table, skip, left, todo, result, examples>>

Work == \E i \in Index : SkipPosition(i) \/ CheckPosition(i) \/ ReadFails(i)

Next == Work \/ NextRound \/ Conclude \/ CoordinatorFault

-----------------------------------------------------------------------------
(***************************************************************************)
(* Properties.                                                             *)
(***************************************************************************)

(* What is accepted is consistent, the skipped positions included as long  *)
(* as they were consistent when they were put aside.                       *)
SkippedConsistent == \A i \in skip, side \in Sides : ConsistentAt(game, table, side, i)

AcceptedIsConsistent ==
  verdict = "ok" /\ SkippedConsistent => Consistent(game, table)

(* "I/O, checksum, codec and dependency-query errors are fatal and do not  *)
(* trigger repair": a mismatch is reported of an inconsistent table only,  *)
(* and never while a worker could not read.                                *)
MismatchIsReal ==
  verdict = "mismatch" =>
    /\ ~Consistent(game, table)
    /\ \A w \in Worker : result[w] # "failed"

(* The merged examples do not depend on the number of workers or rounds:   *)
(* every kind of value has one, it has the longest distance, and among     *)
(* equals it is the first (of the draws, the first with White to move).    *)
MergedExamples ==
  FoldSet(LAMBDA e, E : Merged(E, e), {}, UNION {examples[w] : w \in Worker})

ExamplesExact ==
  verdict = "ok" /\ skip = {} =>
    \A side \in Sides, i \in Index :
      LET k == Entry(side, i) IN
      \E e \in MergedExamples :
        /\ SameKind(k, e)
        /\ Distance(k.value) <= Distance(e.value)
        /\ k.value = e.value =>
             IF k.side = e.side THEN e.index <= i ELSE e.side = "WTM"

-----------------------------------------------------------------------------
(***************************************************************************)
(* Why the verdict is right: what no longer has to be done was done, by a  *)
(* worker that is still looking or else says so.                           *)
(***************************************************************************)
Done(i) ==
  \/ i \in todo \cup left \cup skip
  \/ result[Owner[i]] # "ok"
  \/ \A side \in Sides : ConsistentAt(game, table, side, i)

VerdictInv ==
  /\ todo \subseteq Index /\ left \subseteq Index /\ result \in [Worker -> Results]
  /\ \A i \in Index : Done(i)
  /\ \A w \in Worker : result[w] = "mismatch" => ~Consistent(game, table)
  /\ verdict = "ok" => AllOk /\ todo = {} /\ left = {}
  /\ verdict = "mismatch" =>
       (\E w \in Worker : result[w] = "mismatch") /\ \A w \in Worker : result[w] # "failed"

(* Why the examples are right: of the positions that were looked at, none  *)
(* is ahead of all its worker keeps, as merging does not lose that.        *)
Shown == {Entry(side, i) : side \in Sides, i \in Index}

Kept(E, k) == \E e \in E : SameKind(k, e) /\ ~Beats(k, e)

ExamplesInv ==
  /\ table \in Tables
  /\ examples \in [Worker -> SUBSET Shown]
  /\ skip = {} => \A i \in Index :
       \/ i \in todo \cup left
       \/ result[Owner[i]] # "ok"
       \/ \A side \in Sides : Kept(examples[Owner[i]], Entry(side, i))

=============================================================================
