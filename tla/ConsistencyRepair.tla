------------------------- MODULE ConsistencyRepair -------------------------
(***************************************************************************)
(* Consistency repair (generator.c, egtb_make_consistent_threaded).        *)
(*                                                                         *)
(* The table is repaired in passes.  A pass flushes the database, lets the *)
(* workers compare the flushed snapshot with the value every position      *)
(* should have, joins them, and then one thread writes the corrections.    *)
(* The first pass looks at every position; a later one only at the         *)
(* positions the last corrections may have disturbed.  A pass without      *)
(* corrections ends the repair.                                            *)
(*                                                                         *)
(* The workers also keep the bitmap of verified positions and a histogram  *)
(* of the values, from which the longest distance is reported.             *)
(***************************************************************************)
EXTENDS TableWork

CONSTANTS Games,        \* the games considered
          StartTables   \* the tables that are repaired

ASSUME RepairGamesAssumption == Games \subseteq GameGraphs
ASSUME StartTablesAssumption == StartTables \subseteq Tables
ASSUME PositionsAssumption == IsFiniteSet(Index)

VARIABLES
  game,         \* the game the table is about
  table,        \* the database, as egtb_set leaves it
  snapshot,     \* the flushed pages, which the workers' views read
  verified,     \* verified_positions
  fullPass,     \* full_pass
  pending,      \* the worklist of a later pass
  stage,        \* what is running, or how the repair ended
  todo,         \* positions the workers have still to inspect
  corrections,  \* worker -> the corrections it collected in this pass
  histogram,    \* worker -> value -> how often its range holds the value
  failed,       \* the workers that failed
  passes

vars == <<game, table, snapshot, verified, fullPass, pending, stage, todo,
          corrections, histogram, failed, passes>>

Stages == {"flush", "check", "apply", "done", "failed"}

Corrections == [side : Sides, index : Index, old : Dtm, new : Dtm]

TypeOK ==
  /\ game \in GameGraphs
  /\ table \in Tables
  /\ snapshot \in Tables
  /\ verified \subseteq Index
  /\ fullPass \in BOOLEAN
  /\ pending \subseteq Index
  /\ stage \in Stages
  /\ todo \subseteq Index
  /\ corrections \in [Worker -> SUBSET Corrections]
  /\ histogram \in [Worker -> [Dtm -> Int]]
  /\ failed \subseteq Worker
  /\ passes \in Nat

Init ==
  /\ game \in Games
  /\ table \in StartTables
  /\ snapshot = table
  /\ verified = {}
  /\ fullPass = TRUE
  /\ pending = {}
  /\ stage = "flush"
  /\ todo = {}
  /\ corrections = [w \in Worker |-> {}]
  /\ histogram = [w \in Worker |-> [v \in Dtm |-> 0]]
  /\ failed = {}
  /\ passes = 0

-----------------------------------------------------------------------------
Flushed_Never == snapshot   \* Mutant: a later pass reads the first snapshot

(* What the workers' new views read once the database has been flushed. *)
Flushed == table

(* egtb_flush, new views for every worker, and the threads. *)
StartPass ==
  /\ stage = "flush"
  /\ stage' = "check"
  /\ passes' = passes + 1
  /\ snapshot' = Flushed
  /\ todo' = IF fullPass THEN Index ELSE pending
  /\ corrections' = [w \in Worker |-> {}]
  /\ UNCHANGED <<game, table, verified, fullPass, pending, histogram, failed>>

(***************************************************************************)
(* A worker goes through its range; what it has inspected depends on no    *)
(* order, so the order is left open.                                       *)
(***************************************************************************)
Inspecting(i) ==
  /\ stage = "check"
  /\ i \in todo
  /\ Owner[i] \notin failed

Expected(side, i) == ExpectedDtm(game, snapshot, side, i)

(* Mutant: a value that is right is corrected too. *)
CorrectionsAt_Equal(i) ==
  {[side |-> s, index |-> i, old |-> snapshot[s][i], new |-> Expected(s, i)] :
     s \in Sides}

CorrectionsAt(i) ==
  {[side |-> s, index |-> i, old |-> snapshot[s][i], new |-> Expected(s, i)] :
     s \in {side \in Sides : Expected(side, i) # snapshot[side][i]}}

(* Only the first pass counts a position; corrections move its count. *)
Counted(h, i) ==
  IF fullPass
    THEN [v \in Dtm |-> h[v] + Cardinality({s \in Sides : snapshot[s][i] = v})]
    ELSE h

Representable_Always(i) == TRUE   \* Mutant: the range test is missing

(* expected_dtm fails on a value that storage cannot represent. *)
Representable(i) == \A side \in Sides : Expected(side, i) \in Dtm

InspectPosition(i) ==
  /\ Inspecting(i)
  /\ Representable(i)
  /\ todo' = todo \ {i}
  /\ corrections' = [corrections EXCEPT ![Owner[i]] = @ \cup CorrectionsAt(i)]
  /\ histogram' = [histogram EXCEPT ![Owner[i]] = Counted(@, i)]
  /\ verified' = IF fullPass /\ CorrectionsAt(i) = {} THEN verified \cup {i} ELSE verified
  /\ UNCHANGED <<game, table, snapshot, fullPass, pending, stage, failed, passes>>

InspectionFails(i) ==
  /\ Inspecting(i)
  /\ Faults \/ ~Representable(i)
  /\ failed' = failed \cup {Owner[i]}
  /\ UNCHANGED <<game, table, snapshot, verified, fullPass, pending, stage,
                 todo, corrections, histogram, passes>>

(* Mutant: the join also waits for what a failed worker left undone. *)
Joined_EveryItem == stage = "check" /\ todo = {}

(* The join waits for the workers that have not failed. *)
Joined == stage = "check" /\ \A i \in todo : Owner[i] \in failed

EndCheck ==
  /\ Joined
  /\ stage' = IF failed = {} THEN "apply" ELSE "failed"
  /\ UNCHANGED <<game, table, snapshot, verified, fullPass, pending, todo,
                 corrections, histogram, failed, passes>>

-----------------------------------------------------------------------------
Collected == UNION {corrections[w] : w \in Worker}

Corrected == {c.index : c \in Collected}

(* Mutant: the whole neighbourhood is not collected, only what follows. *)
Neighbours_SuccessorsOnly(i) == UNION {game.succ[side][i] : side \in Sides}

(* mark_consistency_neighbours: quiet predecessors and internal successors *)
(* of a corrected position, for both sides to move.                        *)
Neighbours(i) ==
  UNION {Predecessors(game, side, i) \cup game.succ[side][i] : side \in Sides}

(* mark_consistency_unverified: the position and its quiet predecessors. *)
Unverified(i) == {i} \cup UNION {Predecessors(game, side, i) : side \in Sides}

Written(t, C) ==
  [side \in Sides |-> [i \in Index |->
     IF \E c \in C : c.side = side /\ c.index = i
       THEN (CHOOSE c \in C : c.side = side /\ c.index = i).new
       ELSE t[side][i]]]

(* Mutant: the corrected value is counted again. *)
Moved_Added(h, C) ==
  [v \in Dtm |-> h[v] + Cardinality({c \in C : c.new = v})]

Moved(h, C) ==
  [v \in Dtm |-> h[v] - Cardinality({c \in C : c.old = v})
                      + Cardinality({c \in C : c.new = v})]

(* Mutant: the workers' counts overwrite each other. *)
Settled_OneWorker == \E w \in Worker : corrections[w] = {}

Settled == Collected = {}

(* apply_consistency_corrections by the main thread, alone; pending and    *)
(* affected are swapped.                                                   *)
ApplyCorrections ==
  /\ stage = "apply"
  /\ ~Settled
  /\ stage' = "flush"
  /\ fullPass' = FALSE
  /\ table' = Written(table, Collected)
  /\ histogram' = [w \in Worker |-> Moved(histogram[w], corrections[w])]
  /\ pending' = UNION {Neighbours(i) : i \in Corrected}
  /\ verified' = verified \ UNION {Unverified(i) : i \in Corrected}
  /\ UNCHANGED <<game, snapshot, todo, corrections, failed, passes>>

(* A write fails: the corrections before it are in the table.  The caller  *)
(* drops the verified bitmap of a repair that failed.                      *)
ApplyFails ==
  /\ Faults
  /\ stage = "apply"
  /\ \E C \in SUBSET Collected : table' = Written(table, C)
  /\ stage' = "failed"
  /\ UNCHANGED <<game, snapshot, verified, fullPass, pending, todo,
                 corrections, histogram, failed, passes>>

Converged ==
  /\ stage = "apply"
  /\ Settled
  /\ stage' = "done"
  /\ UNCHANGED <<game, table, snapshot, verified, fullPass, pending, todo,
                 corrections, histogram, failed, passes>>

(* Flushing, a view, a thread or the cache of the main thread fails. *)
CoordinatorFault ==
  /\ Faults
  /\ stage \in {"flush", "check", "apply"}
  /\ stage' = "failed"
  /\ UNCHANGED <<game, table, snapshot, verified, fullPass, pending, todo,
                 corrections, histogram, failed, passes>>

Terminated == stage \in {"done", "failed"} /\ UNCHANGED vars

Inspect == \E i \in Index : InspectPosition(i) \/ InspectionFails(i)

Coordinate == StartPass \/ EndCheck \/ ApplyCorrections \/ Converged

Next == Inspect \/ Coordinate \/ CoordinatorFault \/ ApplyFails \/ Terminated

Spec == Init /\ [][Next]_vars

(* The worker threads and the main thread are scheduled. *)
FairSpec == Spec /\ WF_vars(Inspect) /\ WF_vars(Coordinate)

-----------------------------------------------------------------------------
(***************************************************************************)
(* Properties.                                                             *)
(***************************************************************************)
BothConsistent(t, i) == \A side \in Sides : ConsistentAt(game, t, side, i)

(* A sparse pass may skip a position only if the corrections left it       *)
(* consistent.                                                             *)
SkippedIsConsistent ==
  stage \in {"flush", "check"} /\ ~fullPass =>
    \A i \in Index \ pending : BothConsistent(table, i)

(* "positions whose two DTM values passed the initial full snapshot and    *)
(* were not invalidated by a correction": the final verification skips     *)
(* them, so their values must be right whatever was corrected since.       *)
VerifiedIsConsistent ==
  stage # "failed" => \A i \in verified : BothConsistent(table, i)

(* Neither the next pass nor the final verification misses anything.       *)
PutAsideIsConsistent == SkippedIsConsistent /\ VerifiedIsConsistent

(* Repair always ends, although a wrong value can be handed around a cycle *)
(* of positions and grow: after n passes every distance below n is final.  *)
PassesBounded == passes <= MaxLoss + 2

(* The repair ends with a fixed point of the whole table, not only of the  *)
(* worklist of its last pass; what it has put aside on the way is right,   *)
(* and it needs no more passes than there are distances.                   *)
RepairedIsConsistent ==
  /\ TypeOK
  /\ PutAsideIsConsistent
  /\ PassesBounded
  /\ stage = "done" => Consistent(game, table)

(* "Exact maximum after threaded repair, maintained through corrections":  *)
(* between passes the histogram counts what the worker's range holds.      *)
HistogramExact ==
  stage = "done" \/ (stage = "flush" /\ ~fullPass) =>
    \A w \in Worker, v \in Dtm :
      histogram[w][v] =
        Cardinality({e \in Sides \X Index : Owner[e[2]] = w /\ table[e[1]][e[2]] = v})

RepairTerminates == <>(stage \in {"done", "failed"})

(* "Recompute every value from its legal successors until a fixed point":  *)
(* without a fault the repair gives up only if there is no fixed point.    *)
ReachesFixedPoint ==
  stage = "failed" => \A t \in Tables : ~Consistent(game, t)

-----------------------------------------------------------------------------
(***************************************************************************)
(* Why the repair ends with a consistent table: its inductive invariant.   *)
(***************************************************************************)

(* The workers of a pass read what the table holds. *)
SnapshotFresh == stage \in {"check", "apply"} => snapshot = table

(* A worker's corrections are those of its own positions. *)
CorrectionsSound ==
  \A w \in Worker :
    /\ IsFiniteSet(corrections[w])
    /\ stage \in {"check", "apply"} =>
         \A c \in corrections[w] : Owner[c.index] = w /\ c \in CorrectionsAt(c.index)

Worklist == IF fullPass THEN Index ELSE pending

(* What has been inspected could be stored, and is corrected if wrong. *)
Inspected(i) == Representable(i) /\ CorrectionsAt(i) \subseteq corrections[Owner[i]]

InspectedWorklist ==
  /\ stage = "check" => todo \subseteq Worklist /\ \A i \in Worklist \ todo : Inspected(i)
  /\ stage = "apply" => failed = {} /\ \A i \in Index : Inspected(i)

(* Between passes the table is what the snapshot's values call for. *)
WrittenIsExpected ==
  stage = "flush" =>
    \/ fullPass /\ passes = 0
    \/ ~fullPass /\ 0 < passes /\ \A side \in Sides, i \in Index : table[side][i] = Expected(side, i)

(* The values below n are those the next pass would write. *)
SettledBelow(n) ==
  \A side \in Sides, i \in Index :
    \/ snapshot[side][i] # Draw /\ Distance(snapshot[side][i]) < n
    \/ Expected(side, i) # Draw /\ Distance(Expected(side, i)) < n
    => snapshot[side][i] = Expected(side, i)

(* After n passes every distance below n is final.                         *)
PassesSettle ==
  /\ stage = "flush" => passes <= MaxLoss + 1
  /\ stage \in {"flush", "check", "apply"} /\ 0 < passes => SettledBelow(passes - 1)
  /\ stage \in {"check", "apply"} => 0 < passes

RepairInv ==
  /\ SnapshotFresh
  /\ CorrectionsSound
  /\ InspectedWorklist
  /\ WrittenIsExpected
  /\ PassesSettle

(* The histograms of the workers count the table's values at the places    *)
(* the first pass has come to, and at all of them ever after.              *)
Uncounted == IF ~fullPass THEN {} ELSE IF stage = "flush" THEN Index ELSE todo

Places(w, v) ==
  {e \in Sides \X Index :
     Owner[e[2]] = w /\ e[2] \notin Uncounted /\ table[e[1]][e[2]] = v}

HistogramInv ==
  /\ stage # "failed" =>
       \A w \in Worker, v \in Dtm : histogram[w][v] = Cardinality(Places(w, v))
  /\ stage \in {"apply", "done"} => Uncounted = {}

=============================================================================
