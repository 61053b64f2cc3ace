----------------------------- MODULE Retrograde -----------------------------
(***************************************************************************)
(* The production table generator (generator.c, generate_threaded_impl):   *)
(* frontier-based retrograde analysis by several workers.                  *)
(*                                                                         *)
(* Each worker owns a range of positions and an append-only frontier       *)
(* stream for every (side, value).  The main thread runs the workers       *)
(* through joined stages: initialise every position, then, layer by layer, *)
(* turn the newly decided positions into sources that mark their           *)
(* predecessors as candidates, and evaluate the candidates; finally        *)
(* replay the streams into the table.  A stage ends when every worker has  *)
(* been joined; one failed worker fails the generation.                    *)
(*                                                                         *)
(* The game itself is chosen in the initial state, so that one run of TLC  *)
(* covers every game of the set Games.                                     *)
(***************************************************************************)
EXTENDS GameGraph

CONSTANTS Worker,   \* the frontier workers
          Owner,    \* the worker that owns a position
          Games,    \* the games considered
          Faults    \* whether storage, threads and memory may fail

ASSUME OwnerAssumption == Owner \in [Index -> Worker]
ASSUME GamesAssumption == Games \subseteq GameGraphs
ASSUME FaultsAssumption == Faults \in BOOLEAN

VARIABLES
  game,        \* the game that is solved
  records,     \* frontier streams: the values appended for a side and position
  deferred,    \* candidates waiting for a won layer of the successor's side
  won, lost,   \* outcome bitmaps of both sides
  candidates,  \* the candidate bitmap, shared by all workers
  stage,       \* what the workers are running, or how the generation ended
  layer,       \* the frontier layer being backed up
  todo,        \* positions (records) the workers have still to visit
  activations, \* deferred records they visit after their own sources
  updated,     \* loss_updates # 0 or win_updates # 0 in this iteration
  error,       \* worker -> what made it stop
  table        \* the compiled table

vars == <<game, records, deferred, won, lost, candidates, stage, layer, todo,
          activations, updated, error, table>>

Running  == {"initialize", "sources", "candidates", "compile"}
Kinds    == {"won", "lost"}
Ended    == {"done", "failed", "beyond"}   \* beyond: a DTM exceeds the storage
Errors   == {"none", "io", "dtm", "conflict"}
Layers   == [kind : Kinds, side : Sides, distance : 0 .. MaxLoss]
BitSets  == [Sides -> SUBSET Index]

TypeOK ==
  /\ game \in GameGraphs
  /\ records \in [Sides -> [Index -> SUBSET Dtm]]
  /\ deferred \in [Sides -> [Index -> SUBSET Dtm]]
  /\ won \in BitSets
  /\ lost \in BitSets
  /\ candidates \subseteq Index
  /\ stage \in Running \cup Ended
  /\ layer \in Layers
  /\ todo \subseteq Index
  /\ activations \subseteq Index
  /\ updated \in BOOLEAN
  /\ error \in [Worker -> Errors]
  /\ table \in Tables

Nothing == [side \in Sides |-> [i \in Index |-> {}]]

Init ==
  /\ game \in Games
  /\ records = Nothing
  /\ deferred = Nothing
  /\ won = [side \in Sides |-> {}]
  /\ lost = [side \in Sides |-> {}]
  /\ candidates = {}
  /\ stage = "initialize"
  /\ layer = [kind |-> "lost", side |-> "WTM", distance |-> 0]
  /\ todo = Index
  /\ activations = {}
  /\ updated = FALSE
  /\ error = [w \in Worker |-> "none"]
  /\ table = [side \in Sides |-> [i \in Index |-> Draw]]

-----------------------------------------------------------------------------
(***************************************************************************)
(* Workers.  A worker that has failed does nothing more; the others finish *)
(* the stage.                                                              *)
(***************************************************************************)
Working(i, s) ==
  /\ stage = s
  /\ i \in todo
  /\ error[Owner[i]] = "none"

AppendRecord(store, side, i, value) == [store EXCEPT ![side][i] = @ \cup {value}]

Fail(i, reason) == error' = [error EXCEPT ![Owner[i]] = reason]

(* The DTM that the moves leaving the table decide on their own, if any. *)
InitialValues(side, i) ==
  LET V == game.ext[side][i] IN
  IF (game.succ[side][i] = {}) \/ (\E v \in V : IsLoss(v))
    THEN {BestValue(V)} \ {Draw}
    ELSE {}

(* Mutant: the deferred candidate waits for its shortest external win. *)
DeferralDistances_Shortest(side, i) ==
  LET V == game.ext[side][i] IN
  IF game.succ[side][i] # {} /\ V # {} /\ \A v \in V : IsWin(v) THEN {Min(V)} ELSE {}

(* Internal moves, no external loss or draw, and some external win. *)
DeferralDistances(side, i) ==
  LET V == game.ext[side][i] IN
  IF game.succ[side][i] # {} /\ V # {} /\ \A v \in V : IsWin(v)
    THEN {Max(V)}
    ELSE {}

InitialTooLong_Losses(side, i) ==   \* Mutant: tests losing distances only
  \E v \in InitialValues(side, i) : v < -MaxLoss

InitialTooLong(side, i) == ~(InitialValues(side, i) \subseteq Dtm)

InitializePosition(i) ==
  /\ Working(i, "initialize")
  /\ todo' = todo \ {i}
  /\ IF \E side \in Sides : InitialTooLong(side, i)
       THEN Fail(i, "dtm") /\ UNCHANGED <<records, deferred>>
       ELSE /\ records' = [side \in Sides |->
                 [records[side] EXCEPT ![i] = @ \cup InitialValues(side, i)]]
            /\ deferred' = [side \in Sides |->
                 [deferred[side] EXCEPT
                    ![i] = @ \cup DeferralDistances(Opposite(side), i)]]
            /\ UNCHANGED error
  /\ UNCHANGED <<game, won, lost, candidates, stage, layer, activations,
                 updated, table>>

Outcome(kind) == IF kind = "won" THEN won ELSE lost
LayerValue(l) == IF l.kind = "won" THEN l.distance ELSE -l.distance

(***************************************************************************)
(* One record of the layer: its position is settled unless an earlier,     *)
(* shorter record settled it, and every quiet predecessor is marked.       *)
(***************************************************************************)
ProcessSource(i) ==
  /\ Working(i, "sources")
  /\ todo' = todo \ {i}
  /\ IF i \in Outcome(layer.kind)[layer.side]
       THEN UNCHANGED <<won, lost, candidates, error>>
     ELSE IF i \in (won[layer.side] \cup lost[layer.side])
       THEN Fail(i, "conflict") /\ UNCHANGED <<won, lost, candidates>>
     ELSE /\ IF layer.kind = "won"
               THEN /\ won' = [won EXCEPT ![layer.side] = @ \cup {i}]
                    /\ UNCHANGED lost
               ELSE /\ lost' = [lost EXCEPT ![layer.side] = @ \cup {i}]
                    /\ UNCHANGED won
          /\ candidates' = candidates \cup Predecessors(game, layer.side, i)
          /\ UNCHANGED error
  /\ UNCHANGED <<game, records, deferred, stage, layer, activations, updated,
                 table>>

(* After its own sources a worker wakes the deferred loss candidates. *)
ActivateDeferred(i) ==
  /\ stage = "sources"
  /\ i \in activations
  /\ error[Owner[i]] = "none"
  /\ \A j \in todo : Owner[j] # Owner[i]
  /\ activations' = activations \ {i}
  /\ candidates' = candidates \cup {i}
  /\ UNCHANGED <<game, records, deferred, won, lost, stage, layer, todo,
                 updated, error, table>>

Mover == Opposite(layer.side)

(* Mutant: external moves are not looked at again. *)
AllWinning_InternalOnly(i) ==
  game.succ[Mover][i] # {} /\ game.succ[Mover][i] \subseteq won[layer.side]

(* Every legal move of the candidate gives the opponent a win it has shown. *)
AllWinning(i) ==
  /\ game.succ[Mover][i] # {} \/ game.ext[Mover][i] # {}
  /\ game.succ[Mover][i] \subseteq won[layer.side]
  /\ \A v \in game.ext[Mover][i] : 0 < v /\ v <= layer.distance

CheckLossCandidate(i) ==
  /\ Working(i, "candidates")
  /\ layer.kind = "won"
  /\ todo' = todo \ {i}
  /\ IF i \notin lost[Mover] \cup won[Mover] /\ AllWinning(i)
       THEN /\ records' = AppendRecord(records, Mover, i, -(layer.distance + 1))
            /\ updated' = TRUE
       ELSE UNCHANGED <<records, updated>>
  /\ UNCHANGED <<game, deferred, won, lost, candidates, stage, layer,
                 activations, error, table>>

CheckWinCandidate(i) ==
  /\ Working(i, "candidates")
  /\ layer.kind = "lost"
  /\ todo' = todo \ {i}
  /\ IF i \in won[Mover]
       THEN UNCHANGED <<records, updated, error>>
     ELSE IF i \in lost[Mover]
       THEN Fail(i, "conflict") /\ UNCHANGED <<records, updated>>
     ELSE /\ records' = AppendRecord(records, Mover, i, layer.distance + 1)
          /\ updated' = TRUE
          /\ UNCHANGED error
  /\ UNCHANGED <<game, deferred, won, lost, candidates, stage, layer,
                 activations, table>>

(* Mutant: the streams are replayed from the shortest distance up. *)
Replayed_Ascending(R) ==
  IF R = {} THEN Draw
  ELSE CHOOSE v \in R : \A u \in R : Distance(v) >= Distance(u)

(* The streams are replayed from the longest distance to the shortest. *)
Replayed(R) ==
  IF R = {} THEN Draw
  ELSE CHOOSE v \in R : \A u \in R : Distance(v) <= Distance(u)

CompilePosition(i) ==
  /\ Working(i, "compile")
  /\ todo' = todo \ {i}
  /\ table' = [side \in Sides |->
                 [table[side] EXCEPT ![i] = Replayed(records[side][i])]]
  /\ UNCHANGED <<game, records, deferred, won, lost, candidates, stage, layer,
                 activations, updated, error>>

(* A stream, bitmap, index or page operation of a worker fails. *)
WorkerFault(i) ==
  /\ Faults
  /\ stage \in Running
  /\ i \in todo \cup activations
  /\ error[Owner[i]] = "none"
  /\ Fail(i, "io")
  /\ UNCHANGED <<game, records, deferred, won, lost, candidates, stage, layer,
                 todo, activations, updated, table>>

WorkerStep(i) ==
  \/ InitializePosition(i)
  \/ ProcessSource(i)
  \/ ActivateDeferred(i)
  \/ CheckLossCandidate(i)
  \/ CheckWinCandidate(i)
  \/ CompilePosition(i)

-----------------------------------------------------------------------------
(***************************************************************************)
(* The main thread.                                                        *)
(***************************************************************************)
(* Mutant: the join also waits for what a failed worker left undone. *)
Joined_EveryItem(s) == stage = s /\ todo \cup activations = {}

(* run_frontier_workers returns once every worker has been joined: each    *)
(* has finished its own work or has failed.                                *)
Joined(s) ==
  /\ stage = s
  /\ \A i \in todo \cup activations : error[Owner[i]] # "none"

AllWell == \A w \in Worker : error[w] = "none"

HasRecord(store, d) ==
  \E side \in Sides, i \in Index : \E v \in store[side][i] : Distance(v) >= d

StartLayer(l) ==
  /\ layer' = l
  /\ stage' = "sources"
  /\ todo' = {i \in Index : LayerValue(l) \in records[l.side][i]}
  /\ activations' = IF l.kind = "won"
                      THEN {i \in Index : l.distance \in deferred[l.side][i]}
                      ELSE {}

Stop(reason) ==
  stage' = reason /\ UNCHANGED <<layer, todo, activations, updated>>

(* One failed worker fails the generation, with that worker's message. *)
JoinFailure ==
  /\ \E s \in Running : Joined(s)
  /\ \E w \in Worker :
       /\ error[w] # "none"
       /\ Stop(IF error[w] = "dtm" THEN "beyond" ELSE "failed")
  /\ UNCHANGED <<game, records, deferred, won, lost, candidates, error, table>>

(* The main thread itself fails: a thread, a view or a stream operation. *)
CoordinatorFault ==
  /\ Faults
  /\ stage \in Running
  /\ Stop("failed")
  /\ UNCHANGED <<game, records, deferred, won, lost, candidates, error, table>>

EndInitialize ==
  /\ Joined("initialize") /\ AllWell
  /\ StartLayer([kind |-> "lost", side |-> "WTM", distance |-> 0])
  /\ UNCHANGED <<game, records, deferred, won, lost, candidates, updated,
                 error, table>>

(* The evaluation of an empty candidate bitmap is a stage with no work. *)
EndSources ==
  /\ Joined("sources") /\ AllWell
  /\ stage' = "candidates"
  /\ todo' = candidates
  /\ UNCHANGED <<game, records, deferred, won, lost, candidates, layer,
                 activations, updated, error, table>>

(***************************************************************************)
(* After the evaluation of a layer for both sides: lost-in-0 is followed   *)
(* by won-in-1, won-in-d by lost-in-(d+1) when the streams reach that far, *)
(* and the loop ends when nothing is left above d.                         *)
(***************************************************************************)
NextWonLayer(d) ==
  /\ StartLayer([kind |-> "won", side |-> "WTM", distance |-> d])
  /\ updated' = FALSE

StartCompile ==
  /\ stage' = "compile"
  /\ todo' = Index
  /\ UNCHANGED <<layer, activations, updated>>

Finished(d) ==
  ~HasRecord(records, d + 1) /\ ~HasRecord(deferred, d + 1) /\ ~updated

EndIteration_Early(d) ==   \* Mutant: gives up one layer too early
  IF Finished(d) THEN StartCompile
  ELSE IF d >= MaxWin - 2 THEN Stop("beyond")
  ELSE NextWonLayer(d + 2)

EndIteration(d) ==
  IF Finished(d) THEN StartCompile
  ELSE IF d > MaxWin - 2 THEN Stop("beyond")
  ELSE NextWonLayer(d + 2)

(* Mutant: compares with the longest loss instead of the longest win. *)
LossLayerTooLong_MaxLoss(d) == d > MaxLoss

LossLayerTooLong(d) == d >= MaxWin

KeepCandidates == UNCHANGED candidates   \* Mutant: the bitmap is not cleared

(* Each worker clears its own range when it has evaluated it. *)
ClearCandidates == candidates' = {}

EndLayer ==
  /\ Joined("candidates") /\ AllWell
  /\ ClearCandidates
  /\ LET d == layer.distance IN
     IF layer.side = "WTM"
       THEN StartLayer([layer EXCEPT !.side = "BTM"]) /\ UNCHANGED updated
     ELSE IF layer.kind = "won" /\ HasRecord(records, d + 1)
       THEN IF LossLayerTooLong(d + 1)
              THEN Stop("beyond")
              ELSE /\ StartLayer([kind |-> "lost", side |-> "WTM",
                                  distance |-> d + 1])
                   /\ UNCHANGED updated
     ELSE IF layer.kind = "won" THEN EndIteration(d)
     ELSE IF d = 0 THEN NextWonLayer(1)
     ELSE EndIteration(d - 1)
  /\ UNCHANGED <<game, records, deferred, won, lost, error, table>>

EndCompile ==
  /\ Joined("compile") /\ AllWell
  /\ stage' = "done"
  /\ UNCHANGED <<game, records, deferred, won, lost, candidates, layer, todo,
                 activations, updated, error, table>>

Terminated == stage \in Ended /\ UNCHANGED vars

Coordinate ==
  EndInitialize \/ EndSources \/ EndLayer \/ EndCompile \/ JoinFailure

Next ==
  \/ \E i \in Index : WorkerStep(i) \/ WorkerFault(i)
  \/ Coordinate
  \/ CoordinatorFault
  \/ Terminated

Spec == Init /\ [][Next]_vars

(* Every worker thread is scheduled, and so is the main thread. *)
FairSpec ==
  Spec /\ WF_vars(\E i \in Index : WorkerStep(i)) /\ WF_vars(Coordinate)

-----------------------------------------------------------------------------
(***************************************************************************)
(* Properties.                                                             *)
(***************************************************************************)

(* "position has conflicting frontier outcomes" and "losing position also  *)
(* proved won" are errors the workers test for: no game can raise them.    *)
NoConflict == \A w \in Worker : error[w] # "conflict"

(* What the generator compiles is what the verifier expects: every entry   *)
(* equals the best value over its successors, draws included.              *)
CompiledIsConsistent == stage = "done" => Consistent(game, table)

(* The generation gives up only when a distance is beyond the ones it can  *)
(* back up: no consistent table stays within EGTB_MAX_WIN_DTM, or another  *)
(* table already holds a longer loss.  It never writes such a loss itself. *)
InRange(v) == Distance(v) <= MaxWin

(* The tables within the range that are right where no quiet move exists.  *)
Deciding == {e \in Sides \X Index : game.succ[e[1]][e[2]] # {}}

TableOf(values) ==
  [side \in Sides |-> [i \in Index |->
     IF <<side, i>> \in Deciding THEN values[<<side, i>>]
     ELSE BestValue(game.ext[side][i])]]

WithinRange(t) == \A side \in Sides, i \in Index : InRange(t[side][i])

Solvable ==
  \E values \in [Deciding -> {v \in Dtm : InRange(v)}] :
    /\ WithinRange(TableOf(values))
    /\ Consistent(game, TableOf(values))

GivesUpOnlyBeyondRange ==
  /\ stage = "beyond" =>
       \/ \E side \in Sides, i \in Index : \E v \in game.ext[side][i] : ~InRange(v)
       \/ ~Solvable
  /\ stage = "done" => WithinRange(table)

(* The layered loop ends: the generation completes or fails. *)
Terminates == <>(stage \in Ended)

-----------------------------------------------------------------------------
(***************************************************************************)
(* The inductive invariant behind NoConflict.                              *)
(***************************************************************************)
HasWin(side, i)  == \E v \in records[side][i] : IsWin(v)
HasLoss(side, i) == \E v \in records[side][i] : IsLoss(v)

(* Won layers have odd distances, lost layers even ones below MaxWin. *)
LayerParity ==
  /\ layer.kind = "won"  => layer.distance % 2 = 1 /\ layer.distance <= MaxWin
  /\ layer.kind = "lost" => layer.distance % 2 = 0 /\ layer.distance < MaxWin

(* A record of a loss: every move gives the opponent a win. *)
LossJustified ==
  \A side \in Sides, i \in Index : HasLoss(side, i) =>
    /\ \A x \in game.ext[side][i] : IsWin(x)
    /\ \A j \in game.succ[side][i] : HasWin(Opposite(side), j)

(* A record of a win: some move leaves the opponent lost. *)
WinJustified ==
  \A side \in Sides, i \in Index : HasWin(side, i) =>
    \/ \E x \in game.ext[side][i] : IsLoss(x)
    \/ \E j \in game.succ[side][i] : HasLoss(Opposite(side), j)

Exclusive ==
  \A side \in Sides, i \in Index : ~(HasWin(side, i) /\ HasLoss(side, i))

(* Outcome bits are set for recorded positions only. *)
BitsRecorded ==
  \A side \in Sides :
    /\ \A i \in won[side]  : HasWin(side, i)
    /\ \A i \in lost[side] : HasLoss(side, i)

InitialRecords ==
  stage = "initialize" =>
    /\ candidates = {} /\ activations = {}
    /\ \A side \in Sides, i \in Index : records[side][i] \subseteq InitialValues(side, i)

(* What the workers still have to visit belongs to the layer. *)
WorkOfLayer ==
  /\ stage = "sources" => \A i \in todo : LayerValue(layer) \in records[layer.side][i]
  /\ stage = "candidates" => todo \subseteq candidates
  /\ layer.kind = "lost" => activations = {}

(* A win candidate can move to a position the opponent has lost. *)
WinCandidates ==
  stage \in {"sources", "candidates"} /\ layer.kind = "lost" =>
    \A i \in candidates : \E j \in game.succ[Mover][i] : j \in lost[layer.side]

ConflictInv ==
  /\ TypeOK
  /\ LayerParity
  /\ LossJustified
  /\ WinJustified
  /\ Exclusive
  /\ BitsRecorded
  /\ InitialRecords
  /\ WorkOfLayer
  /\ WinCandidates
  /\ NoConflict

=============================================================================
