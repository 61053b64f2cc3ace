------------------------- MODULE RetrogradeSolution -------------------------
(***************************************************************************)
(* Why the layers of Retrograde solve the game: the inductive invariant    *)
(* behind CompiledIsConsistent.  Every record is the value of a best move  *)
(* (RecordsSound); and once a layer has been backed up, whatever follows   *)
(* from its records has been recorded (WinComplete, LossComplete), but for *)
(* the positions the workers still have to look at.                        *)
(***************************************************************************)
EXTENDS Retrograde

Layering == stage \in {"sources", "candidates"}
Solving  == Layering \/ stage \in {"compile", "done"}

WinWithin(side, i, n)  == \E v \in records[side][i] : IsWin(v) /\ v <= n
LossWithin(side, i, n) == \E v \in records[side][i] : IsLoss(v) /\ -v <= n

(* The layer of this side and distance has been backed up. *)
Backed(side, n) ==
  \/ ~Layering
  \/ n < layer.distance
  \/ n = layer.distance /\ side = "WTM" /\ layer.side = "BTM"

(* A record of distance n of position i has reached the outcome bitmaps. *)
Shown(side, i, n) ==
  \/ Backed(side, n)
  \/ /\ n = layer.distance /\ side = layer.side
     /\ stage = "sources" => i \notin todo

ShownWin(side, i, n) ==
  \E v \in records[side][i] : IsWin(v) /\ v <= n /\ Shown(side, i, v)
ShownLoss(side, i) ==
  \E v \in records[side][i] : IsLoss(v) /\ Shown(side, i, -v)

(* Candidates of the current layer that are not evaluated yet. *)
Awaited(kind, side, n, i) ==
  /\ Layering
  /\ layer.kind = kind /\ layer.side = side /\ layer.distance = n
  /\ IF stage = "sources" THEN i \in candidates \cup activations ELSE i \in todo

-----------------------------------------------------------------------------
Initialized(i) ==
  \/ Solving
  \/ stage = "initialize" /\ i \notin todo /\ error[Owner[i]] = "none"

InitialComplete ==
  \A i \in Index : Initialized(i) =>
    \A side \in Sides :
      /\ InitialValues(side, i) \subseteq records[side][i]
      /\ DeferralDistances(Opposite(side), i) \subseteq deferred[side][i]

DeferralSound ==
  \A side \in Sides, i \in Index :
    deferred[side][i] \subseteq DeferralDistances(Opposite(side), i)

(* Every move wins for the opponent in m plies or fewer, and one takes m. *)
LostIn(side, i, m) ==
  /\ 0 < m /\ m <= layer.distance
  /\ game.succ[side][i] # {}
  /\ \A j \in game.succ[side][i] : WinWithin(Opposite(side), j, m)
  /\ \A x \in game.ext[side][i] : IsWin(x) /\ x <= m
  /\ \/ m \in game.ext[side][i]
     \/ \E j \in game.succ[side][i] : ~WinWithin(Opposite(side), j, m - 1)

(* A record is initial or follows from records one ply shorter. *)
RecordsSound ==
  \A side \in Sides, i \in Index : \A v \in records[side][i] :
    \/ v \in InitialValues(side, i)
    \/ IsWin(v) /\ \E j \in game.succ[side][i] : 1 - v \in records[Opposite(side)][j]
    \/ IsLoss(v) /\ LostIn(side, i, -v - 1)

WinComplete ==
  Solving =>
    \A side \in Sides, j \in Index : \A v \in records[side][j] :
      IsLoss(v) /\ Shown(side, j, -v) =>
        \A p \in Predecessors(game, side, j) :
          \/ WinWithin(Opposite(side), p, 1 - v)
          \/ Awaited("lost", side, -v, p)

(* All moves of i, by the other side, lead to wins of side within m. *)
AllShown(side, i, m) ==
  /\ game.succ[Opposite(side)][i] # {}
  /\ \A j \in game.succ[Opposite(side)][i] : ShownWin(side, j, m)
  /\ \A x \in game.ext[Opposite(side)][i] : IsWin(x) /\ x <= m

LossComplete ==
  Solving =>
    \A side \in Sides, i \in Index, m \in 1 .. MaxWin :
      /\ m % 2 = 1
      /\ Backed(side, m) \/ (layer.side = side /\ layer.distance = m)
      /\ AllShown(side, i, m)
      => \/ LossWithin(Opposite(side), i, m + 1)
         \/ Awaited("won", side, m, i)

BitsExact ==
  /\ stage = "initialize" =>
       layer.distance = 0 /\ \A side \in Sides : won[side] = {} /\ lost[side] = {}
  /\ Layering => \A side \in Sides, i \in Index :
                   /\ i \in won[side]  <=> ShownWin(side, i, MaxWin)
                   /\ i \in lost[side] <=> ShownLoss(side, i)

(* A candidate has a quiet move, and a win candidate one to a source. *)
CandidatesSound ==
  Layering => \A i \in candidates \cup activations :
    /\ game.succ[Mover][i] # {}
    /\ layer.kind = "lost" =>
         \E j \in game.succ[Mover][i] : -layer.distance \in records[layer.side][j]

RecordsBounded ==
  Solving /\ ~Layering =>
    \A side \in Sides, i \in Index : \A v \in records[side][i] :
      Distance(v) <= layer.distance

TableReplayed ==
  Solving /\ ~Layering =>
    \A side \in Sides, i \in Index :
      \/ stage = "compile" /\ i \in todo
      \/ table[side][i] = Replayed(records[side][i])

SolutionInv ==
  /\ InitialComplete
  /\ DeferralSound
  /\ RecordsSound
  /\ WinComplete
  /\ LossComplete
  /\ BitsExact
  /\ CandidatesSound
  /\ RecordsBounded
  /\ TableReplayed

-----------------------------------------------------------------------------
(* The records are those of a solved game, up to distance MaxWin: sound,   *)
(* and complete for what follows from distances up to MaxWin.              *)
SolvedRecords ==
  /\ \A side \in Sides, i \in Index : InitialValues(side, i) \subseteq records[side][i]
  /\ \A side \in Sides, j \in Index : \A v \in records[side][j] :
       IsLoss(v) /\ -v <= MaxWin =>
         \A p \in Predecessors(game, side, j) : WinWithin(Opposite(side), p, 1 - v)
  /\ \A side \in Sides, i \in Index, m \in 1 .. MaxWin :
       /\ m % 2 = 1 /\ game.succ[side][i] # {}
       /\ \A j \in game.succ[side][i] : WinWithin(Opposite(side), j, m)
       /\ \A x \in game.ext[side][i] : IsWin(x) /\ x <= m
       => LossWithin(side, i, m + 1)

(* Why the generator gives up: a value that is too long at the start, or a *)
(* solved game with a loss that is too long to be backed up.               *)
SomeInitialTooLong == \E side \in Sides, i \in Index : InitialTooLong(side, i)

DtmErrors == (\E w \in Worker : error[w] = "dtm") => SomeInitialTooLong

UpdatedRecorded ==
  Layering /\ layer.kind = "won" /\ updated => HasRecord(records, layer.distance + 1)

BeyondRecords ==
  stage = "beyond" =>
    SomeInitialTooLong \/ (SolvedRecords /\ HasRecord(records, MaxLoss))

RangeInv == DtmErrors /\ UpdatedRecorded /\ BeyondRecords

=============================================================================
