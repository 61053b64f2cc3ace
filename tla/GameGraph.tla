----------------------------- MODULE GameGraph -----------------------------
(***************************************************************************)
(* The mathematics under the generator: one endgame table is a function    *)
(* from a side to move and a position index to a distance-to-mate value    *)
(* (DTM), and a position's value is determined by the values of its        *)
(* successors.  A successor is either internal (a quiet move that keeps    *)
(* the material and stays inside the table) or external (a capture, a      *)
(* promotion or a move into another slice, whose value another table       *)
(* already holds).                                                         *)
(***************************************************************************)
EXTENDS Integers, FiniteSets, FiniteSetsExt

CONSTANTS Index,    \* the positions of the table
          MaxWin    \* EGTB_MAX_WIN_DTM

ASSUME MaxWinAssumption == MaxWin \in Nat /\ MaxWin % 2 = 1

MaxLoss == MaxWin + 1     \* EGTB_MAX_LOSS_DTM

Sides == {"WTM", "BTM"}

Opposite(side) == IF side = "WTM" THEN "BTM" ELSE "WTM"

Draw == -1

IsWin(v)  == v > 0
IsLoss(v) == v <= 0 /\ v # Draw

Distance(v) == IF v < 0 THEN -v ELSE v

(* valid_dtm: odd wins, even losses (zero included), and the draw. *)
Dtm == {v \in -MaxLoss .. MaxWin :
          \/ v = Draw
          \/ v > 0 /\ v % 2 = 1
          \/ v <= 0 /\ v % 2 = 0}

Tables == [Sides -> [Index -> Dtm]]

(***************************************************************************)
(* A game: the quiet moves inside the table and the values of the moves    *)
(* that leave it, for each side to move.                                   *)
(***************************************************************************)
GameGraphs == [succ : [Sides -> [Index -> SUBSET Index]],
               ext  : [Sides -> [Index -> SUBSET Dtm]]]

Predecessors(g, side, i) == {p \in Index : i \in g.succ[Opposite(side)][p]}

SuccessorValues(g, t, side, i) ==
  {t[Opposite(side)][j] : j \in g.succ[side][i]} \cup g.ext[side][i]

(***************************************************************************)
(* The value of a position whose successors have the values V, each from   *)
(* the opponent's point of view: no move loses at once, a move to a lost   *)
(* opponent wins (quickest first), else a draw is taken, else the longest  *)
(* defence.  The result is outside Dtm when storage cannot represent it.   *)
(***************************************************************************)
BestValue(V) ==
  IF V = {} THEN 0
  ELSE IF \E v \in V : IsLoss(v) THEN 1 - Max({v \in V : IsLoss(v)})
  ELSE IF Draw \in V THEN Draw
  ELSE -(Max(V) + 1)

ExpectedDtm(g, t, side, i) == BestValue(SuccessorValues(g, t, side, i))

ConsistentAt(g, t, side, i) == t[side][i] = ExpectedDtm(g, t, side, i)

Consistent(g, t) == \A side \in Sides, i \in Index : ConsistentAt(g, t, side, i)

=============================================================================
