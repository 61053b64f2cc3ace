----------------------------- MODULE PositionWalk -----------------------------
(***************************************************************************)
(* A program at work on positions: the generator runs through the indices  *)
(* of a database, plays the moves of each position to look up their values *)
(* and takes quiet moves back to find the positions a new value may        *)
(* decide.  What it may rely on is stated of every position it can reach.  *)
(***************************************************************************)
EXTENDS PositionIndex, PaddedDraughts

CONSTANT Starts     \* canonical materials whose databases it runs through

VARIABLES position, side

walkVars == <<position, side>>

(* The databases: all the materials of at most as many pieces as Starts. *)
PieceCount(m) == White(m) + Black(m)
MaxPieces == Max({PieceCount(m) : m \in Starts})
Materials == {m \in [Kinds -> 0 .. MaxPieces] :
                /\ PieceCount(m) <= MaxPieces
                /\ ~ IsTerminal(m) /\ KeepsWhite(m)}

FrontierRows(m, kind, rows) == IF m[kind] = 0 THEN {NoRow} ELSE rows
SlicesOf(m) == [white : FrontierRows(m, "wm", 1 .. Rows - 1),
                black : FrontierRows(m, "bm", 0 .. Rows - 2)]

NoSlice == [white |-> NoRow, black |-> NoRow]
Indexers ==
  {NewIndexer(m, NoSlice, FALSE) : m \in Materials}
  \cup UNION {{NewIndexer(m, slice, TRUE) : slice \in SlicesOf(m)} :
                m \in Materials}

FullIndexer(m) == CHOOSE e \in Indexers : e.material = m /\ ~ e.sliced

(* catalog_probe: the database that holds a position, which may be that of *)
(* its mirror.                                                             *)
Stored(p) == IF KeepsWhite(MaterialOf(p)) THEN p ELSE MirrorPosition(p)
IndexersOf(p) ==
  {e \in Indexers : /\ e.material = MaterialOf(p)
                    /\ e.sliced => e.slice = PositionSlice(p)}

-------------------------------------------------------------------------------
Init ==
  /\ position \in {IndexToPosition(FullIndexer(m), 0) : m \in Starts}
  /\ side \in Sides

(* The next index of the database. *)
ScanNext ==
  LET e == FullIndexer(MaterialOf(Stored(position)))
      next == PositionToIndex(e, Stored(position)) + 1
  IN /\ position = Stored(position)
     /\ next < PositionCount(e)
     /\ position' = IndexToPosition(e, next)
     /\ UNCHANGED side

Play ==
  \E m \in PaddedMoves(position, side) :
    LET next == DoMove(position, side, m)
    IN /\ ~ IsTerminal(MaterialOf(next))
       /\ position' = next
       /\ side' = OtherSide(side)

TakeBack ==
  \E p \in PaddedQuietPredecessors(position, side) :
    /\ position' = p
    /\ side' = OtherSide(side)

Next == ScanNext \/ Play \/ TakeBack

Spec == Init /\ [][Next]_walkVars

-------------------------------------------------------------------------------
MirrorMove(m) == [from |-> Max(Squares) - m.from, to |-> Max(Squares) - m.to,
                  captured |-> Rotate180(m.captured)]

(***************************************************************************)
(* The two generators of movegen.c are one game: they give the same moves, *)
(* the same predecessors and the same answer to whether there is a         *)
(* capture, which is that of the full search; and the game is the same     *)
(* seen from the other side, without which a value read from the mirrored  *)
(* database would mean nothing.                                            *)
(***************************************************************************)
GeneratorsAgree ==
  LET moves == Moves(position, side)
  IN /\ PaddedMoves(position, side) = moves
     /\ HasCapture(position, side) <=> AllCaptures(position, side) # {}
     /\ PaddedHasCapture(position, side) <=> HasCapture(position, side)
     /\ PaddedQuietPredecessors(position, side)
          = QuietPredecessors(position, side)
     /\ Moves(MirrorPosition(position), OtherSide(side))
          = {MirrorMove(m) : m \in moves}

(***************************************************************************)
(* The quiet predecessors of a position are exactly the positions with     *)
(* the same pieces from which a legal quiet move leads to it: a missed one *)
(* would keep the value of a draw, and a wrong one would be examined for   *)
(* nothing or leave the database.                                          *)
(***************************************************************************)
PredecessorsInvert ==
  /\ \A p \in QuietPredecessors(position, side) :
       /\ PositionIsValid(p)
       /\ MaterialOf(p) = MaterialOf(position)
       /\ \E m \in Moves(p, OtherSide(side)) :
            m.captured = {} /\ DoMove(p, OtherSide(side), m) = position
  /\ \A m \in Moves(position, side) :
       LET next == DoMove(position, side, m)
       IN MaterialOf(next) = MaterialOf(position)
            => position \in QuietPredecessors(next, OtherSide(side))

(***************************************************************************)
(* A position has one index, below the count, in its database and in its   *)
(* slice, and the index gives it back; and the index after it is that of   *)
(* another position of the same database or slice.  A run through the      *)
(* indices therefore meets every position exactly once.                    *)
(***************************************************************************)
IndexIsOneToOne ==
  \A e \in IndexersOf(Stored(position)) :
    LET p == Stored(position)
        index == PositionToIndex(e, p)
        after == (index + 1) % PositionCount(e)
    IN /\ ContainsPosition(e, p)
       /\ index \in 0 .. PositionCount(e) - 1
       /\ IndexToPosition(e, index) = p
       /\ ContainsPosition(e, IndexToPosition(e, after))
       /\ PositionToIndex(e, IndexToPosition(e, after)) = after

(***************************************************************************)
(* Whatever is played, the position after it is legal, and unless the game *)
(* is over its value is found in the same database or in one that is       *)
(* generated before it: the same slice, the slice whose frontier is one    *)
(* row ahead, or an earlier material.                                      *)
(***************************************************************************)
ValuesAreReady ==
  \A m \in Moves(position, side) :
    LET next == DoMove(position, side, m)
        before == MaterialOf(Stored(position))
        after == MaterialOf(Stored(next))
        s == PositionSlice(Stored(position))
        t == PositionSlice(Stored(next))
    IN /\ PositionIsValid(next)
       /\ ~ IsTerminal(MaterialOf(next)) =>
            \/ GeneratedBefore(after, before)
            \/ after = before /\ t = s
            \/ after = before /\ t = [s EXCEPT !.white = @ - 1]
            \/ after = before /\ t = [s EXCEPT !.black = @ + 1]
===============================================================================
