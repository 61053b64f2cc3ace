------------------------------- MODULE Draughts -------------------------------
(***************************************************************************)
(* The rules of international draughts as movegen.c plays them, on a board *)
(* of any size: Rows rows of Columns dark squares (ten of five in the      *)
(* code), numbered from the top left.  White men walk towards row 0.  A    *)
(* bitboard is the set of its squares.  The generator reports the moves of *)
(* a position as a list in which two paths of one capture may stand twice; *)
(* here they are a set.                                                    *)
(***************************************************************************)
EXTENDS Integers, FiniteSets, FiniteSetsExt

CONSTANTS Rows, Columns

ASSUME BoardAssumption == Rows \in Nat \ {0, 1} /\ Columns \in Nat \ {0}

Squares == 0 .. Rows * Columns - 1
NoSquare == -1

Up == {"NW", "NE"}
Down == {"SW", "SE"}
Directions == Up \cup Down

Row(s) == s \div Columns
Column(s) == 2 * (s % Columns) + 1 - (Row(s) % 2)

SquareAt(row, column) ==
  IF row \in 0 .. Rows - 1 /\ column \in 0 .. 2 * Columns - 1
       /\ (row + column) % 2 = 1
  THEN row * Columns + (column \div 2) ELSE NoSquare

(* The square that is n steps from s. *)
Steps(s, d, n) ==
  SquareAt(Row(s) + (IF d \in Up THEN -n ELSE n),
           Column(s) + (IF d \in {"NW", "SW"} THEN -n ELSE n))

NextSquare == [s \in Squares |-> [d \in Directions |-> Steps(s, d, 1)]]
JumpSquare == [s \in Squares |-> [d \in Directions |-> Steps(s, d, 2)]]
RayMask == [s \in Squares |-> [d \in Directions |->
              {Steps(s, d, n) : n \in 1 .. Rows} \ {NoSquare}]]
BetweenMask ==
  [s \in Squares |-> [t \in Squares |->
     UNION {RayMask[s][d] \ ({t} \cup RayMask[t][d]) :
              d \in {e \in Directions : t \in RayMask[s][e]}}]]

(* The first square of a part of a ray. *)
Nearest(squares, d) == IF d \in Up THEN Max(squares) ELSE Min(squares)

(* The squares of a ray before its first piece. *)
FreeRay(s, d, all) ==
  LET blockers == RayMask[s][d] \cap all
  IN IF blockers = {} THEN RayMask[s][d]
     ELSE BetweenMask[s][Nearest(blockers, d)]

-------------------------------------------------------------------------------
Sides == {"WTM", "BTM"}
OtherSide(side) == IF side = "WTM" THEN "BTM" ELSE "WTM"

Kinds == {"wm", "bm", "wk", "bk"}
Positions == [Kinds -> SUBSET Squares]

OwnMen(side) == IF side = "WTM" THEN "wm" ELSE "bm"
OwnKings(side) == IF side = "WTM" THEN "wk" ELSE "bk"

Men(p, side) == p[OwnMen(side)]
Kings(p, side) == p[OwnKings(side)]
Pieces(p, side) == Men(p, side) \cup Kings(p, side)
Opponents(p, side) == Pieces(p, OtherSide(side))
Occupied(p) == Pieces(p, "WTM") \cup Pieces(p, "BTM")

IsPromotion(side, s) == Row(s) = IF side = "WTM" THEN 0 ELSE Rows - 1

PositionIsValid(p) ==
  /\ Occupied(p) \subseteq Squares
  /\ \A k, l \in Kinds : k # l => p[k] \cap p[l] = {}
  /\ \A side \in Sides : \A s \in Men(p, side) : ~ IsPromotion(side, s)

-------------------------------------------------------------------------------
(***************************************************************************)
(* Captures.  The capturing piece has left its square; captured pieces     *)
(* stay on the board until the move is over, and none is taken twice.  A   *)
(* path ends where it cannot go on; "all" is what stands on the board.     *)
(***************************************************************************)
RECURSIVE ManPaths(_, _, _, _)
ManPaths(opponents, all, current, captured) ==
  LET jumps == {d \in Directions :
                  /\ NextSquare[current][d] \in opponents \ captured
                  /\ JumpSquare[current][d] \in Squares \ (all \cup {current})}
  IN IF jumps = {} THEN {[to |-> current, captured |-> captured]}
     ELSE UNION {ManPaths(opponents, all, JumpSquare[current][d],
                          captured \cup {NextSquare[current][d]}) :
                   d \in jumps}

RECURSIVE KingPaths(_, _, _, _)
KingPaths(opponents, all, current, captured) ==
  LET Blockers(d) == RayMask[current][d] \cap all
      hits == {d \in Directions :
                 /\ Blockers(d) # {}
                 /\ Nearest(Blockers(d), d) \in opponents \ captured}
      jumps == {<<Nearest(Blockers(d), d), d>> : d \in hits}
      Landings(j) == FreeRay(j[1], j[2], all \cup {current})
  IN IF \A j \in jumps : Landings(j) = {}
     THEN {[to |-> current, captured |-> captured]}
     ELSE UNION {KingPaths(opponents, all, landing, captured \cup {j[1]}) :
                   <<j, landing>> \in
                     UNION {{j} \X Landings(j) : j \in jumps}}

MovesAlong(paths, from) ==
  {[from |-> from, to |-> path.to, captured |-> path.captured] :
     path \in {q \in paths : q.captured # {}}}

AllCaptures(p, side) ==
  UNION ({MovesAlong(ManPaths(Opponents(p, side), Occupied(p) \ {s}, s, {}), s) :
            s \in Men(p, side)}
         \cup
         {MovesAlong(KingPaths(Opponents(p, side), Occupied(p) \ {s}, s, {}), s) :
            s \in Kings(p, side)})

(* record_capture: only the captures of most pieces are kept. *)
LongestCaptures(captures) ==
  {m \in captures : \A other \in captures :
                      Cardinality(other.captured) <= Cardinality(m.captured)}

ManHasCapture(s, opponents, all) ==
  \E d \in Directions : /\ NextSquare[s][d] \in opponents
                        /\ JumpSquare[s][d] \in Squares \ all

KingHasCapture(s, opponents, all) ==
  \E d \in Directions :
    LET blockers == RayMask[s][d] \cap all
    IN /\ blockers # {}
       /\ Nearest(blockers, d) \in opponents
       /\ NextSquare[Nearest(blockers, d)][d] \in Squares \ all

HasCapture(p, side) ==
  \/ \E s \in Men(p, side) :
        ManHasCapture(s, Opponents(p, side), Occupied(p))
  \/ \E s \in Kings(p, side) :
        KingHasCapture(s, Opponents(p, side), Occupied(p))

-------------------------------------------------------------------------------
Forward(side) == IF side = "WTM" THEN Up ELSE Down

Quiet(from, to) == [from |-> from, to |-> to, captured |-> {}]

QuietMoves(p, side) ==
  {Quiet(s, NextSquare[s][d]) :
     <<s, d>> \in {x \in Men(p, side) \X Forward(side) :
                     NextSquare[x[1]][x[2]] \in Squares \ Occupied(p)}}
  \cup
  UNION {{Quiet(s, to) : to \in UNION {FreeRay(s, d, Occupied(p)) :
                                         d \in Directions}} :
           s \in Kings(p, side)}

(* draughts_generate_moves: the longest captures, or else the quiet moves. *)
Moves(p, side) ==
  LET captures == AllCaptures(p, side)
  IN IF captures # {} THEN LongestCaptures(captures) ELSE QuietMoves(p, side)

DoMove(p, side, m) ==
  LET king == m.from \in Kings(p, side) \/ IsPromotion(side, m.to)
      becomes == IF king THEN OwnKings(side) ELSE OwnMen(side)
  IN [k \in Kinds |-> (p[k] \ ({m.from} \cup m.captured))
                        \cup (IF k = becomes THEN {m.to} ELSE {})]

-------------------------------------------------------------------------------
(***************************************************************************)
(* The positions of the same material from which the side that just moved  *)
(* came by a quiet move, when it had no capture to make there.             *)
(***************************************************************************)
Backward(side) == Forward(OtherSide(side))

ManSources(p, mover, to) ==
  IF IsPromotion(mover, to) THEN {}
  ELSE {s \in {NextSquare[to][d] : d \in Backward(mover)} :
          s \in Squares \ Occupied(p) /\ ~ IsPromotion(mover, s)}

KingSources(p, to) ==
  UNION {FreeRay(to, d, Occupied(p)) : d \in Directions}

MovedBack(p, kind, from, to) ==
  [p EXCEPT ![kind] = (@ \ {to}) \cup {from}]

(* Mutant: the capture is looked for in the position after the move. *)
QuietPredecessors_StaleCheck(p, side) ==
  LET mover == OtherSide(side)
      candidates ==
        UNION ({{MovedBack(p, OwnMen(mover), from, to) :
                   from \in ManSources(p, mover, to)} : to \in Men(p, mover)}
               \cup
               {{MovedBack(p, OwnKings(mover), from, to) :
                   from \in KingSources(p, to)} : to \in Kings(p, mover)})
  IN {q \in candidates : ~ HasCapture(p, mover)}

QuietPredecessors(p, side) ==
  LET mover == OtherSide(side)
      candidates ==
        UNION ({{MovedBack(p, OwnMen(mover), from, to) :
                   from \in ManSources(p, mover, to)} : to \in Men(p, mover)}
               \cup
               {{MovedBack(p, OwnKings(mover), from, to) :
                   from \in KingSources(p, to)} : to \in Kings(p, mover)})
  IN {q \in candidates : ~ HasCapture(q, mover)}
===============================================================================
