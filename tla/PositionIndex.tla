----------------------------- MODULE PositionIndex -----------------------------
(***************************************************************************)
(* endgame_index.c: the number of a position among those of one material,  *)
(* or of one slice of it, in the order of the piece on square 0, then on   *)
(* square 1, and so on (empty, white man, black man, white king, black     *)
(* king).  An indexer is a record of the material, of the slice rows and   *)
(* whether it is sliced, and of the table of ways.  The counts stay far    *)
(* below 2^64 here; the code refuses a material whose count does not fit.  *)
(***************************************************************************)
EXTENDS Material, Sequences, TLC

Piece == <<"wm", "bm", "wk", "bk">>

Allowed(e, kind, s) ==
  CASE kind = "wm" -> Row(s) # 0 /\ (e.sliced => Row(s) >= e.slice.white)
    [] kind = "bm" -> Row(s) # Rows - 1 /\ (e.sliced => Row(s) <= e.slice.black)
    [] OTHER -> TRUE

(* Mutant: a black man on the frontier is not noticed. *)
Cleared_WhiteOnly(e, kind, s) ==
  IF e.sliced /\ kind = "wm" /\ Row(s) = e.slice.white THEN {"white"} ELSE {}

(* cleared_requirement: the piece stands on the frontier of its slice. *)
Cleared(e, kind, s) ==
  IF ~ e.sliced THEN {}
  ELSE IF kind = "wm" /\ Row(s) = e.slice.white THEN {"white"}
  ELSE IF kind = "bm" /\ Row(s) = e.slice.black THEN {"black"} ELSE {}

Required(e) ==
  IF ~ e.sliced THEN {}
  ELSE (IF e.material["wm"] # 0 THEN {"white"} ELSE {})
       \cup (IF e.material["bm"] # 0 THEN {"black"} ELSE {})

Requirements(e) == IF e.sliced THEN SUBSET {"white", "black"} ELSE {{}}

Remaining(e) == {r \in [Kinds -> 0 .. Max({e.material[k] : k \in Kinds})] :
                   \A k \in Kinds : r[k] <= e.material[k]}

Without(left, kind) == [left EXCEPT ![kind] = @ - 1]

(* The ways to fill the squares after s once s has been given a piece. *)
WaysWith(layer, e, s, left, needed, kind) ==
  IF left[kind] = 0 \/ ~ Allowed(e, kind, s) THEN 0
  ELSE layer[<<Without(left, kind), needed \ Cleared(e, kind, s)>>]

SumOver(kinds, f(_)) == FoldSet(LAMBDA k, sum : sum + f(k), 0, kinds)

(***************************************************************************)
(* ways: how the squares from s on can be filled with the pieces that are  *)
(* left so that the men still required on the frontier stand there.  One   *)
(* layer per square, from the end of the board.                            *)
(***************************************************************************)
EndLayer(e) ==
  [x \in Remaining(e) \X Requirements(e) |->
     IF (\A k \in Kinds : x[1][k] = 0) /\ x[2] = {} THEN 1 ELSE 0]

(* (f @@ f is f, and makes TLC tabulate the layer once.) *)
LayerBefore(layer, e, s) ==
  LET before == [x \in Remaining(e) \X Requirements(e) |->
                   layer[x] + SumOver(Kinds, LAMBDA k :
                                        WaysWith(layer, e, s, x[1], x[2], k))]
  IN before @@ before

RECURSIVE WaysFrom(_, _)
WaysFrom(e, s) ==
  IF s = Max(Squares) + 1 THEN <<EndLayer(e)>>
  ELSE LET rest == WaysFrom(e, s + 1)
       IN <<LayerBefore(rest[1], e, s)>> \o rest

(* initialize_indexer, with the rows of the slice or without. *)
NewIndexer(material, slice, sliced) ==
  LET e == [material |-> material, slice |-> slice, sliced |-> sliced]
  IN [ways |-> WaysFrom(e, 0)] @@ e

Layer(e, s) == e.ways[s + 1]

PositionCount(e) == Layer(e, 0)[<<e.material, Required(e)>>]

(***************************************************************************)
(* rank_add: the fillings that come before one with this piece on s.       *)
(***************************************************************************)
RankAdd(e, s, left, needed, i) ==
  LET layer == Layer(e, s + 1)
  IN layer[<<left, needed>>]
       + SumOver({Piece[j] : j \in 1 .. i - 1},
                 LAMBDA k : WaysWith(layer, e, s, left, needed, k))

RECURSIVE RankFrom(_, _, _, _, _)
RankFrom(e, p, occupied, left, needed) ==
  IF occupied = {} THEN 0
  ELSE LET s == Min(occupied)
           i == CHOOSE j \in 1 .. 4 : s \in p[Piece[j]]
       IN RankAdd(e, s, left, needed, i)
            + RankFrom(e, p, occupied \ {s}, Without(left, Piece[i]),
                       needed \ Cleared(e, Piece[i], s))

PositionToIndex(e, p) ==
  RankFrom(e, p, Occupied(p), e.material, Required(e))

(***************************************************************************)
(* The inverse walks the board and skips whole blocks of fillings.         *)
(***************************************************************************)
NoPieces == [k \in Kinds |-> {}]

RECURSIVE PlaceFrom(_, _, _, _, _, _)
PlaceFrom(e, index, s, left, needed, p) ==
  IF \A k \in Kinds : left[k] = 0 THEN p
  ELSE LET layer == Layer(e, s + 1)
           Before(i) == IF i = 0 THEN 0
                        ELSE RankAdd(e, s, left, needed, i)
           Block(i) == IF i = 0 THEN layer[<<left, needed>>]
                       ELSE WaysWith(layer, e, s, left, needed, Piece[i])
           i == CHOOSE j \in 0 .. 4 :
                  index >= Before(j) /\ index < Before(j) + Block(j)
       IN IF i = 0
          THEN PlaceFrom(e, index - Before(i), s + 1, left, needed, p)
          ELSE PlaceFrom(e, index - Before(i), s + 1,
                         Without(left, Piece[i]),
                         needed \ Cleared(e, Piece[i], s),
                         [p EXCEPT ![Piece[i]] = @ \cup {s}])

IndexToPosition(e, index) ==
  PlaceFrom(e, index, 0, e.material, Required(e), NoPieces)

(* eg_indexer_contains_position *)
ContainsPosition(e, p) ==
  /\ PositionIsValid(p)
  /\ MaterialOf(p) = e.material
  /\ e.sliced => PositionSlice(p) = e.slice
===============================================================================
