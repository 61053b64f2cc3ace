------------------------------- MODULE Material -------------------------------
(***************************************************************************)
(* material.c and the slices of endgame_index.c: what pieces a position    *)
(* has, which of two mirrored databases holds it, and the order in which   *)
(* the databases are generated.                                            *)
(***************************************************************************)
EXTENDS Draughts

MaterialOf(p) == [k \in Kinds |-> Cardinality(p[k])]

White(m) == m["wk"] + m["wm"]
Black(m) == m["bk"] + m["bm"]

IsTerminal(m) == White(m) = 0 \/ Black(m) = 0

MirrorKind(k) == CASE k = "wm" -> "bm" [] k = "bm" -> "wm"
                   [] k = "wk" -> "bk" [] k = "bk" -> "wk"

(* egtb_material_resolve, for materials that are not terminal. *)
KeepsWhite(m) ==
  \/ White(m) > Black(m)
  \/ White(m) = Black(m) /\ m["wk"] >= m["bk"]

Rotate180(squares) == {Max(Squares) - s : s \in squares}

MirrorPosition(p) == [k \in Kinds |-> Rotate180(p[MirrorKind(k)])]

(* Mutant: kings from low to high. *)
GeneratedBefore_KingsAscending(a, b) ==
  \/ White(a) + Black(a) < White(b) + Black(b)
  \/ /\ White(a) + Black(a) = White(b) + Black(b)
     /\ \/ White(a) > White(b)
        \/ /\ White(a) = White(b)
           /\ \/ a["wk"] < b["wk"]
              \/ a["wk"] = b["wk"] /\ a["bk"] < b["bk"]

(* egtb_material_generation_compare(a, b) < 0 *)
GeneratedBefore(a, b) ==
  \/ White(a) + Black(a) < White(b) + Black(b)
  \/ /\ White(a) + Black(a) = White(b) + Black(b)
     /\ \/ White(a) > White(b)
        \/ /\ White(a) = White(b)
           /\ \/ a["wk"] > b["wk"]
              \/ a["wk"] = b["wk"] /\ a["bk"] > b["bk"]

(* eg_position_slice: the rows of the most advanced men. *)
NoRow == -1
PositionSlice(p) ==
  [white |-> IF p["wm"] = {} THEN NoRow ELSE Row(Min(p["wm"])),
   black |-> IF p["bm"] = {} THEN NoRow ELSE Row(Max(p["bm"]))]
===============================================================================
