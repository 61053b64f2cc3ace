------------------------ MODULE MCConsistencyRepair ------------------------
(***************************************************************************)
(* Small instances of ConsistencyRepair: every choice of quiet moves and   *)
(* external values from a menu, and a menu of damaged tables.              *)
(***************************************************************************)
EXTENDS ConsistencyRepair

GamesOver(moves, values) ==
  {g \in [succ : [Sides -> [Index -> moves]], ext : [Sides -> [Index -> values]]] :
     \A side \in Sides, i \in Index : i \notin g.succ[side][i]}

(* Cycles and chains of three positions. *)
GamesThree == GamesOver({{}, {2}, {1, 3}}, {{}})

(* Two positions, with every kind of value around them. *)
GamesTwo == GamesOver(SUBSET Index, {{}, {Draw}, {-2}})

TwoOwners == [i \in Index |-> IF i = 1 THEN "w1" ELSE "w2"]

(* Tables that are wrong almost everywhere. *)
TablesOver(values) == [Sides -> [Index -> values]]
DamagedTables == TablesOver({Draw, 3})
=============================================================================
