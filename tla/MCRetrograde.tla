---------------------------- MODULE MCRetrograde ----------------------------
(***************************************************************************)
(* Small instances of Retrograde: games on three positions, of every       *)
(* choice of quiet moves from a menu with every choice of external values  *)
(* from another.  A menu gives the choices of each position.               *)
(***************************************************************************)
EXTENDS RetrogradeSolution

Filled(menu) ==
  {f \in [Index -> UNION {menu[i] : i \in Index}] : \A i \in Index : f[i] \in menu[i]}

GamesOver(moves, values) ==
  [succ : [Sides -> Filled(moves)], ext : [Sides -> Filled(values)]]

(* Draws, losses that wait for a won layer, immediate wins, and wins that  *)
(* a shorter one overtakes, on cycles and chains.                          *)
GamesMixed ==
  GamesOver(<<{{}, {2}}, {{}, {1, 3}}, {{}, {2}}>>,
            <<{{}, {Draw, 3}, {-2}}, {{}, {Draw, 3}}, {{}, {Draw, 3}}>>)

(* Distances at the end of the range, on two positions; the third has a    *)
(* drawing capture.                                                        *)
Farthest == {{}, {0}, {MaxWin}, {1 - MaxWin}, {-MaxLoss}}
GamesLong ==
  GamesOver(<<{{}, {2}}, {{}, {1}}, {{}}>>, <<Farthest, Farthest, {{Draw}}>>)

SomeGames == GamesMixed \cup GamesLong

TwoOwners == [i \in Index |-> IF i = 1 THEN "w1" ELSE "w2"]

(* Bound: storage, threads and memory fail in the long games only. *)
MayFail == game.ext["WTM"][3] = {Draw} /\ game.ext["BTM"][3] = {Draw}

MCNext ==
  \/ \E i \in Index : WorkerStep(i) \/ (MayFail /\ WorkerFault(i))
  \/ Coordinate
  \/ MayFail /\ CoordinatorFault
  \/ Terminated

MCSpec ==
  /\ Init /\ [][MCNext]_vars
  /\ WF_vars(\E i \in Index : WorkerStep(i)) /\ WF_vars(Coordinate)
=============================================================================
