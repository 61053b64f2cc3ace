----------------------------- MODULE MCPageStore ----------------------------
(* Small instances of the page store: a file of an old version, whose two     *)
(* pages hold both sides and which is read and changed through the handle and *)
(* through views; and one of the current version with two pages of two        *)
(* planes, compiled by two page writers, then changed through the handle and  *)
(* through a view.                                                            *)
EXTENDS Naturals

CONSTANTS Contents, Reserve, Disk, MaxChanges

VARIABLES file, disk, exact, mode, refs, dir, cap, cache, view, task, mutex,
          compile, compileEnd, batch, nextPlane, possible, changes, gaveUp,
          layout     \* "paired" or "planar"

Size == [c \in Contents |-> IF c = "x" THEN 1 ELSE 4]
StartTables(pages) == {[p \in pages |-> "draw"], [p \in pages |-> IF p < 2 THEN "x" ELSE "draw"]}
Views == {"v1", "v2", "all"}
Writers == {"v1", "v2"}
First == [v \in Views |-> IF v = "v2" THEN 1 ELSE 0]
End == [v \in Views |-> IF v = "v1" THEN 1 ELSE 2]

PairedKinds == [v \in Views |-> IF v = "all" THEN {"read", "write"} ELSE {"write"}]
PlanarKinds == [v \in Writers |-> IF v = "v1" THEN {"write"} ELSE {}]
PairedTables == StartTables(0 .. 1)
PlanarTables == StartTables(0 .. 3)

Paired == INSTANCE PageStore WITH
  Sides <- 1, PerSide <- 2, Tables <- PairedTables, Caps <- {1, 2}, ViewCap <- 1,
  Kinds <- PairedKinds,
  Chunk <- 1, Batch <- 1

Planar == INSTANCE PageStore WITH
  Sides <- 2, PerSide <- 2, Tables <- PlanarTables, Caps <- {1}, ViewCap <- 1,
  Views <- Writers, Kinds <- PlanarKinds,
  Contents <- {"x"}, Disk <- 5, Chunk <- 2, Batch <- 1

ASSUME GeometryAssumption == Paired!StoreConstants /\ Planar!StoreConstants

MCInit == \/ layout = "paired" /\ Paired!Init
          \/ layout = "planar" /\ Planar!Init

MCNext == /\ UNCHANGED layout
          /\ \/ layout = "paired" /\ Paired!Next
             \/ layout = "planar" /\ Planar!Next

MCSpec == MCInit /\ [][MCNext]_<<Paired!vars, layout>>

(* Every page is one page, in both layouts: its cells are its own, and every  *)
(* cache of it that may be read holds its present content.                    *)
PagesAreWhole == IF layout = "paired" THEN Paired!PagesAreWhole ELSE Planar!PagesAreWhole

(* The store implements the durable table: reads of it never go back, what a  *)
(* completed flush or close (egtb.c:1318, 1700) covers survives any crash,    *)
(* and the rest comes back as a value it had or is refused.                   *)
Held == IF layout = "paired" THEN [p \in Paired!Pages |-> Paired!Latest(p)]
        ELSE [p \in Planar!Pages |-> Planar!Latest(p)]
Table == INSTANCE DurableTable WITH
  table <- Held, asked <- changes, Values <- Paired!Values, Err <- Paired!Err
Refines == Table!Spec
=============================================================================
