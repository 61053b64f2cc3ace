------------------------------- MODULE MCWdl -------------------------------
(* Small instances of the win/draw/loss tables: either a converter with    *)
(* two workers and a reader that finds no table, or the registry of a      *)
(* process with one probe.                                               *)
EXTENDS WdlStore, WdlRegistry

TwoAndOne == [p \in Process |-> IF p \in Converters THEN 2 ELSE 1]
TwoVersions == << [page \in Page |-> IF page = 1 THEN "draws" ELSE IF page = 0 THEN "a" ELSE "b"],
                  [page \in Page |-> IF page = 0 THEN "b" ELSE "a"] >>
Sizes == [v \in {"a", "b"} |-> IF v = "a" THEN 1 ELSE 2]

SomeHashes == [m \in Material |-> IF m = "m1" THEN 1 ELSE 2]
SomePages == [m \in Material |-> IF m = "m1" THEN 2 ELSE 1]
SomeImages == [i \in {"i1", "i2", "j"} |->
  [material |-> IF i = "j" THEN "m2" ELSE "m1", damaged |-> IF i = "i2" THEN {1} ELSE {}]]

VARIABLE instance

MCInit ==
  \/ instance = "store" /\ WdlInit /\ RegistryFrom([tier |-> "elsewhere"])
  \/ instance \in {"probes", "tables"} /\ RegistryInit /\ WdlFrom([at |-> "elsewhere"])

MCNext ==
  /\ \/ instance = "store" /\ WdlNext /\ UNCHANGED registryVars
     \/ instance = "probes" /\ ProbesNext /\ UNCHANGED wdlVars
     \/ instance = "tables" /\ TablesNext /\ UNCHANGED wdlVars
  /\ UNCHANGED instance

MCSpec == MCInit /\ [][MCNext]_<<registryVars, wdlVars, instance>>
=============================================================================
