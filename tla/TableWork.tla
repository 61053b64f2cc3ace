----------------------------- MODULE TableWork -----------------------------
(* What a repair and a verification of a table have in common              *)
(* (generator.c): who works on which positions, and whether files and      *)
(* threads may fail.                                                       *)
EXTENDS GameGraph

CONSTANTS Worker,
          Owner,    \* position -> the worker whose range it is in
          Faults    \* whether files and threads may fail

ASSUME WorkAssumption ==
  /\ Owner \in [Index -> Worker]
  /\ Faults \in BOOLEAN
=============================================================================
