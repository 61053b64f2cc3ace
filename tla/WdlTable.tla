------------------------------ MODULE WdlTable ------------------------------
(***************************************************************************)
(* What a win/draw/loss table promises its readers (wdl.h, gwdegtb.h): it  *)
(* is there or not, and if it is, it is the whole projection of one        *)
(* distance table; a reader keeps the one it opened until it lets go.      *)
(***************************************************************************)
CONSTANTS Process, Page, Projections, None

VARIABLES table,   \* the table under the name, or None
          opened,  \* process -> the table it has opened, or None
          answer   \* process -> what its last reading gave: pages and their values

wdlTableVars == <<table, opened, answer>>

NoAnswer == [p \in Process |-> [page \in {} |-> None]]

Init == /\ table = None
        /\ opened = [p \in Process |-> None]
        /\ answer = NoAnswer

Install == table' \in Projections /\ answer' = NoAnswer /\ UNCHANGED opened

Obtain(p) ==
  /\ table # None
  /\ opened' = [opened EXCEPT ![p] = table]
  /\ answer' = NoAnswer /\ UNCHANGED table

LetGo(p) ==
  /\ opened' = [opened EXCEPT ![p] = None]
  /\ answer' = NoAnswer /\ UNCHANGED table

Read(p) ==
  /\ opened[p] # None
  /\ \E pages \in (SUBSET Page) \ {{}} :
       answer' = [NoAnswer EXCEPT ![p] = [page \in pages |-> opened[p][page]]]
  /\ UNCHANGED <<table, opened>>

Nothing == answer' = NoAnswer /\ UNCHANGED <<table, opened>>

Next == Install \/ Nothing \/ \E p \in Process : Obtain(p) \/ LetGo(p) \/ Read(p)

Spec == Init /\ [][Next]_wdlTableVars
=============================================================================
