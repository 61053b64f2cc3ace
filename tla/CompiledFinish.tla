--------------------------- MODULE CompiledFinish ---------------------------
(***************************************************************************)
(* What happens to a compiled table before it is published (generator.c,   *)
(* egtb_finish_compiled): it is closed, reopened read-only, perhaps loaded *)
(* into memory, and verified.  A value mismatch, and nothing else, starts  *)
(* one repair of the file, after which the file is compacted and verified  *)
(* again from the beginning.                                               *)
(*                                                                         *)
(* The verification is the one of module Verification, reading either the  *)
(* file or the resident copy.  The repair is not trusted here: it may      *)
(* leave any of the tables in Compiled, or fail.                           *)
(***************************************************************************)
EXTENDS TableWork

CONSTANTS Chunk,        \* MAINTENANCE_SCAN_ENTRIES
          FinishGames,  \* the games considered
          Compiled      \* the tables the compilation may have left behind

ASSUME FinishAssumption ==
  /\ Index \subseteq Nat /\ Chunk \in Nat \ {0}
  /\ FinishGames \subseteq GameGraphs /\ Compiled \subseteq Tables

VARIABLES
  fileGame,  \* the game the file is about
  file,      \* the unpublished database file
  resident,  \* the table in memory, or NotLoaded
  attempt,
  phase,     \* what egtb_finish_compiled is doing, or what it returned
  skip, left, scanned, result, examples, verdict  \* the verification; scanned is its todo

verification == <<skip, left, scanned, result, examples, verdict>>
finishVars == <<fileGame, file, resident, attempt, phase, verification>>

NotLoaded == <<>>

(* The workers read the resident copy when there is one. *)
Source == IF resident = NotLoaded THEN file ELSE resident

V == INSTANCE Verification WITH game <- fileGame, todo <- scanned, table <- Source

Phases == {"open", "verify", "repair", "true", "false", "elsewhere"}

FinishTypeOK ==
  /\ V!TypeOK
  /\ file \in Tables
  /\ resident \in Tables \cup {NotLoaded}
  /\ attempt \in 0 .. 1
  /\ phase \in Phases

FinishInit ==
  /\ fileGame \in FinishGames
  /\ file \in Compiled
  /\ resident = NotLoaded
  /\ attempt = 0
  /\ phase = "open"
  /\ skip = {}
  /\ V!Started(left, scanned, result, examples, verdict)

-----------------------------------------------------------------------------
(* egtb_open_readonly, the resident copy when it fits, and the workers. *)
Open(fits) ==
  /\ phase = "open"
  /\ phase' = "verify"
  /\ resident' = IF fits THEN file ELSE resident
  /\ V!Started(left', scanned', result', examples', verdict')
  /\ UNCHANGED <<fileGame, file, attempt, skip>>

Verify ==
  /\ phase = "verify"
  /\ UNCHANGED <<file, resident, attempt, phase>>
  /\ V!Next

Accept ==
  /\ phase = "verify"
  /\ verdict = "ok"
  /\ phase' = "true"
  /\ UNCHANGED <<fileGame, file, resident, attempt, verification>>

Repairable_Again == verdict = "mismatch"   \* Mutant: attempts are not counted

(* Only a value mismatch, and only once. *)
Repairable == verdict = "mismatch" /\ attempt = 0

StartRepair ==
  /\ phase = "verify"
  /\ Repairable
  /\ phase' = "repair"
  /\ resident' = NotLoaded
  /\ UNCHANGED <<fileGame, file, attempt, verification>>

Refuse ==
  /\ phase = "verify"
  /\ verdict # "none" /\ verdict # "ok" /\ ~Repairable
  /\ phase' = "false"
  /\ UNCHANGED <<fileGame, file, resident, attempt, verification>>

(* Mutant: what was repaired is not verified again. *)
Repair_Trusted(succeeds) ==
  /\ phase = "repair"
  /\ file' \in Compiled
  /\ phase' = IF succeeds THEN "true" ELSE "false"
  /\ UNCHANGED <<fileGame, resident, attempt, verification>>

(* egtb_make_consistent_threaded and egtb_compact_copy rewrite the file,   *)
(* also when they fail.                                                    *)
Repair(succeeds) ==
  /\ phase = "repair"
  /\ file' \in Compiled
  /\ IF succeeds
       THEN attempt' = 1 /\ phase' = "open"
       ELSE phase' = "false" /\ UNCHANGED attempt
  /\ UNCHANGED <<fileGame, resident, verification>>

(* The file cannot be closed, opened or loaded. *)
StorageFault ==
  /\ Faults
  /\ phase \in {"open", "repair"}
  /\ phase' = "false"
  /\ UNCHANGED <<fileGame, file, resident, attempt, verification>>

FinishEnded == phase \in {"true", "false"} /\ UNCHANGED finishVars

FinishStep ==
  \/ \E fits \in BOOLEAN : Open(fits)
  \/ Verify \/ Accept \/ StartRepair \/ Refuse
  \/ Repair(TRUE)

FinishNext ==
  \/ FinishStep
  \/ Repair(FALSE)
  \/ StorageFault
  \/ FinishEnded

FinishSpec == FinishInit /\ [][FinishNext]_finishVars

(* A verification that someone else calls, with positions put aside. *)
InitElsewhere ==
  /\ phase = "elsewhere"
  /\ fileGame \in FinishGames
  /\ file \in Tables
  /\ resident = NotLoaded
  /\ attempt = 0
  /\ skip \in SUBSET Index
  /\ V!Started(left, scanned, result, examples, verdict)

VerifyElsewhere ==
  /\ phase = "elsewhere"
  /\ UNCHANGED <<file, resident, attempt, phase>>
  /\ V!Next

SpecElsewhere == InitElsewhere /\ [][VerifyElsewhere]_finishVars

(* The thread that finalises the table runs, and so do its workers. *)
FinishFairSpec == FinishSpec /\ WF_finishVars(FinishStep)

-----------------------------------------------------------------------------
(***************************************************************************)
(* Properties.                                                             *)
(***************************************************************************)

(* What may be published is consistent, whatever the compilation or the    *)
(* repair left behind and whichever copy the workers read.                 *)
PublishedIsConsistent == phase = "true" => Consistent(fileGame, file)

(* What a verification says of a table is true, also where it looked at a  *)
(* part only and the rest was consistent when it was put aside; and no     *)
(* failure is taken for a mismatch, which would have the file rewritten.   *)
VerdictIsRight ==
  /\ V!AcceptedIsConsistent
  /\ phase \in {"verify", "elsewhere"} => V!MismatchIsReal

(* The examples a verification reports with what it accepts do not depend  *)
(* on the number of workers and rounds.                                    *)
ExamplesExact == V!ExamplesExact

(* The finalisation ends. *)
Finishes == phase = "open" ~> phase \in {"true", "false"}

-----------------------------------------------------------------------------
(***************************************************************************)
(* Why: what the workers read is the file, and a verdict is about it.      *)
(***************************************************************************)
FinishInv ==
  /\ phase \in {"verify", "elsewhere"} => V!VerdictInv
  /\ phase \in {"open", "repair"} => resident = NotLoaded
  /\ phase \in {"verify", "true"} => resident \in {NotLoaded, file}
  /\ phase \in {"open", "verify", "repair"} => skip = {}
  /\ phase \in {"open", "repair", "false"} => verdict # "ok"
  /\ phase = "true" => Consistent(fileGame, file)

(* The examples that come with the verdict are of the file, too. *)
KeptInv ==
  /\ file \in Tables
  /\ phase = "elsewhere" => resident = NotLoaded
  /\ phase \in {"verify", "true", "elsewhere"} => V!VerdictInv /\ V!ExamplesInv

=============================================================================
