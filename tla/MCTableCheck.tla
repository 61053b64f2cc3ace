---------------------------- MODULE MCTableCheck ----------------------------
(***************************************************************************)
(* Small instances of what happens to a compiled table: its repair, or its *)
(* finalisation, of which a repair is one step, or a verification that     *)
(* someone else calls, with a position put aside or none.                  *)
(***************************************************************************)
EXTENDS MCConsistencyRepair, CompiledFinish

(* Three positions in a row, the first without a move for one side. *)
GamesInARow ==
  {g \in GamesOver({{}, {1, 2}, {2}}, {{}, {Draw}}) : g.ext["WTM"] = g.ext["BTM"]}

(* Two positions that matter, and one where nobody can move. *)
TwoOfThree ==
  {g \in GamesInARow : \A side \in Sides : g.succ[side][3] = {} /\ g.ext[side][3] = {}}

FinishTables == TablesOver({Draw, 0, 1})
CompiledTables == {t \in FinishTables : \A side \in Sides : t[side][3] = 0}

NoRepair ==
  /\ game = CHOOSE g \in Games : TRUE
  /\ table = CHOOSE t \in StartTables : TRUE
  /\ snapshot = table
  /\ verified = {} /\ fullPass = TRUE /\ pending = {}
  /\ stage = "failed"
  /\ todo = {}
  /\ corrections = [w \in Worker |-> {}]
  /\ histogram = [w \in Worker |-> [v \in Dtm |-> 0]]
  /\ failed = {}
  /\ passes = 0

NoFinish ==
  /\ file = <<>> /\ resident = NotLoaded /\ attempt = 0
  /\ phase = "not yet"
  /\ fileGame = <<>> /\ skip = {}
  /\ left = {} /\ scanned = {} /\ result = <<>> /\ examples = <<>>
  /\ verdict = "none"

(* A verification that does not belong to a finalisation. *)
Elsewhere ==
  /\ phase = "elsewhere"
  /\ fileGame \in GamesInARow
  /\ file \in {t \in FinishTables : Cardinality({e \in Sides \X Index :
                 ~ConsistentAt(fileGame, t, e[1], e[2])}) <= 1}
  /\ resident = NotLoaded
  /\ attempt = 0
  /\ skip \in {S \in SUBSET Index : Cardinality(S) <= 1}
  /\ V!Started(left, scanned, result, examples, verdict)

ElsewhereNext ==
  VerifyElsewhere \/ (phase = "elsewhere" /\ verdict # "none" /\ UNCHANGED finishVars)

MCInit ==
  \/ Init /\ NoFinish
  \/ NoRepair /\ (FinishInit \/ Elsewhere)

MCNext ==
  \/ phase = "not yet" /\ Next /\ UNCHANGED finishVars
  \/ (FinishNext \/ ElsewhereNext) /\ UNCHANGED vars

MCSpec ==
  /\ MCInit /\ [][MCNext]_<<vars, finishVars>>
  /\ WF_vars(Inspect) /\ WF_vars(Coordinate)
  /\ WF_finishVars(FinishStep)
=============================================================================
