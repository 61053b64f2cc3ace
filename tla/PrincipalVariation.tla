--------------------------- MODULE PrincipalVariation ---------------------------
(***************************************************************************)
(* gwdegtb_dtm_pv (dtm_pv.c): the line that the stored distances promise.  *)
(* The tool walks from position to position, reads the value of each, asks *)
(* whether it agrees with the values of its successors and with the value  *)
(* it came from, and plays a best move.  A node is a position with its     *)
(* side to move; the tables hold any values, and some may be missing.  The *)
(* line goes to a temporary file, which is printed only if the walk        *)
(* succeeds.                                                               *)
(***************************************************************************)
EXTENDS Integers, FiniteSets, FiniteSetsExt, Sequences

CONSTANTS Nodes,       \* positions with a side to move
          Games,       \* [succ : successors of a node, pieces : on the board,
                       \*  or 0 when the side to move has none]
          StoredDtm,   \* the values a table may hold
          MaxPly       \* EGTB_MAX_LOSS_DTM

VARIABLES game, dtm,   \* the moves, and the value stored for each node
          missing,     \* nodes whose database cannot be read
          node, expected, line, conversions, result

pvVars == <<game, dtm, missing, node, expected, line, conversions, result>>

DrawDtm == -1
AnyValue == 40000      \* 32768: no value is expected yet

Lost(v) == v <= 0 /\ v # DrawDtm

(***************************************************************************)
(* child: the value of a position with these successor values.  A lost     *)
(* opponent is the quickest win; if all of them win the longest defence    *)
(* counts; otherwise it is a draw.                                         *)
(***************************************************************************)
Calculated(values) ==
  IF values = {} THEN 0
  ELSE IF \E v \in values : Lost(v)
  THEN Min({1 - v : v \in {w \in values : Lost(w)}})
  ELSE IF \A v \in values : v > 0 THEN -(Max(values) + 1) ELSE DrawDtm

(* The moves that child kept: those whose value decided. *)
BestMoves(n) ==
  {m \in game.succ[n] :
     LET v == dtm[m]
         values == {dtm[k] : k \in game.succ[n]}
     IN IF \E w \in values : Lost(w)
        THEN Lost(v) /\ 1 - v = Calculated(values)
        ELSE v > 0 /\ v = Max(values)}

(* Mutant: a loss is expected to get longer. *)
ExpectedAfter_NoSign(v) == IF v > 0 THEN 1 - v ELSE 1 - v

(* The value that the successor on the line must have. *)
ExpectedAfter(v) == IF v > 0 THEN 1 - v ELSE -v - 1

Value(n) == dtm[n]
Readable(n) == n \notin missing
SuccessorValues(n) == {dtm[m] : m \in game.succ[n]}

(* A conversion is noted when the number of pieces changes. *)
Noted(n) ==
  IF game.pieces[n] # 0
       /\ (conversions = <<>> \/ conversions[Len(conversions)] # game.pieces[n])
  THEN Append(conversions, game.pieces[n]) ELSE conversions

(* probe needs no database for a side without pieces, which has lost. *)
Beaten(n) == game.pieces[n] = 0

PvInit ==
  /\ game \in Games
  /\ dtm \in [Nodes -> StoredDtm]
  /\ \A n \in Nodes : Beaten(n) => dtm[n] = 0
  /\ missing \in {{}} \cup {{n} : n \in {k \in Nodes : ~ Beaten(k)}}
  /\ node \in Nodes
  /\ expected = AnyValue
  /\ line = <<>>
  /\ conversions = <<>>
  /\ result = "walking"

Fail ==
  /\ result' = "failed"
  /\ UNCHANGED <<game, dtm, missing, node, expected, line, conversions>>

(* A database cannot be read, for the position or for one after it. *)
Unreadable ==
  /\ result = "walking"
  /\ \/ ~ Readable(node)
     \/ /\ expected \in {AnyValue, Value(node)}
        /\ Value(node) # DrawDtm
        /\ \E m \in game.succ[node] : ~ Readable(m)
  /\ Fail

(* The value is not the one the line promised. *)
Mismatch ==
  /\ result = "walking"
  /\ Readable(node)
  /\ expected \notin {AnyValue, Value(node)}
  /\ Fail

(* The value is not the one its successors give. *)
Inconsistent ==
  /\ result = "walking"
  /\ \A m \in {node} \cup game.succ[node] : Readable(m)
  /\ expected \in {AnyValue, Value(node)}
  /\ Value(node) # DrawDtm
  /\ Calculated(SuccessorValues(node)) # Value(node)
  /\ Fail

(* The line ends in a draw or where no move is left. *)
End ==
  /\ result = "walking"
  /\ Readable(node)
  /\ expected \in {AnyValue, Value(node)}
  /\ \/ Value(node) = DrawDtm
     \/ game.succ[node] = {} /\ Value(node) = 0
  /\ conversions' = Noted(node)
  /\ result' = "ok"
  /\ UNCHANGED <<game, dtm, missing, node, expected, line>>

PlayBest(m) ==
  /\ result = "walking"
  /\ \A k \in {node} \cup game.succ[node] : Readable(k)
  /\ expected \in {AnyValue, Value(node)}
  /\ Value(node) # DrawDtm
  /\ Calculated(SuccessorValues(node)) = Value(node)
  /\ m \in BestMoves(node)
  /\ conversions' = Noted(node)
  /\ line' = Append(line, node)
  /\ node' = m
  /\ expected' = ExpectedAfter(Value(node))
  /\ result' = IF Len(line') > MaxPly THEN "failed" ELSE "walking"
  /\ UNCHANGED <<game, dtm, missing>>

PvNext == \/ Unreadable \/ Mismatch \/ Inconsistent \/ End
          \/ \E m \in Nodes : PlayBest(m)

PvSpec == PvInit /\ [][PvNext]_pvVars

-------------------------------------------------------------------------------
First == IF line = <<>> THEN node ELSE line[1]

ConsistentValues == \A n \in Nodes : dtm[n] = Calculated(SuccessorValues(n))

(***************************************************************************)
(* A printed line is the one that was promised, whatever the tables hold:  *)
(* a draw is printed at once, and a win or a loss ends at a position       *)
(* without a move after exactly as many plies as the first value says,     *)
(* with the loser to move.  Where all values are consistent and readable   *)
(* the tool prints a line.  It never notes more conversions than there are *)
(* places for them.                                                        *)
(***************************************************************************)
LineIsPromised ==
  /\ result = "ok" =>
       IF Value(First) = DrawDtm THEN line = <<>>
       ELSE /\ game.succ[node] = {}
            /\ Len(line) = IF Value(First) > 0 THEN Value(First) ELSE -Value(First)
  /\ result = "failed" => missing # {} \/ ~ ConsistentValues
  /\ Len(conversions) <= Max({game.pieces[n] : n \in Nodes})
===============================================================================
