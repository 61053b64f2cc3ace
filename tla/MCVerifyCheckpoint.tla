------------------------- MODULE MCVerifyCheckpoint -------------------------
(* Two tables, the second with moves into the first; at most one position  *)
(* is inconsistent, among some of the contents that may meet.              *)
EXTENDS VerifyCheckpoint

TwoTables == <<"low", "high">>
HighNeedsLow == [m \in Material |-> IF m = "high" THEN {"low"} ELSE {}]
OneFlaw ==
  {{}} \cup {{f} : f \in {g \in Flaws : g.table = "low" => g.among["high"] = 0}}
=============================================================================
