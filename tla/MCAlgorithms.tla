----------------------------- MODULE MCAlgorithms -----------------------------
(* Small instances of the sequential algorithms: positions and moves on a  *)
(* board of six by six, the representation of a table of six values, and   *)
(* the lines through five positions.                                       *)
EXTENDS PositionWalk, PageCodec, PrincipalVariation

(* A white king and a white man, or two white men, against a black man.    *)
TwoToOne ==
  {[k \in Kinds |-> CASE k = "wk" -> kings [] k = "wm" -> 2 - kings
                      [] k = "bk" -> 0 [] k = "bm" -> 1] : kings \in {0, 1}}

(* On either side of a byte and at the ends of the range. *)
SomeValues == {0, 253, 255, -254, -256, -32766, 32765}
SomeStreams == {<<>>} \cup [1 .. 2 -> {0, 127, 128, 255}]
               \cup {<<127>> \o s : s \in [1 .. 3 -> {0, 127, 128, 255}]}

(* A tree, a game in which the players may go round, and one whose cycle   *)
(* a win leaves.  The longest line is as long as MaxPly allows.            *)
SomeGames ==
  {[succ |-> <<{}, {1}, {2}, {3, 2}, {4}>>, pieces |-> <<0, 2, 3, 4, 4>>],
   [succ |-> <<{}, {1, 3}, {2}, {3, 2, 5}, {}>>, pieces |-> <<2, 3, 3, 3, 0>>],
   [succ |-> <<{}, {1}, {2, 4}, {3}, {}>>, pieces |-> <<2, 2, 3, 3, 0>>]}
SomeDtm == {-1, 0, 1, -2, 3, -4}

NoWalk == position = NoPieces /\ side = "WTM"

NoTable ==
  /\ version = "wide"
  /\ pages = <<>> /\ sums = <<>> /\ blocks = <<>> /\ stored = <<>>
  /\ reader = "elsewhere"

NoLine ==
  /\ game \in {g \in Games : g = CHOOSE h \in Games : TRUE}
  /\ dtm = [n \in Nodes |-> 0]
  /\ missing = {}
  /\ node = CHOOSE n \in Nodes : TRUE
  /\ expected = AnyValue
  /\ line = <<>> /\ conversions = <<>>
  /\ result = "elsewhere"

MCInit ==
  \/ Init /\ NoTable /\ NoLine
  \/ NoWalk /\ CodecInit /\ NoLine
  \/ NoWalk /\ NoTable /\ PvInit

MCNext ==
  \/ position # NoPieces /\ Next /\ UNCHANGED <<codecVars, pvVars>>
  \/ CodecNext /\ UNCHANGED <<walkVars, pvVars>>
  \/ PvNext /\ UNCHANGED <<walkVars, codecVars>>

MCSpec == MCInit /\ [][MCNext]_<<walkVars, codecVars, pvVars>>
===============================================================================
