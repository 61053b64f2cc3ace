---------------------------- MODULE PaddedDraughts ----------------------------
(***************************************************************************)
(* The second generator of movegen.c, which the programs call.  A square   *)
(* becomes a field of a word with a guard field after every two rows, so   *)
(* that a step in a direction is one shift; what is shifted into a guard   *)
(* or off the board is masked away.  Pieces that cannot capture are        *)
(* filtered out before the search, and quiet man moves are generated for   *)
(* all men at once.                                                        *)
(***************************************************************************)
EXTENDS Draughts

FieldOf(s) == s + (Columns + 1) + (s \div (2 * Columns))
Fields == {FieldOf(s) : s \in Squares}
SquareOf(f) == CHOOSE s \in Squares : FieldOf(s) = f

ToPadded(squares) == {FieldOf(s) : s \in squares}
ToCompact(fields) == {SquareOf(f) : f \in fields}

Shift(d) == CASE d = "NW" -> -(Columns + 1)
              [] d = "NE" -> -Columns
              [] d = "SW" -> Columns
              [] d = "SE" -> Columns + 1

PaddedStep(fields, d) == {f + Shift(d) : f \in fields} \cap Fields

Against(d) == CASE d = "NW" -> "SE" [] d = "NE" -> "SW"
                [] d = "SW" -> "NE" [] d = "SE" -> "NW"

RECURSIVE StepsFrom(_, _)
StepsFrom(fields, d) ==
  LET next == PaddedStep(fields, d)
  IN IF next = {} THEN {} ELSE next \cup StepsFrom(next, d)

PaddedRay == [f \in Fields |-> [d \in Directions |-> StepsFrom({f}, d)]]

(* The fields of a ray before its first piece. *)
PaddedFreeRay(f, d, all) ==
  LET blockers == PaddedRay[f][d] \cap all
  IN IF blockers = {} THEN PaddedRay[f][d]
     ELSE LET b == Nearest(blockers, d)
          IN PaddedRay[f][d] \ ({b} \cup PaddedRay[b][d])

-------------------------------------------------------------------------------
(* Mutant: men capture forwards only. *)
CaptureStarts_Upwards(men, opponents, all) ==
  UNION {men \cap PaddedStep(opponents
                                \cap PaddedStep(Fields \ all, Against(d)),
                             Against(d)) : d \in Up}

(* Men that stand next to an opponent with an empty field behind it. *)
CaptureStarts(men, opponents, all) ==
  UNION {men \cap PaddedStep(opponents
                                \cap PaddedStep(Fields \ all, Against(d)),
                             Against(d)) : d \in Directions}

RECURSIVE PaddedManPaths(_, _, _, _)
PaddedManPaths(opponents, all, current, captured) ==
  LET Victim(d) == PaddedStep({current}, d)
      Landing(d) == PaddedStep(Victim(d), d)
      jumps == {d \in Directions :
                  /\ Victim(d) \cap (opponents \ captured) # {}
                  /\ Landing(d) # {}
                  /\ Landing(d) \cap (all \cup {current}) = {}}
  IN IF jumps = {} THEN {[to |-> current, captured |-> captured]}
     ELSE UNION {UNION {PaddedManPaths(opponents, all, landing,
                                       captured \cup Victim(d)) :
                          landing \in Landing(d)} : d \in jumps}

RECURSIVE PaddedKingPaths(_, _, _, _)
PaddedKingPaths(opponents, all, current, captured) ==
  LET Blockers(d) == PaddedRay[current][d] \cap all
      jumps == {<<Nearest(Blockers(d), d), d>> :
                  d \in {e \in Directions : Blockers(e) # {}}}
      takes == {<<j, landing>> \in jumps \X Fields :
                  /\ j[1] \in opponents \ captured
                  /\ landing \in PaddedFreeRay(j[1], j[2], all \cup {current})}
  IN IF takes = {} THEN {[to |-> current, captured |-> captured]}
     ELSE UNION {PaddedKingPaths(opponents, all, t[2], captured \cup {t[1][1]}) :
                   t \in takes}

CompactMove(m) == [from |-> SquareOf(m.from), to |-> SquareOf(m.to),
                   captured |-> ToCompact(m.captured)]

PaddedCaptures(men, kings, opponents, all) ==
  UNION ({MovesAlong(PaddedManPaths(opponents, all \ {f}, f, {}), f) :
            f \in CaptureStarts(men, opponents, all)}
         \cup
         {MovesAlong(PaddedKingPaths(opponents, all \ {f}, f, {}), f) :
            f \in kings})

PaddedQuietMoves(men, kings, all, side) ==
  UNION {UNION {{Quiet(from, target) : from \in PaddedStep({target}, Against(d))} :
                  target \in PaddedStep(men, d) \ all} : d \in Forward(side)}
  \cup
  UNION {{Quiet(f, to) : to \in UNION {PaddedFreeRay(f, d, all) :
                                         d \in Directions}} : f \in kings}

PaddedMoves(p, side) ==
  LET men == ToPadded(Men(p, side))
      kings == ToPadded(Kings(p, side))
      all == ToPadded(Occupied(p))
      captures == PaddedCaptures(men, kings, ToPadded(Opponents(p, side)), all)
  IN {CompactMove(m) : m \in IF captures # {} THEN LongestCaptures(captures)
                             ELSE PaddedQuietMoves(men, kings, all, side)}

PaddedHasCapture(p, side) ==
  LET opponents == ToPadded(Opponents(p, side))
      all == ToPadded(Occupied(p))
  IN \/ CaptureStarts(ToPadded(Men(p, side)), opponents, all) # {}
     \/ \E f \in ToPadded(Kings(p, side)), d \in Directions :
           LET blockers == PaddedRay[f][d] \cap all
           IN /\ blockers # {}
              /\ Nearest(blockers, d) \in opponents
              /\ PaddedStep({Nearest(blockers, d)}, d) \ all # {}

-------------------------------------------------------------------------------
PaddedManSources(p, mover, to) ==
  IF IsPromotion(mover, SquareOf(to)) THEN {}
  ELSE {f \in UNION {PaddedStep({to}, d) : d \in Backward(mover)}
                \ ToPadded(Occupied(p)) : ~ IsPromotion(mover, SquareOf(f))}

PaddedKingSources(p, to) ==
  UNION {PaddedFreeRay(to, d, ToPadded(Occupied(p)) \ {to}) : d \in Directions}

PaddedQuietPredecessors(p, side) ==
  LET mover == OtherSide(side)
      Back(kind, to, sources) ==
        {MovedBack(p, kind, SquareOf(from), SquareOf(to)) : from \in sources}
      candidates ==
        UNION ({Back(OwnMen(mover), to, PaddedManSources(p, mover, to)) :
                  to \in ToPadded(Men(p, mover))}
               \cup
               {Back(OwnKings(mover), to, PaddedKingSources(p, to)) :
                  to \in ToPadded(Kings(p, mover))})
  IN {q \in candidates : ~ PaddedHasCapture(q, mover)}
===============================================================================
