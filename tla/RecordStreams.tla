--------------------------- MODULE RecordStreams ---------------------------
(***************************************************************************)
(* What the frontier store promises (frontier.h): every owner has          *)
(* append-only streams, and a visit meets the records of a stream that are *)
(* in its range, each as often and in the order it was appended.           *)
(***************************************************************************)
EXTENDS Naturals, Sequences, SequencesExt

CONSTANTS Owner, Stream, Index

VARIABLES appended,  \* owner -> stream -> the records appended to it
          seen,      \* what the last visit met
          broken     \* whether an operation has failed

streamVars == <<appended, seen, broken>>

Nothing == << >>

(* The records of the range, in their order. *)
InRange(records, first, end) ==
  FlattenSeq([n \in 1 .. Len(records) |->
    IF first <= records[n] /\ records[n] < end THEN <<records[n]>> ELSE << >>])

Init ==
  /\ appended = [o \in Owner |-> [s \in Stream |-> << >>]]
  /\ seen = Nothing
  /\ broken = FALSE

Append1(o, s, i) ==
  /\ ~broken
  /\ appended' = [appended EXCEPT ![o][s] = Append(@, i)]
  /\ seen' = Nothing
  /\ UNCHANGED broken

Visit(o, s, first, end) ==
  /\ ~broken
  /\ seen' = InRange(appended[o][s], first, end)
  /\ UNCHANGED <<appended, broken>>

Break == broken' = TRUE /\ UNCHANGED <<appended, seen>>

Next ==
  \/ Break
  \/ \E o \in Owner, s \in Stream, i \in Index : Append1(o, s, i)
  \/ \E o \in Owner, s \in Stream, first, end \in Nat : Visit(o, s, first, end)

Spec == Init /\ [][Next]_streamVars
=============================================================================
