-------------------------- MODULE PublishedProofs ---------------------------
(***************************************************************************)
(* Proofs about what the commands leave under the name of a table.         *)
(*                                                                         *)
(* Sliced generation, for every number of rows and columns, every choice   *)
(* of modes and orders, and any number of runs, crashes and damaged files. *)
(*                                                                         *)
(* The win/draw/loss tables: the file that workers compile and processes   *)
(* read, for every number of processes, workers and pages and every way in *)
(* which pages are packed; and the registry of attached tables, for every  *)
(* number of threads, materials, images and addresses.                     *)
(***************************************************************************)
EXTENDS SlicedGeneration, WdlStore, WdlRegistry, FiniteSetTheorems, SequenceTheorems,
        WellFoundedInduction, TLAPS

LEMMA SliceType ==
  ASSUME NEW s \in Slices
  PROVE  s[1] \in Nat /\ s[2] \in Nat /\ s = <<s[1], s[2]>>
BY RowsAssumption DEF Slices

(* The position of a tile does not decrease with the coordinate. *)
LEMMA TileMonotone ==
  ASSUME NEW n \in Nat
  PROVE  /\ n \div 2 <= (n + 1) \div 2
         /\ n \div 3 <= (n + 1) \div 3
         /\ n \div 2 \in Nat /\ n \div 3 \in Nat
         /\ (n + 1) \div 2 \in Nat /\ (n + 1) \div 3 \in Nat
OBVIOUS

(* In each of the five orders a slice never precedes one that it probes. *)
LEMMA DepsNotAfter ==
  ASSUME NEW order \in {"row", "column", "tile2", "tile3", "diagonal"},
         NEW s \in Slices, NEW d \in Deps(s)
  PROVE  ~ Before(order, s, d)
<1>1. d \in Slices
  BY DEF Deps
<1>2. /\ s[1] \in Nat /\ s[2] \in Nat /\ d[1] \in Nat /\ d[2] \in Nat
  BY <1>1, SliceType
<1>3. \/ s[1] = d[1] + 1 /\ s[2] = d[2]
      \/ s[1] = d[1] /\ s[2] = d[2] + 1
  BY <1>2 DEF Deps
<1>4. /\ ~ RowOrder(s, d)
      /\ ~ ColumnOrder(s, d)
      /\ ~ DiagonalOrder(s, d)
  BY <1>2, <1>3 DEF RowOrder, ColumnOrder, DiagonalOrder
<1>5. Tile2(s) # Tile2(d) => ~ RowOrder(Tile2(s), Tile2(d))
  <2>1. /\ s[1] \div 2 \in Nat /\ s[2] \div 2 \in Nat
        /\ d[1] \div 2 \in Nat /\ d[2] \div 2 \in Nat
        /\ d[1] \div 2 <= s[1] \div 2 /\ d[2] \div 2 <= s[2] \div 2
    BY <1>2, <1>3, TileMonotone
  <2> QED BY <2>1 DEF RowOrder, Tile2
<1>6. Tile3(s) # Tile3(d) => ~ RowOrder(Tile3(s), Tile3(d))
  <2>1. /\ s[1] \div 3 \in Nat /\ s[2] \div 3 \in Nat
        /\ d[1] \div 3 \in Nat /\ d[2] \div 3 \in Nat
        /\ d[1] \div 3 <= s[1] \div 3 /\ d[2] \div 3 <= s[2] \div 3
    BY <1>2, <1>3, TileMonotone
  <2> QED BY <2>1 DEF RowOrder, Tile3
<1> QED
  BY <1>4, <1>5, <1>6 DEF Before

(* What a slice probes is behind the traversal when the slice is reached. *)
LEMMA DepsBehind ==
  ASSUME TypeOK, NEW s \in Slices, IsNext(run.order, s)
  PROVE  Deps(s) \subseteq Slices \ todo
<1>1. run.order \in {"row", "column", "tile2", "tile3", "diagonal"}
  BY OrdersAssumption DEF TypeOK
<1>2. ASSUME NEW d \in Deps(s), d \in todo
      PROVE  FALSE
  <2>1. d # s
    <3>1. s[1] \in Nat /\ s[2] \in Nat
      BY SliceType
    <3> QED BY <3>1 DEF Deps
  <2>2. Before(run.order, s, d)
    BY <1>2, <2>1 DEF IsNext
  <2> QED BY <1>1, <2>2, DepsNotAfter
<1>3. Deps(s) \subseteq Slices
  BY DEF Deps
<1> QED BY <1>2, <1>3

-----------------------------------------------------------------------------

LEMMA StopType ==
  ASSUME Stop
  PROVE  /\ run' \in [mode : Modes \union {"none"}, sliced : BOOLEAN,
                      order : Orders \union {"row"}, restart : BOOLEAN]
         /\ todo' \subseteq Slices /\ completed' \subseteq Slices
         /\ passes' \subseteq Slices /\ current' \in Slices
         /\ draft' \in Contents /\ pc' = "stopped"
<1>1. <<0, 0>> \in Slices
  BY RowsAssumption DEF Slices
<1> QED BY <1>1 DEF Stop, NoRun, Contents

LEMMA TypeStep ==
  ASSUME TypeOK, [Next]_vars
  PROVE  TypeOK'
<1> USE DEF TypeOK
<1>1. CASE RefuseFiles
  BY <1>1, StopType DEF RefuseFiles, disk
<1>2. CASE RemoveWork
  BY <1>2 DEF RemoveWork, memory
<1>3. CASE RemoveOutput
  BY <1>3 DEF RemoveOutput, memory
<1>4. CASE Begin
  BY <1>4 DEF Begin, disk, memory
<1>5. CASE RefuseWorkspace
  BY <1>5, StopType DEF RefuseWorkspace, disk
<1>6. CASE OpenWorkspace
  BY <1>6 DEF OpenWorkspace, Valid, Present, disk
<1>7. CASE WriteManifest
  BY <1>7 DEF WriteManifest, memory
<1>8. ASSUME NEW s \in Slices, Reuse(s)
      PROVE  TypeOK'
  BY <1>8 DEF Reuse, disk
<1>9. ASSUME NEW s \in Slices, CompileSlice(s)
      PROVE  TypeOK'
  <2>1. CASE Deps(s) \subseteq Present
    BY <1>9, <2>1 DEF CompileSlice, disk, Contents
  <2>2. CASE ~ Deps(s) \subseteq Present
    BY <1>9, <2>2, StopType DEF CompileSlice, disk
  <2> QED BY <2>1, <2>2
<1>10. ASSUME NEW s \in Slices, RemoveSlice(s)
       PROVE  TypeOK'
  BY <1>10, BoundsAssumption DEF RemoveSlice
<1>11. CASE VerifySlice
  BY <1>11 DEF VerifySlice, disk, Contents
<1>12. CASE PublishSlice
  BY <1>12 DEF PublishSlice
<1>13. CASE Merge
  <2>1. CASE Present = Slices /\ rotten = {}
    BY <1>13, <2>1 DEF Merge, memory, Contents
  <2>2. CASE ~ (Present = Slices /\ rotten = {})
    BY <1>13, <2>2, StopType DEF Merge
  <2> QED BY <2>1, <2>2
<1>14. CASE CreateDatabase
  BY <1>14 DEF CreateDatabase, memory, Contents
<1>15. CASE CompileDatabase
  BY <1>15 DEF CompileDatabase, memory, Contents
<1>16. CASE Finish
  BY <1>16 DEF Finish, memory, Contents
<1>17. CASE Publish
  <2>1. /\ output' \in Contents \union {"absent"}
        /\ work' \in Contents \union {"absent"}
        /\ report' \in Modes \union {"none"}
    BY <1>17 DEF Publish
  <2>2. /\ run' \in [mode : Modes \union {"none"}, sliced : BOOLEAN,
                     order : Orders \union {"row"}, restart : BOOLEAN]
        /\ todo' \subseteq Slices /\ completed' \subseteq Slices
        /\ passes' \subseteq Slices /\ current' \in Slices
        /\ draft' \in Contents /\ pc' \in {"stopped", "cleanup"}
    BY <1>17, StopType DEF Publish
  <2> QED BY <1>17, <2>1, <2>2 DEF Publish
<1>18. CASE RemoveManifest
  BY <1>18, StopType DEF RemoveManifest
<1>19. ASSUME NEW m \in Modes, NEW o \in Orders, NEW sl \in Sliced,
              NEW r \in BOOLEAN, Launch(m, o, sl, r)
       PROVE  TypeOK'
  BY <1>19, ChoicesAssumption DEF Launch, disk
<1>20. CASE Crash
  BY <1>20, StopType, BoundsAssumption DEF Crash, disk
<1>21. ASSUME NEW s \in Slices, RotSlice(s)
       PROVE  TypeOK'
  BY <1>21, BoundsAssumption DEF RotSlice, memory
<1>22. CASE RotManifest
  <2>1. rots' \in 0 .. MaxRots
    BY <1>22, BoundsAssumption DEF RotManifest
  <2>2. intact' = FALSE /\ UNCHANGED <<value, rotten, manifest, work, output, report, memory, pc,
                                      refused, faults>>
    BY <1>22 DEF RotManifest
  <2>3. UNCHANGED <<pc, run, todo, completed, passes, current, draft>>
    BY ONLY <2>2 DEF memory
  <2>4. /\ value' = value /\ rotten' = rotten /\ manifest' = manifest /\ work' = work
        /\ output' = output /\ report' = report /\ refused' = refused /\ faults' = faults
        /\ pc' = pc /\ run' = run /\ todo' = todo /\ completed' = completed
        /\ passes' = passes /\ current' = current /\ draft' = draft
    BY ONLY <2>2, <2>3
  <2> QED BY <2>1, <2>2, <2>4, Zenon
<1>23. CASE DeleteWorkspace
  BY <1>23 DEF DeleteWorkspace, memory
<1>24. CASE UNCHANGED vars
  BY <1>24 DEF vars, disk, memory
<1> QED
  BY <1>1, <1>2, <1>3, <1>4, <1>5, <1>6, <1>7, <1>8, <1>9, <1>10, <1>11,
     <1>12, <1>13, <1>14, <1>15, <1>16, <1>17, <1>18, <1>19, <1>20, <1>21,
     <1>22, <1>23, <1>24
     DEF Next, Step, Environment

LEMMA InitType ==
  ASSUME Init
  PROVE  TypeOK
<1>1. <<0, 0>> \in Slices
  BY RowsAssumption DEF Slices
<1>2. run \in [mode : Modes \union {"none"}, sliced : BOOLEAN,
              order : Orders \union {"row"}, restart : BOOLEAN]
  BY DEF Init, NoRun
<1>3. faults \in 0 .. MaxFaults /\ rots \in 0 .. MaxRots
  BY BoundsAssumption DEF Init
<1>4. value \in [Slices -> Contents \union {"absent"}]
  BY DEF Init
<1> QED BY <1>1, <1>2, <1>3, <1>4 DEF Init, TypeOK, Contents

(* Every variable keeps its type: what the workspace, the work file and    *)
(* the command's memory may hold, and that a run which compiles, finishes  *)
(* or publishes has a work file.                                           *)
THEOREM TypeCorrect == Spec => []TypeOK
<1>1. Init => TypeOK
  BY InitType
<1>2. TypeOK /\ [Next]_vars => TypeOK'
  BY TypeStep
<1> QED BY <1>1, <1>2, PTL DEF Spec

-----------------------------------------------------------------------------
(* The invariant, step by step.  Steps of a run outside the traversal.     *)

LEMMA StopKeepsInv ==
  ASSUME VerifiedInv, TypeOK', Stop, EvidenceIsSound', VerifiedIsRight'
  PROVE  VerifiedInv'
BY DEF VerifiedInv, Stop, Traversal, Listed, Generating, Finishing

LEMMA EvidenceKept ==
  ASSUME EvidenceIsSound, value' = value, manifest' = manifest
  PROVE  EvidenceIsSound'
BY DEF EvidenceIsSound

LEMMA OutputKept ==
  ASSUME VerifiedIsRight, output' = output, report' = report
  PROVE  VerifiedIsRight'
BY DEF VerifiedIsRight

LEMMA VerifiedStep ==
  ASSUME VerifiedInv, [Next]_vars
  PROVE  VerifiedInv'
<1>T. TypeOK /\ TypeOK'
  BY TypeStep DEF VerifiedInv
<1>E. EvidenceIsSound /\ VerifiedIsRight
  BY DEF VerifiedInv
<1>1. CASE RefuseFiles
  BY <1>1, <1>T, <1>E, StopKeepsInv, EvidenceKept, OutputKept
     DEF RefuseFiles, disk
<1>2. CASE RemoveWork
  <2>1. EvidenceIsSound' /\ VerifiedIsRight'
    BY <1>2, <1>E, EvidenceKept, OutputKept DEF RemoveWork
  <2> QED
    BY <1>2, <1>T, <2>1 DEF RemoveWork, memory, VerifiedInv, Traversal,
       Listed, Generating, Finishing
<1>3. CASE RemoveOutput
  <2>1. EvidenceIsSound' /\ VerifiedIsRight'
    BY <1>3, <1>E, EvidenceKept DEF RemoveOutput, VerifiedIsRight
  <2> QED
    BY <1>3, <1>T, <2>1 DEF RemoveOutput, memory, VerifiedInv, Traversal,
       Listed, Generating, Finishing
<1>4. CASE Begin
  <2>1. EvidenceIsSound' /\ VerifiedIsRight'
    BY <1>4, <1>E, EvidenceKept, OutputKept DEF Begin, disk
  <2> QED
    BY <1>4, <1>T, <2>1 DEF Begin, disk, memory, VerifiedInv, Traversal,
       Listed, Generating, Finishing
<1>5. CASE RefuseWorkspace
  BY <1>5, <1>T, <1>E, StopKeepsInv, EvidenceKept, OutputKept
     DEF RefuseWorkspace, disk
<1>6. CASE OpenWorkspace
  <2>1. EvidenceIsSound' /\ VerifiedIsRight'
    BY <1>6, <1>E, EvidenceKept, OutputKept DEF OpenWorkspace, disk
  <2>2. Traversal'
    <3>1. completed' = Valid /\ passes' = manifest /\ todo' = Slices
          /\ value' = value /\ run' = run
      BY <1>6 DEF OpenWorkspace, disk
    <3>2. completed' \subseteq Present'
      BY <3>1 DEF Valid, Present
    <3>3. Right(passes \intersect completed)'
      BY <3>1, <1>E DEF Right, EvidenceIsSound, Valid, Present
    <3>4. Checked' => completed' \subseteq passes'
      BY <3>1, <1>6 DEF OpenWorkspace, Unacceptable, Checked
    <3>5. run'.sliced /\ pc' = "record"
      BY <1>6, <3>1 DEF OpenWorkspace, VerifiedInv, Traversal
    <3> QED BY <3>1, <3>2, <3>3, <3>4, <3>5 DEF Traversal
  <2> QED
    BY <1>6, <1>T, <2>1, <2>2 DEF OpenWorkspace, VerifiedInv, Listed,
       Generating, Finishing
<1>7. CASE WriteManifest
  <2>1. EvidenceIsSound'
    BY <1>7 DEF WriteManifest, EvidenceIsSound, VerifiedInv, Traversal, Right
  <2>2. VerifiedIsRight'
    BY <1>7, <1>E, OutputKept DEF WriteManifest
  <2>3. Traversal'
    BY <1>7 DEF WriteManifest, memory, VerifiedInv, Traversal, Right, Present,
       Checked
  <2>4. Listed'
    BY <1>7 DEF WriteManifest, memory, Listed
  <2> QED
    BY <1>7, <1>T, <2>1, <2>2, <2>3, <2>4
       DEF WriteManifest, VerifiedInv, Generating, Finishing
<1>8. ASSUME NEW s \in Slices, Reuse(s)
      PROVE  VerifiedInv'
  <2>1. EvidenceIsSound' /\ VerifiedIsRight'
    BY <1>8, <1>E, EvidenceKept, OutputKept DEF Reuse, disk
  <2>2. Traversal'
    <3>1. Slices \ todo' \subseteq completed'
      BY <1>8 DEF Reuse, VerifiedInv, Traversal
    <3> QED
      BY <1>8, <3>1 DEF Reuse, disk, VerifiedInv, Traversal, Right, Present,
         Checked
  <2> QED
    BY <1>8, <1>T, <2>1, <2>2
       DEF Reuse, disk, VerifiedInv, Listed, Generating, Finishing
<1>9. ASSUME NEW s \in Slices, CompileSlice(s)
      PROVE  VerifiedInv'
  <2>1. EvidenceIsSound' /\ VerifiedIsRight'
    BY <1>9, <1>E, EvidenceKept, OutputKept DEF CompileSlice, disk
  <2>2. CASE ~ Deps(s) \subseteq Present
    BY <1>9, <1>T, <2>1, <2>2, StopKeepsInv DEF CompileSlice
  <2>3. CASE Deps(s) \subseteq Present
    <3>1. Deps(s) \subseteq completed
      <4>1. Deps(s) \subseteq Slices \ todo
        BY <1>9, <1>T, DepsBehind DEF CompileSlice
      <4> QED BY <1>9, <4>1 DEF CompileSlice, VerifiedInv, Traversal
    <3>2. Generating'
      BY <1>9, <2>3, <3>1 DEF CompileSlice, Generating
    <3>3. Traversal' /\ Listed'
      BY <1>9, <2>3 DEF CompileSlice, disk, VerifiedInv, Traversal, Listed,
         Right, Present, Checked
    <3> QED
      BY <1>9, <1>T, <2>1, <2>3, <3>2, <3>3
         DEF CompileSlice, VerifiedInv, Finishing
  <2> QED BY <2>2, <2>3
<1>10. ASSUME NEW s \in Slices, RemoveSlice(s)
       PROVE  VerifiedInv'
  <2>1. EvidenceIsSound'
    BY <1>10, <1>E, <1>T DEF RemoveSlice, EvidenceIsSound, TypeOK
  <2>2. VerifiedIsRight'
    BY <1>10, <1>E, OutputKept DEF RemoveSlice
  <2> QED
    BY <1>10, <1>T, <2>1, <2>2 DEF RemoveSlice, VerifiedInv, Traversal,
       Listed, Generating, Finishing
<1>11. CASE VerifySlice
  <2>1. EvidenceIsSound' /\ VerifiedIsRight'
    BY <1>11, <1>E, EvidenceKept, OutputKept DEF VerifySlice, disk
  <2>2. Traversal' /\ Listed'
    BY <1>11 DEF VerifySlice, disk, VerifiedInv, Traversal, Listed, Right,
       Present, Checked
  <2>3. Checked => \A d \in Deps(current) : value[d] = "right"
    BY <1>11 DEF VerifySlice, VerifiedInv, Traversal, Generating, Right
  <2>4. Generating'
    BY <1>11, <2>3 DEF VerifySlice, disk, VerifiedInv, Generating, Checked
  <2> QED
    BY <1>11, <1>T, <2>1, <2>2, <2>4 DEF VerifySlice, VerifiedInv, Finishing
<1>12. CASE PublishSlice
  <2>1. current \in Slices /\ current \notin completed /\ draft \in Contents
        /\ (Checked => draft = "right")
    BY <1>12, <1>T DEF PublishSlice, VerifiedInv, Generating, TypeOK
  <2>2. \A s \in Slices : s # current => value'[s] = value[s]
    BY <1>12, <1>T DEF PublishSlice, TypeOK
  <2>3. value'[current] = draft
    BY <1>12, <1>T, <2>1 DEF PublishSlice, TypeOK
  <2>4. EvidenceIsSound'
    <3>1. manifest' = manifest /\ current \notin manifest
      BY <1>12, <2>1 DEF PublishSlice, VerifiedInv, Listed
    <3> QED BY <1>T, <1>E, <2>2, <3>1 DEF EvidenceIsSound, TypeOK
  <2>5. VerifiedIsRight'
    BY <1>12, <1>E, OutputKept DEF PublishSlice
  <2>6. Traversal'
    <3>1. completed' \subseteq Present'
      BY <1>12, <1>T, <2>1, <2>2, <2>3
         DEF PublishSlice, VerifiedInv, Traversal, Present, Contents, TypeOK
    <3>2. Slices \ todo' \subseteq completed'
      BY <1>12 DEF PublishSlice, VerifiedInv, Traversal
    <3>3. Right(passes \intersect completed)'
      BY <1>12, <1>T, <2>1, <2>2, <2>3
         DEF PublishSlice, VerifiedInv, Traversal, Right, TypeOK, Checked
    <3>4. Checked' => completed' \subseteq passes'
      BY <1>12 DEF PublishSlice, VerifiedInv, Traversal, Checked
    <3> QED
      BY <1>12, <3>1, <3>2, <3>3, <3>4
         DEF PublishSlice, VerifiedInv, Traversal
  <2> QED
    BY <1>12, <1>T, <2>4, <2>5, <2>6
       DEF PublishSlice, VerifiedInv, Listed, Generating, Finishing
<1>13. CASE Merge
  <2>1. EvidenceIsSound' /\ VerifiedIsRight'
    BY <1>13, <1>E, EvidenceKept, OutputKept DEF Merge
  <2>2. CASE ~ (Present = Slices /\ rotten = {})
    BY <1>13, <1>T, <2>1, <2>2, StopKeepsInv DEF Merge
  <2>3. CASE Present = Slices /\ rotten = {}
    <3>1. Checked => \A s \in Slices : value[s] = "right"
      BY <1>13 DEF Merge, VerifiedInv, Traversal, Right
    <3>2. Finishing'
      BY <1>13, <2>3, <3>1 DEF Merge, memory, Finishing, Checked
    <3> QED
      BY <1>13, <1>T, <2>1, <2>3, <3>2
         DEF Merge, VerifiedInv, Traversal, Listed, Generating
  <2> QED BY <2>2, <2>3
<1>14. CASE CreateDatabase
  <2>1. EvidenceIsSound' /\ VerifiedIsRight'
    BY <1>14, <1>E, EvidenceKept, OutputKept DEF CreateDatabase
  <2> QED
    BY <1>14, <1>T, <2>1 DEF CreateDatabase, memory, VerifiedInv, Traversal,
       Listed, Generating, Finishing
<1>15. CASE CompileDatabase
  <2>1. EvidenceIsSound' /\ VerifiedIsRight'
    BY <1>15, <1>E, EvidenceKept, OutputKept DEF CompileDatabase
  <2> QED
    BY <1>15, <1>T, <2>1 DEF CompileDatabase, memory, VerifiedInv, Traversal,
       Listed, Generating, Finishing
<1>16. CASE Finish
  <2>1. EvidenceIsSound' /\ VerifiedIsRight'
    BY <1>16, <1>E, EvidenceKept, OutputKept DEF Finish
  <2>2. Checked => VerifyFinal \/ run.sliced
    BY <1>T, ModesAssumption DEF TypeOK, Checked, VerifyFinal
  <2>3. Finishing'
    BY <1>16, <2>2 DEF Finish, memory, VerifiedInv, Finishing, Checked
  <2> QED
    BY <1>16, <1>T, <2>1, <2>3 DEF Finish, memory, VerifiedInv, Traversal,
       Listed, Generating
<1>17. CASE Publish
  <2>1. EvidenceIsSound'
    BY <1>17, <1>E, EvidenceKept DEF Publish
  <2>2. VerifiedIsRight'
    BY <1>17 DEF Publish, VerifiedInv, Finishing, Checked, VerifiedIsRight
  <2>3. pc' \in {"cleanup", "stopped"}
    BY <1>17 DEF Publish, Stop
  <2> QED
    BY <1>T, <2>1, <2>2, <2>3 DEF VerifiedInv, Traversal, Listed, Generating,
       Finishing
<1>18. CASE RemoveManifest
  <2>1. EvidenceIsSound' /\ VerifiedIsRight'
    BY <1>18, <1>E, OutputKept DEF RemoveManifest, EvidenceIsSound
  <2> QED BY <1>18, <1>T, <2>1, StopKeepsInv DEF RemoveManifest
<1>19. ASSUME NEW m \in Modes, NEW o \in Orders, NEW sl \in Sliced,
              NEW r \in BOOLEAN, Launch(m, o, sl, r)
       PROVE  VerifiedInv'
  <2>1. EvidenceIsSound' /\ VerifiedIsRight'
    BY <1>19, <1>E, EvidenceKept, OutputKept DEF Launch, disk
  <2> QED
    BY <1>19, <1>T, <2>1 DEF Launch, VerifiedInv, Traversal, Listed,
       Generating, Finishing
<1>20. CASE Crash
  BY <1>20, <1>T, <1>E, StopKeepsInv, EvidenceKept, OutputKept DEF Crash, disk
<1>21. ASSUME NEW s \in Slices, RotSlice(s)
       PROVE  VerifiedInv'
  <2>1. EvidenceIsSound' /\ VerifiedIsRight'
    BY <1>21, <1>E, EvidenceKept, OutputKept DEF RotSlice
  <2> QED
    BY <1>21, <1>T, <2>1 DEF RotSlice, memory, VerifiedInv, Traversal,
       Listed, Generating, Finishing, Right, Present, Checked
<1>22. CASE RotManifest
  <2>1. EvidenceIsSound' /\ VerifiedIsRight'
    BY <1>22, <1>E, EvidenceKept, OutputKept DEF RotManifest
  <2> QED
    BY <1>22, <1>T, <2>1 DEF RotManifest, memory, VerifiedInv, Traversal,
       Listed, Generating, Finishing, Right, Present, Checked
<1>23. CASE DeleteWorkspace
  <2>1. EvidenceIsSound' /\ VerifiedIsRight'
    BY <1>23, <1>E, OutputKept DEF DeleteWorkspace, EvidenceIsSound
  <2> QED
    BY <1>23, <1>T, <2>1 DEF DeleteWorkspace, memory, VerifiedInv, Traversal,
       Listed, Generating, Finishing
<1>24. CASE UNCHANGED vars
  <2>1. EvidenceIsSound' /\ VerifiedIsRight'
    BY <1>24, <1>E, EvidenceKept, OutputKept DEF vars, disk
  <2> QED
    BY <1>24, <1>T, <2>1 DEF vars, disk, memory, VerifiedInv, Traversal,
       Listed, Generating, Finishing, Right, Present, Checked
<1> QED
  BY <1>1, <1>2, <1>3, <1>4, <1>5, <1>6, <1>7, <1>8, <1>9, <1>10, <1>11,
     <1>12, <1>13, <1>14, <1>15, <1>16, <1>17, <1>18, <1>19, <1>20, <1>21,
     <1>22, <1>23, <1>24
     DEF Next, Step, Environment

THEOREM InvariantCorrect == Spec => []VerifiedInv
<1>1. Init => VerifiedInv
  BY InitType DEF Init, VerifiedInv, EvidenceIsSound, Traversal, Listed,
     Generating, Finishing, VerifiedIsRight
<1>2. VerifiedInv /\ [Next]_vars => VerifiedInv'
  BY VerifiedStep
<1> QED BY <1>1, <1>2, PTL DEF Spec

(* A database whose log reports a verification holds the right distances,  *)
(* after any sequence of runs, crashes and damaged files.                  *)
THEOREM VerifiedCorrect == Spec => []VerifiedIsRight
<1>1. VerifiedInv => VerifiedIsRight
  BY DEF VerifiedInv
<1> QED BY <1>1, InvariantCorrect, PTL

(* The manifest never vouches for a wrong slice. *)
THEOREM EvidenceCorrect == Spec => []EvidenceIsSound
<1>1. VerifiedInv => EvidenceIsSound
  BY DEF VerifiedInv
<1> QED BY <1>1, InvariantCorrect, PTL

(* Whatever the order, the size and the workspace that was resumed, the    *)
(* slices that a slice probes exist when the traversal reaches it.         *)
THEOREM DependenciesCorrect == Spec => []DependenciesFirst
<1>1. VerifiedInv => DependenciesFirst
  <2> SUFFICES ASSUME VerifiedInv, NEW s \in Slices, pc = "slice",
                      IsNext(run.order, s)
               PROVE  Deps(s) \subseteq Present
    BY DEF DependenciesFirst
  <2>1. Deps(s) \subseteq Slices \ todo
    BY DepsBehind DEF VerifiedInv
  <2> QED BY <2>1 DEF VerifiedInv, Traversal
<1> QED BY <1>1, InvariantCorrect, PTL

-----------------------------------------------------------------------------
(* No failure loses work.                                                  *)
LEMMA CleanupStep ==
  ASSUME TypeOK, CleanupInv, [Next]_vars
  PROVE  CleanupInv'
<1>1. CASE Publish
  BY <1>1 DEF Publish, TypeOK, CleanupInv, Stop
<1>2. CASE RemoveOutput
  BY <1>2 DEF RemoveOutput, CleanupInv
<1>3. ASSUME output' = output, pc' # "cleanup" \/ pc' = pc PROVE CleanupInv'
  BY <1>3 DEF CleanupInv
<1>4. CASE \/ RefuseFiles \/ RemoveWork \/ Begin
           \/ RefuseWorkspace \/ OpenWorkspace \/ WriteManifest
           \/ \E s \in Slices : Reuse(s) \/ CompileSlice(s) \/ RemoveSlice(s)
  BY <1>3, <1>4 DEF RefuseFiles, RemoveWork, Begin, RefuseWorkspace, OpenWorkspace,
     WriteManifest, Reuse, CompileSlice, RemoveSlice, Stop, disk, memory
<1>5. CASE \/ VerifySlice \/ PublishSlice \/ Merge
           \/ CreateDatabase \/ CompileDatabase \/ Finish \/ RemoveManifest
  BY <1>3, <1>5 DEF VerifySlice, PublishSlice, Merge, CreateDatabase, CompileDatabase,
     Finish, RemoveManifest, Stop, disk, memory
<1>6. CASE Environment \/ UNCHANGED vars
  BY <1>3, <1>6 DEF Environment, Launch, Crash, RotSlice, RotManifest, DeleteWorkspace,
     Stop, disk, memory, vars
<1> QED BY <1>1, <1>2, <1>4, <1>5, <1>6 DEF Next, Step

(* The only steps that make a slice file disappear are the clean-up of a   *)
(* published database and the operator's deletion.                         *)
LEMMA OnlyCleanupRemoves ==
  ASSUME TypeOK, [Next]_vars, NEW s \in Slices, value[s] # "absent", value'[s] = "absent"
  PROVE  pc = "cleanup" \/ DeleteWorkspace
<1> SUFFICES ASSUME ~DeleteWorkspace PROVE pc = "cleanup"
  OBVIOUS
<1>1. value' # value
  OBVIOUS
<1>2. CASE PublishSlice
  <2>1. value'[s] \in {draft, value[s]} /\ draft # "absent"
    BY <1>2 DEF PublishSlice, TypeOK, Contents
  <2> QED BY <2>1
<1>3. CASE \E u \in Slices : RemoveSlice(u)
  BY <1>3 DEF RemoveSlice
<1>4. CASE \/ RefuseFiles \/ RemoveWork \/ RemoveOutput \/ Begin
           \/ RefuseWorkspace \/ OpenWorkspace \/ WriteManifest
           \/ \E u \in Slices : Reuse(u) \/ CompileSlice(u)
  BY <1>1, <1>4 DEF RefuseFiles, RemoveWork, RemoveOutput, Begin, RefuseWorkspace,
     OpenWorkspace, WriteManifest, Reuse, CompileSlice, disk
<1>5. CASE \/ VerifySlice \/ Merge \/ CreateDatabase \/ CompileDatabase
           \/ Finish \/ Publish \/ RemoveManifest
  BY <1>1, <1>5 DEF VerifySlice, Merge, CreateDatabase, CompileDatabase,
     Finish, Publish, RemoveManifest, disk
<1>6. CASE Environment \/ UNCHANGED vars
  BY <1>1, <1>6 DEF Environment, Launch, Crash, RotSlice, RotManifest, disk, vars
<1> QED BY <1>2, <1>3, <1>4, <1>5, <1>6 DEF Next, Step

(* A slice file disappears only when its database has been published, or   *)
(* when the operator deletes the workspace, after any sequence of runs,    *)
(* crashes and damaged files.                                              *)
THEOREM WorkKept == Spec => WorkIsKept
<1> DEFINE Kept == \A s \in Slices : value[s] # "absent" /\ value'[s] = "absent"
                             => output # "absent" \/ DeleteWorkspace
<1>1. Init => TypeOK /\ CleanupInv
  BY InitType DEF Init, CleanupInv
<1>2. TypeOK /\ CleanupInv /\ [Next]_vars => TypeOK' /\ CleanupInv' /\ Kept
  BY TypeStep, CleanupStep, OnlyCleanupRemoves DEF CleanupInv
<1> HIDE DEF Kept
<1>3. Spec => [][Kept]_vars
  BY <1>1, <1>2, PTL DEF Spec
<1> QED BY <1>3 DEF WorkIsKept, Kept

-----------------------------------------------------------------------------
(***************************************************************************)
(* Sequences of sequences.                                                 *)
(***************************************************************************)
(* Every non-empty set of naturals has a least element. *)
LEMMA LeastNatural ==
  ASSUME NEW Q \in SUBSET Nat, Q # {}
  PROVE  \E x \in Q : \A y \in Q : x <= y
<1> DEFINE R == {ss \in Nat \X Nat : ss[1] < ss[2]}
<1>1. IsWellFoundedOn(R, Nat)
  BY NatLessThanWellFounded DEF OpToRel
<1>2. PICK x \in Q : \A y \in Q : ~(<<y, x>> \in R)
  BY <1>1, WFMin
<1>3. ASSUME NEW y \in Q PROVE x <= y
  <2>1. <<y, x>> \notin R /\ x \in Nat /\ y \in Nat
    BY <1>2
  <2> QED BY <2>1
<1> QED BY <1>2, <1>3

(* A sequence and one more element.                                        *)
LEMMA LongerSeq ==
  ASSUME NEW S, NEW s \in Seq(S), NEW e \in S
  PROVE  /\ Append(s, e) \in Seq(S) /\ Len(Append(s, e)) = Len(s) + 1 /\ Len(s) \in Nat
         /\ \A n \in 1 .. Len(s) : Append(s, e)[n] = s[n] /\ s[n] \in S
         /\ Append(s, e)[Len(s) + 1] = e
         /\ DOMAIN s = 1 .. Len(s)
OBVIOUS

(* g holds what the first sequences are end to end, as FlattenSeq's own    *)
(* recursion does.                                                         *)
Glues(ss, g, n) ==
  /\ DOMAIN g = 1 .. n
  /\ \A k \in 1 .. n : g[k] = IF k = 1 THEN ss[k] ELSE g[k - 1] \o ss[k]

LEMMA GluesExtend ==
  ASSUME NEW R, NEW ss \in Seq(Seq(R)), NEW n \in 1 .. Len(ss), NEW g,
         n > 1 => Glues(ss, g, n - 1)
  PROVE  \E h : Glues(ss, h, n)
<1> DEFINE h == [k \in 1 .. n |-> IF k < n THEN g[k] ELSE IF n = 1 THEN ss[n] ELSE g[n - 1] \o ss[n]]
<1>1. n \in Nat \ {0}
  OBVIOUS
<1>2. ASSUME NEW k \in 1 .. n
      PROVE  h[k] = IF k = 1 THEN ss[k] ELSE h[k - 1] \o ss[k]
  <2>1. CASE k = n
    BY <1>1, <2>1
  <2>2. CASE k < n
    <3>1. k \in 1 .. n - 1 /\ n > 1
      BY <1>1, <2>2
    <3>2. g[k] = IF k = 1 THEN ss[k] ELSE g[k - 1] \o ss[k]
      BY <3>1 DEF Glues
    <3> QED BY <1>1, <2>2, <3>2
  <2> QED BY <1>1, <2>1, <2>2
<1> HIDE DEF h
<1>3. DOMAIN h = 1 .. n
  BY DEF h
<1>4. Glues(ss, h, n)
  BY <1>2, <1>3 DEF Glues
<1> QED BY <1>4

(* The recursion of FlattenSeq has a solution, so that it is unfolded.     *)
LEMMA FlattenGlues ==
  ASSUME NEW R, NEW ss \in Seq(Seq(R)), Len(ss) # 0
  PROVE  \E g : Glues(ss, g, Len(ss)) /\ FlattenSeq(ss) = g[Len(ss)]
<1> DEFINE Without == {n \in 1 .. Len(ss) : ~\E g : Glues(ss, g, n)}
<1>1. Len(ss) \in Nat \ {0}
  OBVIOUS
<1>2. Without = {}
  <2> SUFFICES ASSUME Without # {} PROVE FALSE
    OBVIOUS
  <2>1. PICK m \in Without : \A y \in Without : m <= y
    <3>1. Without \in SUBSET Nat
      BY <1>1
    <3> HIDE DEF Without
    <3> QED BY <3>1, LeastNatural
  <2>2. m \in 1 .. Len(ss)
    OBVIOUS
  <2>3. m > 1 => \E g : Glues(ss, g, m - 1)
    <3> SUFFICES ASSUME m > 1, ~\E g : Glues(ss, g, m - 1) PROVE FALSE
      OBVIOUS
    <3>1. m - 1 \in 1 .. Len(ss)
      BY <1>1, <2>2
    <3>2. m - 1 \in Without
      BY <3>1
    <3> HIDE DEF Without
    <3>3. m <= m - 1
      BY <2>1, <3>2
    <3> QED BY <1>1, <2>2, <3>3
  <2>4. \E h : Glues(ss, h, m)
    BY <2>2, <2>3, GluesExtend
  <2> QED BY <2>1, <2>4
<1>3. PICK g : Glues(ss, g, Len(ss))
  <2>1. Len(ss) \in 1 .. Len(ss)
    BY <1>1
  <2> QED BY <1>2, <2>1
<1> DEFINE h == CHOOSE f : f = [i \in 1 .. Len(ss) |-> IF i = 1 THEN ss[i] ELSE f[i - 1] \o ss[i]]
<1>4. PICK e : e = [i \in 1 .. Len(ss) |-> g[i]]
  OBVIOUS
<1>5. e = [i \in 1 .. Len(ss) |-> IF i = 1 THEN ss[i] ELSE e[i - 1] \o ss[i]]
  <2>1. \A i \in 1 .. Len(ss) : i # 1 => i - 1 \in 1 .. Len(ss)
    BY <1>1
  <2> QED BY <1>3, <1>4, <2>1 DEF Glues
<1>6. h = [i \in 1 .. Len(ss) |-> IF i = 1 THEN ss[i] ELSE h[i - 1] \o ss[i]]
  BY <1>5
<1>7. FlattenSeq(ss) = h[Len(ss)]
  BY <1>1 DEF FlattenSeq
<1> HIDE DEF h
<1>8. Glues(ss, h, Len(ss))
  BY <1>6 DEF Glues
<1> QED BY <1>7, <1>8

LEMMA FlattenEmpty == FlattenSeq(<< >>) = << >>
<1>1. Len(<< >>) = 0
  OBVIOUS
<1> QED BY <1>1 DEF FlattenSeq

(* The last sequence comes last.                                           *)
LEMMA FlattenAppend ==
  ASSUME NEW R, NEW ss \in Seq(Seq(R)), NEW s \in Seq(R)
  PROVE  FlattenSeq(Append(ss, s)) = FlattenSeq(ss) \o s
<1> DEFINE L == Len(ss)
           tt == Append(ss, s)
<1>1. /\ tt \in Seq(Seq(R)) /\ Len(tt) = L + 1 /\ L \in Nat
      /\ (\A n \in 1 .. L : tt[n] = ss[n]) /\ tt[L + 1] = s
  BY LongerSeq
<1> HIDE DEF tt
<1>2. PICK h : Glues(tt, h, L + 1) /\ FlattenSeq(tt) = h[L + 1]
  BY <1>1, FlattenGlues
<1>3. CASE L = 0
  <2>1. ss = << >> /\ << >> \o s = s
    BY <1>3
  <2>2. h[1] = tt[1]
    BY <1>1, <1>2, <1>3 DEF Glues
  <2> QED BY <1>1, <1>2, <1>3, <2>1, <2>2, FlattenEmpty DEF tt
<1>4. CASE L # 0
  <2>1. PICK g : Glues(ss, g, L) /\ FlattenSeq(ss) = g[L]
    BY <1>4, FlattenGlues
  <2> DEFINE Wrong == {k \in 1 .. L : h[k] # g[k]}
  <2>2. Wrong = {}
    <3> SUFFICES ASSUME Wrong # {} PROVE FALSE
      OBVIOUS
    <3>1. PICK m \in Wrong : \A y \in Wrong : m <= y
      <4>1. Wrong \in SUBSET Nat
        BY <1>1
      <4> HIDE DEF Wrong
      <4> QED BY <4>1, LeastNatural
    <3>2. m \in 1 .. L /\ h[m] # g[m]
      OBVIOUS
    <3>3. m # 1 => m - 1 \in 1 .. L /\ h[m - 1] = g[m - 1]
      <4> SUFFICES ASSUME m # 1, h[m - 1] # g[m - 1] PROVE FALSE
        BY <1>1, <3>2
      <4>1. m - 1 \in Wrong
        BY <1>1, <3>2
      <4> HIDE DEF Wrong
      <4>2. m <= m - 1
        BY <3>1, <4>1
      <4> QED BY <1>1, <3>2, <4>2
    <3>4. m \in 1 .. L + 1 /\ tt[m] = ss[m]
      BY <1>1, <3>2
    <3>5. /\ h[m] = IF m = 1 THEN tt[1] ELSE h[m - 1] \o tt[m]
          /\ g[m] = IF m = 1 THEN ss[1] ELSE g[m - 1] \o ss[m]
      BY <1>2, <2>1, <3>2, <3>4 DEF Glues
    <3>6. CASE m = 1
      BY ONLY <3>2, <3>4, <3>5, <3>6
    <3>7. CASE m # 1
      BY ONLY <3>2, <3>3, <3>4, <3>5, <3>7
    <3> QED BY <3>6, <3>7
  <2>3. L \in 1 .. L /\ L + 1 \in 1 .. L + 1 /\ L + 1 # 1 /\ L + 1 - 1 = L
    BY <1>1, <1>4
  <2>4. h[L + 1] = h[L] \o tt[L + 1]
    <3>1. \A k \in 1 .. L + 1 : h[k] = IF k = 1 THEN tt[k] ELSE h[k - 1] \o tt[k]
      BY <1>2 DEF Glues
    <3>2. PICK k : k = L + 1
      OBVIOUS
    <3>3. k \in 1 .. L + 1 /\ k # 1 /\ k - 1 = L
      BY <2>3, <3>2
    <3>4. h[k] = h[k - 1] \o tt[k]
      BY <3>1, <3>3
    <3> QED BY <3>2, <3>3, <3>4
  <2>5. h[L] = g[L]
    BY <2>2, <2>3
  <2> QED BY <1>1, <1>2, <2>1, <2>4, <2>5 DEF tt
<1> QED BY <1>3, <1>4

LEMMA EmptyOrAppend ==
  ASSUME NEW S, NEW s \in Seq(S), s # << >>
  PROVE  \E t \in Seq(S), e \in S : s = Append(t, e) /\ Len(s) = Len(t) + 1 /\ Len(t) \in Nat
BY SequenceEmptyOrAppend, LongerSeq

LEMMA FlattenType ==
  ASSUME NEW R
  PROVE  \A ss \in Seq(Seq(R)) : FlattenSeq(ss) \in Seq(R)
<1> DEFINE Wrong == {n \in Nat : \E ss \in Seq(Seq(R)) : Len(ss) = n /\ FlattenSeq(ss) \notin Seq(R)}
<1>1. Wrong = {}
  <2> SUFFICES ASSUME Wrong # {} PROVE FALSE
    OBVIOUS
  <2>1. PICK m \in Wrong : \A y \in Wrong : m <= y
    <3>1. Wrong \in SUBSET Nat
      OBVIOUS
    <3> HIDE DEF Wrong
    <3> QED BY <3>1, LeastNatural
  <2>2. PICK ss \in Seq(Seq(R)) : Len(ss) = m /\ FlattenSeq(ss) \notin Seq(R)
    OBVIOUS
  <2>3. ss # << >>
    BY <2>2, FlattenEmpty
  <2>4. PICK t \in Seq(Seq(R)), s \in Seq(R) : ss = Append(t, s) /\ m = Len(t) + 1 /\ Len(t) \in Nat
    BY <2>2, <2>3, EmptyOrAppend
  <2>5. Len(t) \notin Wrong
    <3> HIDE DEF Wrong
    <3> QED BY <2>1, <2>4
  <2>6. FlattenSeq(t) \in Seq(R)
    BY <2>4, <2>5
  <2>7. FlattenSeq(ss) = FlattenSeq(t) \o s
    BY <2>4, FlattenAppend
  <2> QED BY <2>2, <2>6, <2>7, ConcatProperties
<1> QED BY <1>1

-----------------------------------------------------------------------------
(***************************************************************************)
(* What is known of a compilation, and of a file that it published.        *)
(***************************************************************************)
WorkerStates == [at : {"batch", "payload", "directory", "done"}, page : Nat, offset : Nat,
                 failed : BOOLEAN]
Jobs(w) == [at : {"start", "join"}, version : Version, file : WdlFiles, next : Nat \ {0},
            cancelled : BOOLEAN, created : Nat, count : Nat \ {0}, worker : {w}]

Extent(f, page) ==
  IF f.entry[page].offset = 0 THEN {}
  ELSE f.entry[page].offset .. (f.entry[page].offset - 1) + f.entry[page].size

(* The cells hold what is given, from a place on.                          *)
Lies(cells, at, payload) ==
  \A k \in 1 .. Len(payload) : at > 0 /\ (at - 1) + k <= Len(cells) /\ cells[(at - 1) + k] = payload[k]

(* The directory leads to the page. *)
PageHolds(f, v, page) ==
  IF Packed[v][page] = Draws THEN f.entry[page] = Implicit
  ELSE /\ f.entry[page].offset > 0
       /\ f.entry[page].size = SizeOf[Packed[v][page]] /\ f.entry[page].sum = Packed[v][page]
       /\ Lies(f.cells, f.entry[page].offset, CellsOf(v, page))

(* A file that holds the projection of a version, without gaps.            *)
Projects(f, v) ==
  /\ f \in WdlFiles /\ f.dictionary = (v \in Trained)
  /\ \A page \in Page : PageHolds(f, v, page)
  /\ \A a, b \in Page : a # b => Extent(f, a) \cap Extent(f, b) = {}
  /\ \A c \in 1 .. Len(f.cells) : \E page \in Page : c \in Extent(f, page)

Starts(j, i) == Share(i, j.count, PageTotal)
Workers(j) == 0 .. j.count - 1
Holding(j) == {i \in Workers(j) : j.worker[i].at \in {"payload", "directory"}}
Reserved(j, i) == j.worker[i].offset .. (j.worker[i].offset - 1) + Len(BatchCells(j, i))
Placed(j) == {page \in Page : \E i \in Workers(j) : Starts(j, i) <= page /\ page < j.worker[i].page}

(* How far the workers have come. *)
ProgressInv(j) ==
  /\ j.worker \in [Workers(j) -> WorkerStates] /\ j.created <= j.count
  /\ j.at = "start" => j.created < j.count
  /\ j.cancelled => \/ \E i \in Workers(j) : j.worker[i].failed
                    \/ j.created < j.count /\ j.at = "join"
  /\ \A i \in Workers(j) :
       /\ Starts(j, i) <= j.worker[i].page /\ j.worker[i].page <= Starts(j, i + 1)
       /\ j.worker[i].at \in {"payload", "directory"} => j.worker[i].page < Starts(j, i + 1)
       /\ j.worker[i].at = "done" =>
            \/ j.cancelled \/ j.worker[i].failed \/ j.worker[i].page = Starts(j, i + 1)

(* What is written is in its place, and what is reserved is free.          *)
CellsInv(j) ==
  /\ Len(j.file.cells) < j.next /\ j.file.dictionary = (j.version \in Trained)
  /\ \A page \in Placed(j) : PageHolds(j.file, j.version, page)
  /\ \A i \in Holding(j) :
       /\ j.worker[i].offset > 0 /\ j.worker[i].offset + Len(BatchCells(j, i)) <= j.next
       /\ j.worker[i].at = "directory" =>
            Lies(j.file.cells, j.worker[i].offset, BatchCells(j, i))

(* No cell is given to two, and none is left out.                          *)
ExtentsInv(j) ==
  /\ \A a, b \in Placed(j) : a # b => Extent(j.file, a) \cap Extent(j.file, b) = {}
  /\ \A a \in Placed(j), i \in Holding(j) : Extent(j.file, a) \cap Reserved(j, i) = {}
  /\ \A i, k \in Holding(j) : i # k => Reserved(j, i) \cap Reserved(j, k) = {}
  /\ (\A i \in Workers(j) : ~j.worker[i].failed) =>
       \A c \in 1 .. j.next - 1 : \/ \E page \in Placed(j) : c \in Extent(j.file, page)
                                  \/ \E i \in Holding(j) : c \in Reserved(j, i)

JobInv(j) == \/ j = NoJob \/ j = Reopening
             \/ j \in Jobs(j.worker) /\ ProgressInv(j) /\ CellsInv(j) /\ ExtentsInv(j)

WdlInv ==
  /\ dtm \in Version
  /\ wdl = NoFile \/ \E v \in Version : Projects(wdl, v)
  /\ DOMAIN job = Process /\ \A p \in Process : JobInv(job[p])
  /\ size \in [Process -> Nat] /\ (wdl = NoFile => \A p \in Process : size[p] = 0)
  /\ DOMAIN handle = Process
  /\ \A p \in Process :
       \/ handle[p] = NoHandle
       \/ handle[p] \in WdlHandles /\ \E v \in Version : Projects(handle[p].file, v)

-----------------------------------------------------------------------------
(***************************************************************************)
(* What is compressed of a row of pages.                                   *)
(***************************************************************************)
(* A place in the second part is one of the whole.                         *)
LEMMA Within ==
  ASSUME NEW a \in Nat, NEW b \in Nat, NEW c \in Nat, a + b <= c, NEW k \in 1 .. b
  PROVE  a + k \in 1 .. c
OBVIOUS

LEMMA CellsOfFacts ==
  ASSUME NEW v \in Version, NEW page \in Page
  PROVE  /\ CellsOf(v, page) \in Seq(FileCells)
         /\ Packed[v][page] \in PackedPages
         /\ Packed[v][page] # Draws =>
              /\ SizeOf[Packed[v][page]] \in Nat \ {0}
              /\ Len(CellsOf(v, page)) = SizeOf[Packed[v][page]]
         /\ Packed[v][page] = Draws => Len(CellsOf(v, page)) = 0
<1>1. Packed[v][page] \in PackedPages
  BY WdlAssumption
<1>2. CASE Packed[v][page] = Draws
  BY <1>1, <1>2 DEF CellsOf
<1>3. CASE Packed[v][page] # Draws
  <2>1. PICK x \in DOMAIN SizeOf : x = Packed[v][page] /\ x \in PackedPages
    BY <1>1, <1>3 DEF PackedPages
  <2>2. SizeOf[x] \in Nat \ {0}
    BY WdlAssumption
  <2>3. PICK s : s = Payload(x, v \in Trained)
    OBVIOUS
  <2>4. s = [k \in 1 .. SizeOf[x] |-> [of |-> x, dictionary |-> v \in Trained, part |-> k]]
    BY <2>3 DEF Payload
  <2>5. \A k \in 1 .. SizeOf[x] : [of |-> x, dictionary |-> v \in Trained, part |-> k] \in FileCells
    BY <2>1, <2>2 DEF FileCells
  <2>6. s \in Seq(FileCells) /\ Len(s) = SizeOf[x]
    BY <2>2, <2>4, <2>5
  <2>7. CellsOf(v, page) = s
    BY <1>3, <2>1, <2>3 DEF CellsOf
  <2> QED BY <1>1, <1>3, <2>1, <2>2, <2>6, <2>7
<1> QED BY <1>2, <1>3

(* One page more is compressed behind the others.                          *)
LEMMA CompressedStep ==
  ASSUME NEW v \in Version, NEW first \in Nat, NEW n \in Nat, first + n \in 0 .. PageTotal
  PROVE  /\ Compressed(v, first, n) \in Seq(FileCells)
         /\ n = 0 => Compressed(v, first, n) = << >>
         /\ first + n \in Page =>
              Compressed(v, first, n + 1) = Compressed(v, first, n) \o CellsOf(v, first + n)
<1>0. PageTotal \in Nat \ {0}
  BY WdlAssumption
<1> DEFINE row(m) == [k \in 1 .. m |-> CellsOf(v, first + k - 1)]
<1>1. ASSUME NEW m \in Nat, first + m <= PageTotal
      PROVE  row(m) \in Seq(Seq(FileCells)) /\ Len(row(m)) = m
  <2>1. ASSUME NEW k \in 1 .. m PROVE CellsOf(v, first + k - 1) \in Seq(FileCells)
    <3>1. first + k - 1 \in Page
      BY <1>0, <1>1 DEF Page
    <3> QED BY <3>1, CellsOfFacts
  <2> QED BY <1>1, <2>1
<1>2. row(n) \in Seq(Seq(FileCells)) /\ Len(row(n)) = n
  <2>1. first + n <= PageTotal
    BY <1>0
  <2> HIDE DEF row
  <2> QED BY <1>1, <2>1
<1>3. Compressed(v, first, n) = FlattenSeq(row(n))
  BY DEF Compressed
<1>4. n = 0 => Compressed(v, first, n) = << >>
  BY <1>2, <1>3, FlattenEmpty
<1>5. ASSUME first + n \in Page
      PROVE  Compressed(v, first, n + 1) = Compressed(v, first, n) \o CellsOf(v, first + n)
  <2>1. row(n + 1) \in Seq(Seq(FileCells)) /\ Len(row(n + 1)) = n + 1
    <3>1. n + 1 \in Nat /\ first + (n + 1) <= PageTotal
      BY <1>0, <1>5 DEF Page
    <3> QED BY <1>1, <3>1
  <2>2. CellsOf(v, first + n) \in Seq(FileCells)
    BY <1>5, CellsOfFacts
  <2>3. row(n + 1) = Append(row(n), CellsOf(v, first + n))
    <3>1. first + (n + 1) - 1 = first + n
      OBVIOUS
    <3> QED BY <1>2, <2>1, <3>1
  <2>4. FlattenSeq(row(n + 1)) = FlattenSeq(row(n)) \o CellsOf(v, first + n)
    <3> HIDE DEF row
    <3> QED BY <1>2, <2>2, <2>3, FlattenAppend
  <2> QED BY <1>3, <2>4 DEF Compressed
<1>6. FlattenSeq(row(n)) \in Seq(FileCells)
  <2> HIDE DEF row
  <2> QED BY <1>2, FlattenType
<1> QED BY <1>3, <1>4, <1>5, <1>6

(* The cells of a page lie behind those of the pages before it, and every  *)
(* cell is one of a page.                                                  *)
LEMMA CompressedFacts ==
  ASSUME NEW v \in Version, NEW first \in Nat, NEW n \in Nat, first + n <= PageTotal
  PROVE  /\ \A m \in 0 .. n : /\ Len(Compressed(v, first, m)) \in Nat
                              /\ Len(Compressed(v, first, m)) <= Len(Compressed(v, first, n))
         /\ \A m \in 0 .. n - 1 :
              /\ Len(Compressed(v, first, m + 1))
                   = Len(Compressed(v, first, m)) + Len(CellsOf(v, first + m))
              /\ \A k \in 1 .. Len(CellsOf(v, first + m)) :
                   Compressed(v, first, n)[Len(Compressed(v, first, m)) + k]
                     = CellsOf(v, first + m)[k]
         /\ \A c \in 1 .. Len(Compressed(v, first, n)) : \E m \in 0 .. n - 1 :
              /\ Len(Compressed(v, first, m)) < c
              /\ c <= Len(Compressed(v, first, m)) + Len(CellsOf(v, first + m))
<1> DEFINE C(m) == Compressed(v, first, m)
           G(m) == CellsOf(v, first + m)
           P(x) == /\ \A m \in 0 .. x : Len(C(m)) \in Nat /\ Len(C(m)) <= Len(C(x))
                   /\ \A m \in 0 .. x - 1 :
                        /\ Len(C(m + 1)) = Len(C(m)) + Len(G(m))
                        /\ \A k \in 1 .. Len(G(m)) : C(x)[Len(C(m)) + k] = G(m)[k]
                   /\ \A c \in 1 .. Len(C(x)) : \E m \in 0 .. x - 1 :
                        Len(C(m)) < c /\ c <= Len(C(m)) + Len(G(m))
           Wrong == {x \in Nat : x <= n /\ ~P(x)}
<1>0. PageTotal \in Nat \ {0}
  BY WdlAssumption
<1>1. ASSUME NEW m \in Nat, m <= n
      PROVE  /\ C(m) \in Seq(FileCells) /\ (m = 0 => C(m) = << >>)
             /\ m < n => (C(m + 1) = C(m) \o G(m) /\ G(m) \in Seq(FileCells))
  <2>1. first + m \in 0 .. PageTotal /\ (m < n => first + m \in Page)
    BY <1>0, <1>1 DEF Page
  <2> QED BY <2>1, CompressedStep, CellsOfFacts
<1> HIDE DEF C, G
<1>2. Wrong = {}
  <2> SUFFICES ASSUME Wrong # {} PROVE FALSE
    OBVIOUS
  <2>1. PICK x \in Wrong : \A y \in Wrong : x <= y
    <3>1. Wrong \in SUBSET Nat
      OBVIOUS
    <3> HIDE DEF Wrong
    <3> QED BY <3>1, LeastNatural
  <2>2. x \in Nat /\ x <= n /\ ~P(x)
    OBVIOUS
  <2>3. CASE x = 0
    <3>1. Len(C(0)) = 0
      BY <1>1
    <3>2. P(0)
      BY <3>1
    <3> QED BY <2>2, <2>3, <3>2
  <2>4. CASE x # 0
    <3>1. PICK y \in Nat : y = x - 1
      BY <2>2, <2>4
    <3>2. y <= n /\ x = y + 1 /\ y < n
      BY <2>2, <3>1
    <3>3. y \notin Wrong
      <4>1. ~(x <= y)
        BY <2>2, <3>1
      <4> HIDE DEF Wrong
      <4> QED BY <2>1, <4>1
    <3>4. P(y)
      BY <3>2, <3>3
    <3>5. C(x) = C(y) \o G(y) /\ C(y) \in Seq(FileCells) /\ G(y) \in Seq(FileCells)
      BY <1>1, <3>2
    <3>6. /\ Len(C(x)) = Len(C(y)) + Len(G(y)) /\ Len(C(y)) \in Nat /\ Len(G(y)) \in Nat
          /\ \A k \in 1 .. Len(C(y)) : C(x)[k] = C(y)[k]
          /\ \A k \in 1 .. Len(G(y)) : C(x)[Len(C(y)) + k] = G(y)[k]
      BY <3>5
    <3>7. ASSUME NEW m \in 0 .. x PROVE Len(C(m)) \in Nat /\ Len(C(m)) <= Len(C(x))
      <4>1. CASE m = x
        BY <3>2, <3>6, <4>1
      <4>2. CASE m # x
        <5>1. m \in 0 .. y
          BY <3>2, <4>2
        <5>2. Len(C(m)) \in Nat /\ Len(C(m)) <= Len(C(y))
          BY <3>4, <5>1
        <5> QED BY <3>2, <3>6, <5>2
      <4> QED BY <4>1, <4>2
    <3>8. ASSUME NEW m \in 0 .. x - 1
          PROVE  /\ Len(C(m + 1)) = Len(C(m)) + Len(G(m))
                 /\ \A k \in 1 .. Len(G(m)) : C(x)[Len(C(m)) + k] = G(m)[k]
      <4>1. CASE m = y
        BY <3>2, <3>6, <4>1
      <4>2. CASE m # y
        <5>1. m \in 0 .. y - 1 /\ m \in 0 .. y /\ m + 1 \in 0 .. y /\ m \in Nat
          BY <3>2, <4>2
        <5>2. /\ Len(C(m + 1)) = Len(C(m)) + Len(G(m))
              /\ \A k \in 1 .. Len(G(m)) : C(y)[Len(C(m)) + k] = G(m)[k]
          BY <3>4, <5>1
        <5>3. Len(C(m)) \in Nat /\ Len(C(m + 1)) <= Len(C(y)) /\ Len(C(m + 1)) \in Nat
          BY <3>4, <5>1
        <5>4. Len(G(m)) \in Nat
          BY <1>1, <3>2, <5>1
        <5>5. ASSUME NEW k \in 1 .. Len(G(m)) PROVE C(x)[Len(C(m)) + k] = G(m)[k]
          <6>1. Len(C(m)) + k \in 1 .. Len(C(y))
            <7>1. Len(C(y)) \in Nat
              BY <3>6
            <7>2. Len(C(m)) + Len(G(m)) <= Len(C(y)) /\ Len(C(m)) \in Nat
              BY <5>2, <5>3
            <7> QED BY <5>4, <7>1, <7>2, Within
          <6> QED BY <3>2, <3>6, <5>2, <6>1
        <5> QED BY <5>2, <5>5
      <4> QED BY <4>1, <4>2
    <3>9. ASSUME NEW c \in 1 .. Len(C(x))
          PROVE  \E m \in 0 .. x - 1 : Len(C(m)) < c /\ c <= Len(C(m)) + Len(G(m))
      <4>1. CASE c > Len(C(y))
        <5>1. y \in 0 .. x - 1
          BY <3>2
        <5>2. c <= Len(C(y)) + Len(G(y))
          BY <3>2, <3>6
        <5> QED BY <4>1, <5>1, <5>2
      <4>2. CASE ~(c > Len(C(y)))
        <5>1. c \in 1 .. Len(C(y))
          BY <3>2, <3>6, <4>2
        <5>2. PICK m \in 0 .. y - 1 : Len(C(m)) < c /\ c <= Len(C(m)) + Len(G(m))
          BY <3>4, <5>1
        <5>3. m \in 0 .. x - 1
          BY <3>2
        <5> QED BY <5>2, <5>3
      <4> QED BY <4>1, <4>2
    <3>10. P(x)
      BY <3>7, <3>8, <3>9
    <3> QED BY <2>2, <3>10
  <2> QED BY <2>3, <2>4
<1>3. P(n)
  <2> HIDE DEF P
  <2> QED BY <1>2
<1> QED BY <1>3 DEF C, G

-----------------------------------------------------------------------------
(***************************************************************************)
(* The division of things among workers.                                   *)
(***************************************************************************)
LEMMA ShareFacts ==
  ASSUME NEW n \in Nat \ {0}, NEW total \in Nat
  PROVE  /\ Share(0, n, total) = 0 /\ Share(n, n, total) = total
         /\ \A i \in 0 .. n : Share(i, n, total) \in Nat
         /\ \A i, k \in 0 .. n : i <= k => Share(i, n, total) <= Share(k, n, total)
<1> DEFINE q == total \div n
           r == total % n
           less(i) == IF i < r THEN i ELSE r
           whole(i) == i * q
<1>1. q \in Nat /\ r \in Nat /\ r < n /\ total = n * q + r
  OBVIOUS
<1>2. \A i : Share(i, n, total) = whole(i) + less(i)
  BY DEF Share
<1> HIDE DEF q, r
<1>3. ASSUME NEW i \in 0 .. n PROVE whole(i) \in Nat /\ less(i) \in Nat
  BY <1>1
<1>4. ASSUME NEW i \in 0 .. n, NEW k \in 0 .. n, i <= k
      PROVE  whole(i) <= whole(k) /\ less(i) <= less(k)
  BY <1>1, <1>4
<1>5. whole(0) = 0 /\ whole(n) = n * q /\ less(0) = 0 /\ less(n) = r
  BY <1>1
<1> HIDE DEF less, whole
<1>6. ASSUME NEW i \in 0 .. n, NEW k \in 0 .. n, i <= k
      PROVE  Share(i, n, total) <= Share(k, n, total)
  <2>1. /\ whole(i) \in Nat /\ less(i) \in Nat /\ whole(k) \in Nat /\ less(k) \in Nat
        /\ whole(i) <= whole(k) /\ less(i) <= less(k)
    BY <1>3, <1>4, <1>6
  <2>2. Share(i, n, total) = whole(i) + less(i) /\ Share(k, n, total) = whole(k) + less(k)
    BY <1>2
  <2> QED BY <2>1, <2>2
<1> QED BY <1>1, <1>2, <1>3, <1>5, <1>6

(* Each thing belongs to one worker.                                       *)
LEMMA SharesCover ==
  ASSUME NEW n \in Nat \ {0}, NEW total \in Nat, NEW x \in 0 .. total - 1
  PROVE  \E i \in 0 .. n - 1 : Share(i, n, total) <= x /\ x < Share(i + 1, n, total)
<1> DEFINE S(i) == Share(i, n, total)
           Above == {i \in 0 .. n : x < S(i)}
<1>1. S(0) = 0 /\ S(n) = total /\ \A i \in 0 .. n : S(i) \in Nat
  BY ShareFacts
<1> HIDE DEF S
<1>2. n \in Above
  BY <1>1
<1>3. PICK i \in Above : \A y \in Above : i <= y
  <2>1. Above \in SUBSET Nat
    OBVIOUS
  <2> HIDE DEF Above
  <2> QED BY <1>2, <2>1, LeastNatural
<1>4. i \in 0 .. n /\ x < S(i) /\ i # 0
  BY <1>1
<1>5. i - 1 \in 0 .. n - 1 /\ i - 1 \in 0 .. n /\ i = (i - 1) + 1 /\ ~(i <= i - 1)
  BY <1>4
<1>6. i - 1 \notin Above
  <2> HIDE DEF Above
  <2> QED BY <1>3, <1>5
<1>7. S(i - 1) <= x
  BY <1>1, <1>5, <1>6
<1> QED BY <1>4, <1>5, <1>7 DEF S

LEMMA SharesApart ==
  ASSUME NEW n \in Nat \ {0}, NEW total \in Nat, NEW i \in 0 .. n - 1, NEW k \in 0 .. n - 1,
         i # k, NEW x \in Nat, Share(i, n, total) <= x, x < Share(i + 1, n, total)
  PROVE  ~(Share(k, n, total) <= x /\ x < Share(k + 1, n, total))
<1>1. i \in 0 .. n /\ k \in 0 .. n /\ i + 1 \in 0 .. n /\ k + 1 \in 0 .. n /\ (i + 1 <= k \/ k + 1 <= i)
  OBVIOUS
<1>2. i + 1 <= k => Share(i + 1, n, total) <= Share(k, n, total)
  BY <1>1, ShareFacts
<1>3. k + 1 <= i => Share(k + 1, n, total) <= Share(i, n, total)
  BY <1>1, ShareFacts
<1>4. /\ Share(i, n, total) \in Nat /\ Share(k, n, total) \in Nat
      /\ Share(i + 1, n, total) \in Nat /\ Share(k + 1, n, total) \in Nat
  BY <1>1, ShareFacts
<1> QED BY <1>1, <1>2, <1>3, <1>4

(* All shares together are everything. *)
LEMMA SharesTogether ==
  ASSUME NEW n \in Nat \ {0}, NEW total \in Nat
  PROVE  UNION {ShareOf(i, n, total) : i \in 0 .. n - 1} = 0 .. total - 1
<1>1. ASSUME NEW x \in 0 .. total - 1
      PROVE  x \in UNION {ShareOf(i, n, total) : i \in 0 .. n - 1}
  <2>1. PICK i \in 0 .. n - 1 : Share(i, n, total) <= x /\ x < Share(i + 1, n, total)
    BY SharesCover
  <2>2. i \in 0 .. n /\ i + 1 \in 0 .. n
    OBVIOUS
  <2>3. Share(i, n, total) \in Nat /\ Share(i + 1, n, total) \in Nat
    BY <2>2, ShareFacts
  <2>4. x \in ShareOf(i, n, total)
    BY <2>1, <2>3 DEF ShareOf
  <2> QED BY <2>4
<1>2. ASSUME NEW i \in 0 .. n - 1, NEW x \in ShareOf(i, n, total)
      PROVE  x \in 0 .. total - 1
  <2>1. i \in 0 .. n /\ i + 1 \in 0 .. n /\ n \in 0 .. n /\ i + 1 <= n
    OBVIOUS
  <2>2. /\ Share(i, n, total) \in Nat /\ Share(i + 1, n, total) \in Nat
        /\ Share(i + 1, n, total) <= Share(n, n, total) /\ Share(n, n, total) = total
    BY <2>1, ShareFacts
  <2>3. x \in Share(i, n, total) .. Share(i + 1, n, total) - 1
    BY DEF ShareOf
  <2> QED BY <2>2, <2>3
<1> QED BY <1>1, <1>2

LEMMA AtMostFacts ==
  ASSUME NEW n \in Nat, NEW limit \in Nat
  PROVE  AtMost(n, limit) \in Nat /\ AtMost(n, limit) <= n /\ AtMost(n, limit) <= limit
         /\ (n > 0 /\ limit > 0 => AtMost(n, limit) > 0)
BY DEF AtMost

(* A write changes what it covers, and the file may grow.                  *)
LEMMA WriteAtFacts ==
  ASSUME NEW cells \in Seq(FileCells), NEW at \in Nat \ {0}, NEW payload \in Seq(FileCells),
         NEW new, new = WriteAt(cells, at, payload)
  PROVE  /\ new \in Seq(FileCells)
         /\ Len(new) >= Len(cells) /\ Len(new) >= (at - 1) + Len(payload)
         /\ Len(new) = Len(cells) \/ Len(new) = (at - 1) + Len(payload)
         /\ \A k \in 1 .. Len(payload) : new[(at - 1) + k] = payload[k]
         /\ \A k \in 1 .. Len(cells) : k < at \/ k > (at - 1) + Len(payload) => new[k] = cells[k]
<1> DEFINE e == (at - 1) + Len(payload)
           m == Max({Len(cells), e})
<1>1. Len(cells) \in Nat /\ Len(payload) \in Nat /\ e \in Nat
  OBVIOUS
<1> HIDE DEF e
<1>2. m \in Nat /\ m >= Len(cells) /\ m >= e /\ (m = Len(cells) \/ m = e)
  <2>1. CASE Len(cells) >= e
    <3>1. \E x \in {Len(cells), e} : \A y \in {Len(cells), e} : x >= y
      BY <1>1, <2>1
    <3> QED BY <1>1, <3>1 DEF Max
  <2>2. CASE e >= Len(cells)
    <3>1. \E x \in {Len(cells), e} : \A y \in {Len(cells), e} : x >= y
      BY <1>1, <2>2
    <3> QED BY <1>1, <3>1 DEF Max
  <2> QED BY <1>1, <2>1, <2>2
<1>3. new = [n \in 1 .. m |->
               IF n - (at - 1) \in DOMAIN payload THEN payload[n - (at - 1)]
               ELSE IF n \in DOMAIN cells THEN cells[n] ELSE NoCell]
  BY DEF WriteAt, e
<1> HIDE DEF m
<1>4. NoCell \in FileCells
  BY DEF NoCell, FileCells, PackedPages
<1>5. new \in Seq(FileCells) /\ Len(new) = m
  <2>1. \A n \in 1 .. m : new[n] \in FileCells
    BY <1>2, <1>3, <1>4
  <2>2. DOMAIN new = 1 .. m
    BY <1>3
  <2>3. new \in [1 .. m -> FileCells]
    BY <1>3, <2>1, <2>2
  <2> QED BY ONLY <1>2, <2>3
<1>6. ASSUME NEW k \in 1 .. Len(payload) PROVE new[(at - 1) + k] = payload[k]
  <2>1. (at - 1) + k \in 1 .. m /\ ((at - 1) + k) - (at - 1) = k
    BY <1>1, <1>2 DEF e
  <2>2. k \in DOMAIN payload
    OBVIOUS
  <2> QED BY <1>3, <2>1, <2>2
<1>7. ASSUME NEW k \in 1 .. Len(cells), k < at \/ k > e PROVE new[k] = cells[k]
  <2>1. k \in 1 .. m /\ k \in DOMAIN cells
    BY <1>1, <1>2
  <2>2. k - (at - 1) \notin DOMAIN payload
    BY <1>1, <1>7 DEF e
  <2> QED BY <1>3, <2>1, <2>2
<1> QED BY <1>2, <1>5, <1>6, <1>7 DEF e

-----------------------------------------------------------------------------
(***************************************************************************)
(* A compilation.                                                          *)
(***************************************************************************)
Sound(j) == j \in Jobs(j.worker) /\ ProgressInv(j) /\ CellsInv(j) /\ ExtentsInv(j)

LEMMA JobFacts ==
  ASSUME NEW j, j \in Jobs(j.worker)
  PROVE  /\ j.at \in {"start", "join"} /\ j.version \in Version /\ j.file \in WdlFiles
         /\ j.next \in Nat \ {0} /\ j.cancelled \in BOOLEAN /\ j.created \in Nat
         /\ j.count \in Nat \ {0}
         /\ j.file.dictionary \in BOOLEAN /\ j.file.cells \in Seq(FileCells)
         /\ j.file.entry \in [Page -> FileEntries]
         /\ Len(j.file.cells) \in Nat
<1>1. j.file \in WdlFiles
  BY DEF Jobs
<1>2. j.file.cells \in Seq(FileCells)
  BY <1>1 DEF WdlFiles
<1> QED BY <1>1, <1>2 DEF Jobs, WdlFiles

LEMMA WorkerFacts ==
  ASSUME NEW j, j \in Jobs(j.worker), ProgressInv(j), NEW i \in Workers(j)
  PROVE  /\ j.worker[i] \in WorkerStates
         /\ j.worker[i].page \in Nat /\ j.worker[i].offset \in Nat
         /\ j.worker[i].failed \in BOOLEAN
         /\ j.worker[i].at \in {"batch", "payload", "directory", "done"}
         /\ Starts(j, i) \in 0 .. PageTotal /\ Starts(j, i + 1) \in 0 .. PageTotal
         /\ Starts(j, i) <= j.worker[i].page /\ j.worker[i].page <= Starts(j, i + 1)
         /\ BatchLength(j, i) \in Nat
         /\ j.worker[i].page + BatchLength(j, i) <= Starts(j, i + 1)
         /\ j.worker[i].page < Starts(j, i + 1) => BatchLength(j, i) > 0
         /\ BatchCells(j, i) \in Seq(FileCells) /\ Len(BatchCells(j, i)) \in Nat
<1>1. j.version \in Version /\ j.count \in Nat \ {0}
  BY JobFacts
<1>2. PageTotal \in Nat \ {0} /\ BatchPages \in Nat \ {0}
  BY WdlAssumption
<1>3. /\ j.worker[i] \in WorkerStates
      /\ Starts(j, i) <= j.worker[i].page /\ j.worker[i].page <= Starts(j, i + 1)
  BY DEF ProgressInv
<1>4. /\ j.worker[i].page \in Nat /\ j.worker[i].offset \in Nat /\ j.worker[i].failed \in BOOLEAN
      /\ j.worker[i].at \in {"batch", "payload", "directory", "done"}
  BY <1>3 DEF WorkerStates
<1>5. /\ i \in 0 .. j.count /\ i + 1 \in 0 .. j.count /\ j.count \in 0 .. j.count
      /\ i <= j.count /\ i + 1 <= j.count
  BY <1>1 DEF Workers
<1>6. Starts(j, i) \in 0 .. PageTotal /\ Starts(j, i + 1) \in 0 .. PageTotal
  <2>1. /\ Share(i, j.count, PageTotal) \in Nat /\ Share(i + 1, j.count, PageTotal) \in Nat
        /\ Share(i, j.count, PageTotal) <= Share(j.count, j.count, PageTotal)
        /\ Share(i + 1, j.count, PageTotal) <= Share(j.count, j.count, PageTotal)
        /\ Share(j.count, j.count, PageTotal) = PageTotal
    BY <1>1, <1>2, <1>5, ShareFacts
  <2> QED BY <1>2, <2>1 DEF Starts
<1>7. PICK left \in Nat : left = Starts(j, i + 1) - j.worker[i].page
  BY <1>2, <1>3, <1>4, <1>6
<1>8. BatchLength(j, i) = AtMost(left, BatchPages)
  BY <1>7 DEF BatchLength, Starts
<1>9. /\ BatchLength(j, i) \in Nat /\ BatchLength(j, i) <= left
      /\ left > 0 => BatchLength(j, i) > 0
  BY <1>2, <1>8, AtMostFacts
<1>10. j.worker[i].page + BatchLength(j, i) <= Starts(j, i + 1)
  BY <1>2, <1>4, <1>6, <1>7, <1>9
<1>11. BatchCells(j, i) \in Seq(FileCells)
  <2>1. j.worker[i].page + BatchLength(j, i) \in 0 .. PageTotal
    BY <1>2, <1>4, <1>6, <1>9, <1>10
  <2> QED BY <1>1, <1>4, <1>9, <2>1, CompressedStep DEF BatchCells
<1>12. j.worker[i].page < Starts(j, i + 1) => left > 0
  BY <1>2, <1>4, <1>6, <1>7
<1>13. Len(BatchCells(j, i)) \in Nat
  BY <1>11
<1> QED BY <1>3, <1>4, <1>6, <1>9, <1>10, <1>11, <1>12, <1>13

LEMMA BatchSame ==
  ASSUME NEW j, NEW k, NEW i, k.version = j.version, k.count = j.count,
         k.worker[i].page = j.worker[i].page
  PROVE  /\ BatchLength(k, i) = BatchLength(j, i) /\ BatchCells(k, i) = BatchCells(j, i)
         /\ k.worker[i].offset = j.worker[i].offset => Reserved(k, i) = Reserved(j, i)
BY DEF BatchLength, BatchCells, Reserved

(* A page that is there has its cells in the file.                         *)
LEMMA ExtentFacts ==
  ASSUME NEW f, NEW v \in Version, NEW page \in Page, PageHolds(f, v, page),
         f.entry[page] \in FileEntries, Len(f.cells) \in Nat
  PROVE  /\ Extent(f, page) \subseteq 1 .. Len(f.cells)
         /\ f.entry[page].sum = Packed[v][page]
         /\ Packed[v][page] = Draws => Extent(f, page) = {} /\ f.entry[page].offset = 0
         /\ Packed[v][page] # Draws =>
              /\ f.entry[page].offset > 0
              /\ Extent(f, page) = f.entry[page].offset ..
                                     (f.entry[page].offset - 1) + Len(CellsOf(v, page))
<1>1. CASE Packed[v][page] = Draws
  BY <1>1 DEF PageHolds, Extent, Implicit
<1>2. CASE Packed[v][page] # Draws
  <2>1. PICK at \in Nat : at = f.entry[page].offset
    BY DEF FileEntries
  <2>2. PICK n \in Nat \ {0} : n = SizeOf[Packed[v][page]] /\ n = Len(CellsOf(v, page))
    BY <1>2, CellsOfFacts
  <2>3. /\ at > 0 /\ f.entry[page].size = n /\ f.entry[page].sum = Packed[v][page]
        /\ \A k \in 1 .. n : (at - 1) + k <= Len(f.cells)
    BY <1>2, <2>1, <2>2 DEF PageHolds, Lies
  <2>4. (at - 1) + n <= Len(f.cells)
    <3>1. n \in 1 .. n
      BY <2>2
    <3> QED BY <2>3, <3>1
  <2>5. Extent(f, page) = at .. (at - 1) + n
    BY <2>1, <2>3 DEF Extent
  <2>6. Extent(f, page) \subseteq 1 .. Len(f.cells)
    BY <2>3, <2>4, <2>5
  <2> QED BY <1>2, <2>1, <2>2, <2>3, <2>5, <2>6
<1> QED BY <1>1, <1>2

(* What is placed or reserved lies below the next cell that is free.       *)
LEMMA PlacedBelow ==
  ASSUME NEW j, Sound(j), NEW a \in Placed(j)
  PROVE  Extent(j.file, a) \subseteq 1 .. Len(j.file.cells) /\ Extent(j.file, a) \subseteq 1 .. j.next - 1
<1>1. PageHolds(j.file, j.version, a) /\ a \in Page /\ Len(j.file.cells) < j.next
  BY DEF Sound, CellsInv, Placed
<1>2. j.version \in Version /\ j.file.entry[a] \in FileEntries /\ Len(j.file.cells) \in Nat /\ j.next \in Nat
  BY <1>1, JobFacts DEF Sound
<1>3. Extent(j.file, a) \subseteq 1 .. Len(j.file.cells)
  BY <1>1, <1>2, ExtentFacts
<1> QED BY <1>1, <1>2, <1>3

LEMMA ReservedBelow ==
  ASSUME NEW j, Sound(j), NEW i \in Holding(j)
  PROVE  Reserved(j, i) \subseteq 1 .. j.next - 1
<1>1. /\ j.worker[i].offset > 0 /\ j.worker[i].offset + Len(BatchCells(j, i)) <= j.next
      /\ i \in Workers(j)
  BY DEF Sound, CellsInv, Holding
<1>2. j.worker[i].offset \in Nat /\ Len(BatchCells(j, i)) \in Nat /\ j.next \in Nat
  BY <1>1, WorkerFacts, JobFacts DEF Sound
<1> QED BY <1>1, <1>2 DEF Reserved

(* A step that only lets workers end, or fail, takes nothing from others.  *)
LEMMA EndStep ==
  ASSUME NEW j, Sound(j), NEW k, k \in Jobs(k.worker), ProgressInv(k),
         k.version = j.version, k.file = j.file, k.next = j.next, k.count = j.count,
         \A i \in Workers(j) :
           /\ k.worker[i].page = j.worker[i].page
           /\ k.worker[i].offset = j.worker[i].offset
           /\ j.worker[i].failed => k.worker[i].failed
           /\ \/ k.worker[i].at = j.worker[i].at
              \/ k.worker[i].at = "done" /\ (j.worker[i].at = "batch" \/ k.worker[i].failed)
  PROVE  Sound(k)
<1>1. Workers(k) = Workers(j) /\ \A i : Starts(k, i) = Starts(j, i)
  BY DEF Workers, Starts
<1>2. Placed(k) = Placed(j)
  BY <1>1 DEF Placed
<1>3. \A i \in Workers(j) : /\ BatchCells(k, i) = BatchCells(j, i)
                            /\ Reserved(k, i) = Reserved(j, i)
  BY BatchSame
<1>4. /\ Holding(k) \subseteq Holding(j) /\ Holding(j) \subseteq Workers(j)
      /\ \A i \in Holding(k) : k.worker[i].at = j.worker[i].at
      /\ \A i \in Holding(j) : i \notin Holding(k) => k.worker[i].failed
  BY <1>1 DEF Holding
<1>5. CellsInv(k)
  BY <1>1, <1>2, <1>3, <1>4 DEF Sound, CellsInv
<1>6. ExtentsInv(k)
  <2>1. /\ \A a, b \in Placed(k) : a # b => Extent(k.file, a) \cap Extent(k.file, b) = {}
        /\ \A a \in Placed(k), i \in Holding(k) : Extent(k.file, a) \cap Reserved(k, i) = {}
        /\ \A i, l \in Holding(k) : i # l => Reserved(k, i) \cap Reserved(k, l) = {}
    BY <1>2, <1>3, <1>4 DEF Sound, ExtentsInv
  <2>2. ASSUME \A i \in Workers(k) : ~k.worker[i].failed, NEW c \in 1 .. k.next - 1
        PROVE  \/ \E page \in Placed(k) : c \in Extent(k.file, page)
               \/ \E i \in Holding(k) : c \in Reserved(k, i)
    <3>1. \A i \in Workers(j) : ~j.worker[i].failed
      BY <1>1, <2>2
    <3>2. \/ \E page \in Placed(j) : c \in Extent(j.file, page)
          \/ \E i \in Holding(j) : c \in Reserved(j, i)
      BY <2>2, <3>1 DEF Sound, ExtentsInv
    <3> QED BY <1>1, <1>2, <1>3, <1>4, <2>2, <3>2
  <2> QED BY <2>1, <2>2 DEF ExtentsInv
<1> QED BY <1>5, <1>6 DEF Sound

(* A batch gets the cells behind everything else.                          *)
LEMMA ReserveStep ==
  ASSUME NEW j, Sound(j), NEW k, k \in Jobs(k.worker), ProgressInv(k),
         k.version = j.version, k.file = j.file, k.count = j.count,
         NEW i \in Workers(j),
         j.worker[i].at = "batch", k.worker[i].at = "payload",
         k.worker[i].page = j.worker[i].page, k.worker[i].failed = j.worker[i].failed,
         k.worker[i].offset = j.next, k.next = j.next + Len(BatchCells(j, i)),
         \A l \in Workers(j) : l # i => k.worker[l] = j.worker[l]
  PROVE  Sound(k)
<1>1. Workers(k) = Workers(j) /\ \A l : Starts(k, l) = Starts(j, l)
  BY DEF Workers, Starts
<1>2. Placed(k) = Placed(j)
  BY <1>1 DEF Placed
<1>3. /\ \A l \in Workers(j) : BatchCells(k, l) = BatchCells(j, l)
      /\ \A l \in Workers(j) : l # i => Reserved(k, l) = Reserved(j, l)
  BY BatchSame
<1>4. Holding(k) = Holding(j) \cup {i} /\ i \notin Holding(j) /\ Holding(j) \subseteq Workers(j)
  BY <1>1 DEF Holding
<1>5. PICK n \in Nat : n = Len(BatchCells(j, i))
  BY WorkerFacts DEF Sound
<1>6. j.next \in Nat \ {0} /\ k.next = j.next + n /\ Len(j.file.cells) \in Nat
  BY <1>5, JobFacts DEF Sound
<1>7. Reserved(k, i) = j.next .. (j.next - 1) + n
  BY <1>3, <1>5 DEF Reserved
<1>8. CellsInv(k)
  <2>1. Len(k.file.cells) < k.next /\ k.file.dictionary = (k.version \in Trained)
    BY <1>6 DEF Sound, CellsInv
  <2>2. \A page \in Placed(k) : PageHolds(k.file, k.version, page)
    BY <1>2 DEF Sound, CellsInv
  <2>3. ASSUME NEW l \in Holding(k)
        PROVE  /\ k.worker[l].offset > 0
               /\ k.worker[l].offset + Len(BatchCells(k, l)) <= k.next
               /\ k.worker[l].at = "directory" =>
                    Lies(k.file.cells, k.worker[l].offset, BatchCells(k, l))
    <3>1. CASE l = i
      BY <1>3, <1>5, <1>6, <3>1
    <3>2. CASE l # i
      <4>1. l \in Holding(j) /\ l \in Workers(j) /\ k.worker[l] = j.worker[l]
        BY <1>4, <3>2
      <4>2. /\ j.worker[l].offset > 0 /\ j.worker[l].offset + Len(BatchCells(j, l)) <= j.next
            /\ j.worker[l].at = "directory" =>
                 Lies(j.file.cells, j.worker[l].offset, BatchCells(j, l))
        BY <4>1 DEF Sound, CellsInv
      <4>3. j.worker[l].offset \in Nat /\ Len(BatchCells(j, l)) \in Nat
        BY <4>1, WorkerFacts DEF Sound
      <4> QED BY <1>3, <1>6, <4>1, <4>2, <4>3
    <3> QED BY <3>1, <3>2
  <2> QED BY <2>1, <2>2, <2>3 DEF CellsInv
<1>9. ASSUME NEW a \in Placed(j) PROVE Extent(j.file, a) \subseteq 1 .. j.next - 1
  BY <1>9, PlacedBelow
<1>10. ASSUME NEW l \in Holding(j) PROVE Reserved(j, l) \subseteq 1 .. j.next - 1
  BY <1>10, ReservedBelow
<1>11. ExtentsInv(k)
  <2>0. ASSUME NEW X, X \subseteq 1 .. j.next - 1 PROVE X \cap Reserved(k, i) = {}
    BY <1>5, <1>6, <1>7, <2>0
  <2>1. \A a, b \in Placed(k) : a # b => Extent(k.file, a) \cap Extent(k.file, b) = {}
    BY <1>2 DEF Sound, ExtentsInv
  <2>2. ASSUME NEW a \in Placed(k), NEW l \in Holding(k)
        PROVE  Extent(k.file, a) \cap Reserved(k, l) = {}
    <3>1. CASE l = i
      BY <1>2, <1>9, <2>0, <3>1
    <3>2. CASE l # i
      BY <1>2, <1>3, <1>4, <3>2 DEF Sound, ExtentsInv
    <3> QED BY <3>1, <3>2
  <2>3. ASSUME NEW l \in Holding(k), NEW m \in Holding(k), l # m
        PROVE  Reserved(k, l) \cap Reserved(k, m) = {}
    <3>1. CASE l = i
      <4>1. m \in Holding(j) /\ Reserved(k, m) = Reserved(j, m)
        BY <1>3, <1>4, <2>3, <3>1
      <4>2. Reserved(k, m) \cap Reserved(k, i) = {}
        BY <1>10, <2>0, <4>1
      <4> QED BY <3>1, <4>2
    <3>2. CASE m = i
      <4>1. l \in Holding(j) /\ Reserved(k, l) = Reserved(j, l)
        BY <1>3, <1>4, <2>3, <3>2
      <4> QED BY <1>10, <2>0, <3>2, <4>1
    <3>3. CASE l # i /\ m # i
      BY <1>3, <1>4, <2>3, <3>3 DEF Sound, ExtentsInv
    <3> QED BY <3>1, <3>2, <3>3
  <2>4. ASSUME \A l \in Workers(k) : ~k.worker[l].failed, NEW c \in 1 .. k.next - 1
        PROVE  \/ \E page \in Placed(k) : c \in Extent(k.file, page)
               \/ \E l \in Holding(k) : c \in Reserved(k, l)
    <3>1. CASE c \in 1 .. j.next - 1
      <4>1. \A l \in Workers(j) : ~j.worker[l].failed
        BY <1>1, <2>4
      <4>2. \/ \E page \in Placed(j) : c \in Extent(j.file, page)
            \/ \E l \in Holding(j) : c \in Reserved(j, l)
        BY <3>1, <4>1 DEF Sound, ExtentsInv
      <4> QED BY <1>2, <1>3, <1>4, <4>2
    <3>2. CASE c \notin 1 .. j.next - 1
      <4>1. c \in Reserved(k, i)
        BY <1>6, <1>7, <2>4, <3>2
      <4> QED BY <1>4, <4>1
    <3> QED BY <3>1, <3>2
  <2> QED BY <2>1, <2>2, <2>3, <2>4 DEF ExtentsInv
<1> QED BY <1>8, <1>11 DEF Sound

(* Cells that are not touched hold what they held.                         *)
LEMMA LiesStill ==
  ASSUME NEW cells, NEW new, Len(cells) \in Nat, Len(new) \in Nat, Len(new) >= Len(cells),
         NEW at \in Nat, NEW payload, Len(payload) \in Nat, Lies(cells, at, payload),
         \A c \in 1 .. Len(cells) : c \in at .. (at - 1) + Len(payload) => new[c] = cells[c]
  PROVE  Lies(new, at, payload)
<1> SUFFICES ASSUME NEW k \in 1 .. Len(payload)
             PROVE  at > 0 /\ (at - 1) + k <= Len(new) /\ new[(at - 1) + k] = payload[k]
  BY DEF Lies
<1>1. at > 0 /\ (at - 1) + k <= Len(cells) /\ cells[(at - 1) + k] = payload[k]
  BY DEF Lies
<1>2. (at - 1) + k \in 1 .. Len(cells) /\ (at - 1) + k \in at .. (at - 1) + Len(payload)
  BY <1>1
<1>3. new[(at - 1) + k] = cells[(at - 1) + k]
  BY <1>2
<1> QED BY <1>1, <1>2, <1>3

(* A batch is written to the cells that it reserved.                       *)
LEMMA PayloadStep ==
  ASSUME NEW j, Sound(j), NEW k, k \in Jobs(k.worker), ProgressInv(k),
         k.version = j.version, k.next = j.next, k.count = j.count,
         k.file.entry = j.file.entry, k.file.dictionary = j.file.dictionary,
         NEW i \in Workers(j), j.worker[i].at = "payload", k.worker[i].at = "directory",
         k.worker[i].page = j.worker[i].page, k.worker[i].failed = j.worker[i].failed,
         k.worker[i].offset = j.worker[i].offset,
         k.file.cells = IF BatchCells(j, i) = << >> THEN j.file.cells
                        ELSE WriteAt(j.file.cells, j.worker[i].offset, BatchCells(j, i)),
         \A l \in Workers(j) : l # i => k.worker[l] = j.worker[l]
  PROVE  Sound(k)
<1>1. Workers(k) = Workers(j) /\ \A l : Starts(k, l) = Starts(j, l)
  BY DEF Workers, Starts
<1>2. \A l \in Workers(j) : /\ k.worker[l].page = j.worker[l].page
                            /\ k.worker[l].offset = j.worker[l].offset
                            /\ k.worker[l].failed = j.worker[l].failed
  OBVIOUS
<1>3. Placed(k) = Placed(j)
  BY <1>1, <1>2 DEF Placed
<1>4. \A l \in Workers(j) : BatchCells(k, l) = BatchCells(j, l) /\ Reserved(k, l) = Reserved(j, l)
  BY <1>2, BatchSame
<1>5. Holding(k) = Holding(j) /\ i \in Holding(j) /\ Holding(j) \subseteq Workers(j)
  BY <1>1 DEF Holding
<1>6. \A page \in Page : Extent(k.file, page) = Extent(j.file, page)
  BY DEF Extent
<1> DEFINE old == j.file.cells
           new == k.file.cells
           batch == BatchCells(j, i)
           at == j.worker[i].offset
<1>7. /\ old \in Seq(FileCells) /\ Len(old) \in Nat /\ j.next \in Nat /\ Len(old) < j.next
      /\ batch \in Seq(FileCells) /\ Len(batch) \in Nat
      /\ at \in Nat \ {0} /\ at + Len(batch) <= j.next
  <2>1. at > 0 /\ at + Len(batch) <= j.next /\ Len(old) < j.next
    BY <1>5 DEF Sound, CellsInv
  <2>2. at \in Nat /\ batch \in Seq(FileCells) /\ Len(batch) \in Nat
    BY WorkerFacts DEF Sound
  <2> QED BY <2>1, <2>2, JobFacts DEF Sound
<1>8. /\ Len(new) \in Nat /\ Len(new) >= Len(old) /\ Len(new) < j.next
      /\ \A c \in 1 .. Len(batch) : (at - 1) + c <= Len(new) /\ new[(at - 1) + c] = batch[c]
      /\ \A c \in 1 .. Len(old) : c \notin Reserved(j, i) => new[c] = old[c]
  <2>1. CASE batch = << >>
    <3>1. new = old /\ Len(batch) = 0
      BY <2>1
    <3> HIDE DEF batch, old, new, at
    <3> QED BY <1>7, <3>1
  <2>2. CASE batch # << >>
    <3>1. new = WriteAt(old, at, batch)
      BY <2>2
    <3> HIDE DEF batch, old, new, at
    <3>2. /\ new \in Seq(FileCells)
          /\ Len(new) >= Len(old) /\ Len(new) >= (at - 1) + Len(batch)
          /\ Len(new) = Len(old) \/ Len(new) = (at - 1) + Len(batch)
          /\ \A c \in 1 .. Len(batch) : new[(at - 1) + c] = batch[c]
          /\ \A c \in 1 .. Len(old) : c < at \/ c > (at - 1) + Len(batch) => new[c] = old[c]
      <4>1. old \in Seq(FileCells) /\ batch \in Seq(FileCells) /\ at \in Nat \ {0}
        BY <1>7
      <4> QED BY ONLY <3>1, <4>1, WriteAtFacts
    <3>3. Len(new) \in Nat
      BY <3>2
    <3>4. Len(new) < j.next
      BY <1>7, <3>2, <3>3
    <3>5. \A c \in 1 .. Len(batch) : (at - 1) + c <= Len(new)
      BY <1>7, <3>2, <3>3
    <3>6. Reserved(j, i) = at .. (at - 1) + Len(batch)
      BY DEF Reserved, batch, at
    <3>7. \A c \in 1 .. Len(old) : c \notin Reserved(j, i) => c < at \/ c > (at - 1) + Len(batch)
      BY <1>7, <3>6
    <3> QED BY <3>2, <3>3, <3>4, <3>5, <3>7
  <2> QED BY <2>1, <2>2
<1>9. CellsInv(k)
  <2>1. Len(k.file.cells) < k.next /\ k.file.dictionary = (k.version \in Trained)
    BY <1>8 DEF Sound, CellsInv
  <2>2. ASSUME NEW page \in Placed(k) PROVE PageHolds(k.file, k.version, page)
    <3>1. page \in Page /\ page \in Placed(j) /\ PageHolds(j.file, j.version, page)
      BY <1>3 DEF Sound, CellsInv, Placed
    <3>2. CASE Packed[j.version][page] = Draws
      BY <3>1, <3>2 DEF PageHolds
    <3>3. CASE Packed[j.version][page] # Draws
      <4>1. j.version \in Version /\ j.file.entry[page] \in FileEntries
        BY <3>1, JobFacts DEF Sound
      <4>2. PICK e \in Nat : e = j.file.entry[page].offset
        BY <4>1 DEF FileEntries
      <4>3. PICK payload : payload = CellsOf(j.version, page)
        OBVIOUS
      <4>4. Len(payload) \in Nat /\ Extent(j.file, page) = e .. (e - 1) + Len(payload)
        <5>1. Len(payload) \in Nat
          BY <3>1, <4>1, <4>3, CellsOfFacts
        <5>2. Len(j.file.cells) \in Nat
          BY <1>7
        <5>3. Extent(j.file, page) = j.file.entry[page].offset ..
                 (j.file.entry[page].offset - 1) + Len(CellsOf(j.version, page))
          BY <3>1, <3>3, <4>1, <5>2, ExtentFacts
        <5> QED BY <4>2, <4>3, <5>1, <5>3
      <4>5. Extent(j.file, page) \cap Reserved(j, i) = {}
        BY <1>5, <3>1 DEF Sound, ExtentsInv
      <4>6. Lies(old, e, payload)
        BY <3>1, <3>3, <4>2, <4>3 DEF PageHolds
      <4>7. \A c \in 1 .. Len(old) : c \in e .. (e - 1) + Len(payload) => new[c] = old[c]
        BY <1>8, <4>4, <4>5
      <4>8. Lies(new, e, payload)
        <5> HIDE DEF old, new
        <5> QED BY <1>7, <1>8, <4>4, <4>6, <4>7, LiesStill
      <4> QED BY <3>1, <3>3, <4>2, <4>3, <4>8 DEF PageHolds
    <3> QED BY <3>2, <3>3
  <2>3. ASSUME NEW l \in Holding(k)
        PROVE  /\ k.worker[l].offset > 0
               /\ k.worker[l].offset + Len(BatchCells(k, l)) <= k.next
               /\ k.worker[l].at = "directory" =>
                    Lies(k.file.cells, k.worker[l].offset, BatchCells(k, l))
    <3>1. l \in Holding(j) /\ l \in Workers(j)
      BY <1>5
    <3>2. /\ j.worker[l].offset > 0 /\ j.worker[l].offset + Len(BatchCells(j, l)) <= j.next
          /\ j.worker[l].at = "directory" =>
               Lies(j.file.cells, j.worker[l].offset, BatchCells(j, l))
      BY <3>1 DEF Sound, CellsInv
    <3>3. CASE l = i
      <4>1. Lies(new, at, batch)
        <5> HIDE DEF old, new, at, batch
        <5> QED BY <1>7, <1>8 DEF Lies
      <4> QED BY <1>4, <3>1, <3>2, <3>3, <4>1
    <3>4. CASE l # i
      <4>1. k.worker[l] = j.worker[l]
        BY <3>1, <3>4
      <4>2. ASSUME j.worker[l].at = "directory"
            PROVE  Lies(k.file.cells, j.worker[l].offset, BatchCells(j, l))
        <5>1. Reserved(j, l) \cap Reserved(j, i) = {}
          BY <1>5, <3>1, <3>4 DEF Sound, ExtentsInv
        <5>2. PICK e \in Nat : e = j.worker[l].offset
          BY <3>1, WorkerFacts DEF Sound
        <5>3. PICK payload : payload = BatchCells(j, l)
          OBVIOUS
        <5>4. Len(payload) \in Nat /\ Reserved(j, l) = e .. (e - 1) + Len(payload)
          BY <3>1, <5>2, <5>3, WorkerFacts DEF Sound, Reserved
        <5>5. Lies(old, e, payload)
          BY <3>2, <4>2, <5>2, <5>3
        <5>6. \A c \in 1 .. Len(old) : c \in e .. (e - 1) + Len(payload) => new[c] = old[c]
          BY <1>8, <5>1, <5>4
        <5>7. Lies(new, e, payload)
          <6> HIDE DEF old, new
          <6> QED BY <1>7, <1>8, <5>4, <5>5, <5>6, LiesStill
        <5> QED BY <5>2, <5>3, <5>7
      <4> QED BY <1>4, <3>1, <3>2, <4>1, <4>2
    <3> QED BY <3>3, <3>4
  <2> QED BY <2>1, <2>2, <2>3 DEF CellsInv
<1>10. ExtentsInv(k)
  <2>1. Placed(j) \subseteq Page
    BY DEF Placed
  <2> QED BY <1>1, <1>2, <1>3, <1>4, <1>5, <1>6, <2>1 DEF Sound, ExtentsInv
<1> QED BY <1>9, <1>10 DEF Sound

(* The entries of a batch lead to its pages, and share out what it         *)
(* reserved.                                                               *)
LEMMA BatchFacts ==
  ASSUME NEW j, Sound(j), NEW i \in Workers(j), j.worker[i].at = "directory",
         NEW f, f.cells = j.file.cells,
         \A page \in BatchOf(j, i) : f.entry[page] = EntryOf(j.version, j.worker[i], page)
  PROVE  /\ BatchOf(j, i) \subseteq Page
         /\ \A page \in BatchOf(j, i) :
              /\ f.entry[page] \in FileEntries /\ PageHolds(f, j.version, page)
              /\ Extent(f, page) \subseteq Reserved(j, i)
         /\ \A a, b \in BatchOf(j, i) : a # b => Extent(f, a) \cap Extent(f, b) = {}
         /\ \A c \in Reserved(j, i) : \E page \in BatchOf(j, i) : c \in Extent(f, page)
<1> DEFINE first == j.worker[i].page
           n == BatchLength(j, i)
           at == j.worker[i].offset
           v == j.version
           C(m) == Len(Compressed(v, first, m))
           G(m) == Len(CellsOf(v, first + m))
           E(m) == Extent(f, first + m)
<1>0. PageTotal \in Nat \ {0}
  BY WdlAssumption
<1>1. /\ v \in Version /\ first \in Nat /\ n \in Nat /\ first + n <= PageTotal /\ at \in Nat
  <2>1. first + n <= Starts(j, i + 1) /\ Starts(j, i + 1) \in 0 .. PageTotal
        /\ first \in Nat /\ n \in Nat /\ at \in Nat
    BY WorkerFacts DEF Sound
  <2> QED BY <1>0, <2>1, JobFacts DEF Sound
<1>2. /\ at > 0 /\ Lies(j.file.cells, at, BatchCells(j, i))
      /\ BatchCells(j, i) = Compressed(v, first, n)
      /\ Reserved(j, i) = at .. (at - 1) + C(n)
  <2>1. i \in Holding(j)
    BY DEF Holding
  <2> QED BY <2>1 DEF Sound, CellsInv, Reserved, BatchCells
<1>3. \A m \in 0 .. n : C(m) \in Nat /\ C(m) <= C(n)
  BY <1>1, CompressedFacts
<1>4. \A m \in 0 .. n - 1 : C(m + 1) = C(m) + G(m)
  BY <1>1, CompressedFacts
<1>5. \A m \in 0 .. n - 1 : \A k \in 1 .. G(m) :
        Compressed(v, first, n)[C(m) + k] = CellsOf(v, first + m)[k]
  BY <1>1, CompressedFacts
<1>6. \A c \in 1 .. C(n) : \E m \in 0 .. n - 1 : C(m) < c /\ c <= C(m) + G(m)
  BY <1>1, CompressedFacts
<1>7. BatchOf(j, i) = first .. first + n - 1
  BY DEF BatchOf
<1>8. ASSUME NEW m \in 0 .. n - 1 PROVE first + m \in Page /\ first + m \in BatchOf(j, i)
  BY <1>0, <1>1, <1>7 DEF Page
<1>9. ASSUME NEW page \in BatchOf(j, i) PROVE page - first \in 0 .. n - 1 /\ page = first + (page - first)
  BY <1>1, <1>7
<1>10. ASSUME NEW m \in 0 .. n - 1
       PROVE  /\ G(m) \in Nat /\ C(m) + G(m) <= C(n)
              /\ C(m) \in Nat
              /\ f.entry[first + m] \in FileEntries /\ PageHolds(f, v, first + m)
              /\ E(m) = at + C(m) .. (at + C(m) - 1) + G(m)
  <2> DEFINE page == first + m
             x == Packed[v][page]
  <2>1. page \in Page /\ page \in BatchOf(j, i)
    BY <1>8
  <2>2. /\ x \in PackedPages /\ G(m) \in Nat
        /\ x # Draws => SizeOf[x] \in Nat \ {0} /\ G(m) = SizeOf[x]
        /\ x = Draws => G(m) = 0
    BY <1>1, <2>1, CellsOfFacts
  <2>3. m \in 0 .. n /\ m + 1 \in 0 .. n
    BY <1>1
  <2>4. C(m) \in Nat /\ C(m + 1) <= C(n) /\ C(m + 1) = C(m) + G(m)
    BY <1>3, <1>4, <2>3
  <2>5. f.entry[page] = IF x = Draws THEN Implicit
                        ELSE [offset |-> at + C(m), size |-> SizeOf[x], sum |-> x]
    <3>1. page - first = m
      BY <1>1
    <3>2. f.entry[page] = EntryOf(v, j.worker[i], page)
      BY <2>1
    <3> QED BY <3>1, <3>2 DEF EntryOf
  <2>6. CASE x = Draws
    <3>1. f.entry[page] = Implicit /\ Implicit \in FileEntries
      BY <2>5, <2>6 DEF Implicit, FileEntries, PackedPages
    <3>2. E(m) = {}
      BY <3>1 DEF Extent, Implicit
    <3>3. at + C(m) .. (at + C(m) - 1) + G(m) = {}
      <4> HIDE DEF C, G, at
      <4> QED BY <1>1, <2>2, <2>4, <2>6
    <3>4. PageHolds(f, v, page)
      BY <2>6, <3>1 DEF PageHolds
    <3> QED BY <2>2, <2>4, <3>1, <3>2, <3>3, <3>4
  <2>7. CASE x # Draws
    <3>1. PICK o \in Nat \ {0} : o = at + C(m)
      <4>1. at \in Nat \ {0} /\ C(m) \in Nat
        BY <1>1, <1>2, <2>4
      <4> HIDE DEF C, at
      <4> QED BY ONLY <4>1
    <3>2. f.entry[page] = [offset |-> o, size |-> SizeOf[x], sum |-> x]
      BY <2>5, <2>7, <3>1
    <3>3. f.entry[page] \in FileEntries
      BY <2>2, <2>7, <3>1, <3>2 DEF FileEntries
    <3>4. E(m) = o .. (o - 1) + G(m)
      BY <2>2, <2>7, <3>1, <3>2 DEF Extent
    <3>5. ASSUME NEW k \in 1 .. G(m)
          PROVE  (o - 1) + k <= Len(f.cells) /\ f.cells[(o - 1) + k] = CellsOf(v, page)[k]
      <4>1. C(m) + k \in 1 .. C(n)
        <5>1. C(n) \in Nat
          BY <1>1, <1>3
        <5>2. C(m) + G(m) <= C(n)
          BY <2>4
        <5> HIDE DEF C, G
        <5> QED BY <2>2, <2>4, <5>1, <5>2, Within
      <4>2. PICK b \in 1 .. C(n) : b = C(m) + k
        BY <4>1
      <4>3. (at - 1) + b <= Len(f.cells) /\ f.cells[(at - 1) + b] = Compressed(v, first, n)[b]
        BY <1>2, <4>2 DEF Lies
      <4>4. (at - 1) + b = (o - 1) + k
        <5> HIDE DEF C, G, at
        <5> QED BY <1>1, <2>4, <3>1, <4>2
      <4>5. Compressed(v, first, n)[b] = CellsOf(v, page)[k]
        BY <1>5, <4>2
      <4> QED BY <4>3, <4>4, <4>5
    <3>6. Lies(f.cells, o, CellsOf(v, page))
      BY <3>1, <3>5 DEF Lies
    <3>7. f.entry[page].offset = o /\ f.entry[page].size = SizeOf[x] /\ f.entry[page].sum = x
      BY <3>2
    <3>8. PageHolds(f, v, page)
      BY <2>7, <3>1, <3>6, <3>7 DEF PageHolds
    <3>9. E(m) = at + C(m) .. (at + C(m) - 1) + G(m)
      <4> HIDE DEF C, G, E, at
      <4> QED BY <1>1, <2>4, <3>1, <3>4
    <3>10. f.entry[first + m] \in FileEntries /\ PageHolds(f, v, first + m)
      BY <3>3, <3>8
    <3>11. G(m) \in Nat /\ C(m) \in Nat /\ C(m) + G(m) <= C(n)
      BY <2>2, <2>4
    <3> HIDE DEF C, G, E
    <3> QED BY <3>9, <3>10, <3>11
  <2> QED BY <2>6, <2>7
<1> HIDE DEF C, G, E, at
<1>11. C(n) \in Nat
  BY <1>1, <1>3
<1>12. ASSUME NEW a \in 0 .. n - 1, NEW b \in 0 .. n - 1, a < b
       PROVE  E(a) \cap E(b) = {}
  <2>1. C(a + 1) <= C(b)
    <3>1. b \in Nat /\ first + b <= PageTotal /\ a + 1 \in 0 .. b
      BY <1>0, <1>1, <1>12
    <3> QED BY <1>1, <3>1, CompressedFacts DEF C
  <2>2. C(a + 1) = C(a) + G(a)
    BY <1>4
  <2>3. E(a) \subseteq at + C(a) .. (at + C(a) - 1) + G(a)
    BY <1>10
  <2>4. E(b) \subseteq at + C(b) .. (at + C(b) - 1) + G(b)
    BY <1>10
  <2>5. a \in 0 .. n /\ b \in 0 .. n /\ a + 1 \in 0 .. n
    BY ONLY <1>1, <1>12
  <2>6. C(a) \in Nat /\ C(b) \in Nat /\ C(a + 1) \in Nat
    BY <1>3, <2>5
  <2>7. PICK x \in Nat : x = C(a)
    BY <2>6
  <2>8. PICK y \in Nat : y = C(b)
    BY <2>6
  <2>9. PICK z \in Nat : z = C(a + 1)
    BY <2>6
  <2>10. G(a) \in Nat /\ z = x + G(a) /\ z <= y
    BY <1>10, <2>1, <2>2, <2>7, <2>8, <2>9
  <2>11. PICK k \in Nat : k = at
    BY <1>1, <1>2 DEF at
  <2>12. E(a) \subseteq k + x .. (k + x - 1) + G(a) /\ E(b) \subseteq k + y .. (k + y - 1) + G(b)
    BY <2>3, <2>4, <2>7, <2>8, <2>11
  <2> QED BY ONLY <2>10, <2>12, x \in Nat, y \in Nat, z \in Nat, k \in Nat
<1>13. ASSUME NEW m \in 0 .. n - 1 PROVE E(m) \subseteq Reserved(j, i)
  BY <1>1, <1>2, <1>10, <1>11
<1>14. ASSUME NEW c \in Reserved(j, i) PROVE \E m \in 0 .. n - 1 : c \in E(m)
  <2>1. c - (at - 1) \in 1 .. C(n)
    BY <1>1, <1>2, <1>11
  <2>2. PICK m \in 0 .. n - 1 : C(m) < c - (at - 1) /\ c - (at - 1) <= C(m) + G(m)
    BY <1>6, <2>1
  <2> QED BY <1>1, <1>2, <1>10, <1>11, <2>2
<1>15. BatchOf(j, i) \subseteq Page
  BY <1>8, <1>9
<1>16. \A page \in BatchOf(j, i) : /\ f.entry[page] \in FileEntries /\ PageHolds(f, v, page)
                                   /\ Extent(f, page) \subseteq Reserved(j, i)
  BY <1>9, <1>10, <1>13 DEF E
<1>17. ASSUME NEW a \in BatchOf(j, i), NEW b \in BatchOf(j, i), a # b
       PROVE  Extent(f, a) \cap Extent(f, b) = {}
  <2>1. PICK x \in 0 .. n - 1 : a = first + x
    BY <1>9
  <2>2. PICK y \in 0 .. n - 1 : b = first + y
    BY <1>9
  <2>3. x < y \/ y < x
    BY <1>1, <1>17, <2>1, <2>2
  <2>4. E(x) \cap E(y) = {}
    BY <1>12, <2>3
  <2> QED BY <2>1, <2>2, <2>4 DEF E
<1>18. \A c \in Reserved(j, i) : \E page \in BatchOf(j, i) : c \in Extent(f, page)
  BY <1>8, <1>14 DEF E
<1> QED BY <1>15, <1>16, <1>17, <1>18

(* A batch is placed: what it reserved is that of its pages.               *)
LEMMA EntriesStep ==
  ASSUME NEW j, Sound(j), NEW k, k \in Jobs(k.worker), ProgressInv(k),
         k.version = j.version, k.next = j.next, k.count = j.count,
         k.file.cells = j.file.cells, k.file.dictionary = j.file.dictionary,
         NEW i \in Workers(j), j.worker[i].at = "directory", k.worker[i].at = "batch",
         \A page \in Page : k.file.entry[page] =
           IF page \in BatchOf(j, i) THEN EntryOf(j.version, j.worker[i], page)
           ELSE j.file.entry[page],
         k.worker[i].page = j.worker[i].page + BatchLength(j, i),
         k.worker[i].failed = j.worker[i].failed,
         \A l \in Workers(j) : l # i => k.worker[l] = j.worker[l]
  PROVE  Sound(k)
<1>1. Workers(k) = Workers(j) /\ \A l : Starts(k, l) = Starts(j, l)
  BY DEF Workers, Starts
<1>2. \A l \in Workers(j) : l # i => BatchCells(k, l) = BatchCells(j, l) /\ Reserved(k, l) = Reserved(j, l)
  BY BatchSame
<1>3. i \in Holding(j) /\ Holding(k) = Holding(j) \ {i} /\ Holding(j) \subseteq Workers(j)
  BY <1>1 DEF Holding
<1>4. BatchOf(j, i) \subseteq Page
  <2>1. /\ j.worker[i].page \in Nat /\ BatchLength(j, i) \in Nat /\ PageTotal \in Nat
        /\ Starts(j, i + 1) \in 0 .. PageTotal
        /\ j.worker[i].page + BatchLength(j, i) <= Starts(j, i + 1)
    BY WorkerFacts, WdlAssumption DEF Sound
  <2> QED BY <2>1 DEF BatchOf, Page
<1>5. \A page \in BatchOf(j, i) : k.file.entry[page] = EntryOf(j.version, j.worker[i], page)
  BY <1>4
<1>6. /\ \A page \in BatchOf(j, i) :
           /\ PageHolds(k.file, j.version, page) /\ Extent(k.file, page) \subseteq Reserved(j, i)
      /\ \A a, b \in BatchOf(j, i) : a # b => Extent(k.file, a) \cap Extent(k.file, b) = {}
      /\ \A c \in Reserved(j, i) : \E page \in BatchOf(j, i) : c \in Extent(k.file, page)
  BY <1>5, BatchFacts
<1>7. /\ j.worker[i].page \in Nat /\ BatchLength(j, i) \in Nat /\ Starts(j, i) \in 0 .. PageTotal
      /\ Starts(j, i + 1) \in 0 .. PageTotal
      /\ Starts(j, i) <= j.worker[i].page
      /\ j.worker[i].page + BatchLength(j, i) <= Starts(j, i + 1)
  BY WorkerFacts DEF Sound
<1>8. BatchOf(j, i) = j.worker[i].page .. j.worker[i].page + BatchLength(j, i) - 1
  BY DEF BatchOf
<1>9. Placed(k) = Placed(j) \cup BatchOf(j, i)
  <2>1. ASSUME NEW page \in Placed(k) PROVE page \in Placed(j) \cup BatchOf(j, i)
    <3>1. page \in Page /\ page \in Nat
      BY DEF Placed, Page
    <3>2. PICK l \in Workers(j) : Starts(j, l) <= page /\ page < k.worker[l].page
      BY <1>1 DEF Placed
    <3>3. CASE l # i
      BY <3>1, <3>2, <3>3 DEF Placed
    <3>4. CASE l = i /\ page < j.worker[i].page
      BY <3>1, <3>2, <3>4 DEF Placed
    <3>5. CASE l = i /\ ~(page < j.worker[i].page)
      BY <1>7, <1>8, <3>1, <3>2, <3>5
    <3> QED BY <3>3, <3>4, <3>5
  <2>2. ASSUME NEW page \in Placed(j) PROVE page \in Placed(k)
    <3>1. page \in Page /\ page \in Nat
      BY DEF Placed, Page
    <3>2. PICK l \in Workers(j) : Starts(j, l) <= page /\ page < j.worker[l].page
      BY DEF Placed
    <3>3. page < k.worker[l].page
      BY <1>7, <3>1, <3>2
    <3> QED BY <1>1, <3>1, <3>2, <3>3 DEF Placed
  <2>3. ASSUME NEW page \in BatchOf(j, i) PROVE page \in Placed(k)
    <3>1. page \in Page /\ Starts(j, i) <= page /\ page < k.worker[i].page
      BY <1>4, <1>7, <1>8
    <3> QED BY <1>1, <3>1 DEF Placed
  <2> QED BY <2>1, <2>2, <2>3
<1>10. ASSUME NEW a \in Placed(j)
       PROVE  /\ a \in Page /\ a \notin BatchOf(j, i)
              /\ k.file.entry[a] = j.file.entry[a]
              /\ Extent(k.file, a) = Extent(j.file, a)
  <2>1. a \in Page /\ a \in Nat
    BY DEF Placed, Page
  <2>2. PICK l \in Workers(j) : Starts(j, l) <= a /\ a < j.worker[l].page
    BY DEF Placed
  <2>3. a \notin BatchOf(j, i)
    <3>1. CASE l = i
      BY <1>7, <1>8, <2>1, <2>2, <3>1
    <3>2. CASE l # i
      <4> SUFFICES ASSUME a \in BatchOf(j, i) PROVE FALSE
        OBVIOUS
      <4>1. Starts(j, i) <= a /\ a < Starts(j, i + 1)
        BY <1>7, <1>8, <2>1
      <4>2. /\ j.worker[l].page \in Nat /\ Starts(j, l + 1) \in 0 .. PageTotal
            /\ j.worker[l].page <= Starts(j, l + 1)
        BY WorkerFacts DEF Sound
      <4>3. Starts(j, l) <= a /\ a < Starts(j, l + 1)
        BY <2>1, <2>2, <4>2
      <4>4. j.count \in Nat \ {0} /\ PageTotal \in Nat
        BY JobFacts, WdlAssumption DEF Sound
      <4>5. i \in 0 .. j.count - 1 /\ l \in 0 .. j.count - 1
        BY DEF Workers
      <4> QED BY <2>1, <3>2, <4>1, <4>3, <4>4, <4>5, SharesApart DEF Starts
    <3> QED BY <3>1, <3>2
  <2>4. k.file.entry[a] = j.file.entry[a]
    BY <2>1, <2>3
  <2> QED BY <2>1, <2>3, <2>4 DEF Extent
<1>11. CellsInv(k)
  <2>1. Len(k.file.cells) < k.next /\ k.file.dictionary = (k.version \in Trained)
    BY DEF Sound, CellsInv
  <2>2. ASSUME NEW page \in Placed(k) PROVE PageHolds(k.file, k.version, page)
    <3>1. CASE page \in BatchOf(j, i)
      BY <1>6, <3>1
    <3>2. CASE page \in Placed(j)
      <4>1. PageHolds(j.file, j.version, page)
        BY <3>2 DEF Sound, CellsInv
      <4> QED BY <1>10, <3>2, <4>1 DEF PageHolds
    <3> QED BY <1>9, <3>1, <3>2
  <2>3. ASSUME NEW l \in Holding(k)
        PROVE  /\ k.worker[l].offset > 0
               /\ k.worker[l].offset + Len(BatchCells(k, l)) <= k.next
               /\ k.worker[l].at = "directory" =>
                    Lies(k.file.cells, k.worker[l].offset, BatchCells(k, l))
    <3>1. l \in Holding(j) /\ l \in Workers(j) /\ l # i /\ k.worker[l] = j.worker[l]
      BY <1>3
    <3>2. /\ j.worker[l].offset > 0 /\ j.worker[l].offset + Len(BatchCells(j, l)) <= j.next
          /\ j.worker[l].at = "directory" =>
               Lies(j.file.cells, j.worker[l].offset, BatchCells(j, l))
      BY <3>1 DEF Sound, CellsInv
    <3> QED BY <1>2, <3>1, <3>2
  <2> QED BY <2>1, <2>2, <2>3 DEF CellsInv
<1>12. ExtentsInv(k)
  <2>1. ASSUME NEW a \in Placed(k), NEW b \in Placed(k), a # b
        PROVE  Extent(k.file, a) \cap Extent(k.file, b) = {}
    <3>1. CASE a \in Placed(j) /\ b \in Placed(j)
      BY <1>10, <2>1, <3>1 DEF Sound, ExtentsInv
    <3>2. CASE a \in Placed(j) /\ b \in BatchOf(j, i)
      <4>1. Extent(j.file, a) \cap Reserved(j, i) = {}
        BY <1>3, <3>2 DEF Sound, ExtentsInv
      <4> QED BY <1>6, <1>10, <3>2, <4>1
    <3>3. CASE b \in Placed(j) /\ a \in BatchOf(j, i)
      <4>1. Extent(j.file, b) \cap Reserved(j, i) = {}
        BY <1>3, <3>3 DEF Sound, ExtentsInv
      <4> QED BY <1>6, <1>10, <3>3, <4>1
    <3>4. CASE a \in BatchOf(j, i) /\ b \in BatchOf(j, i)
      BY <1>6, <2>1, <3>4
    <3> QED BY <1>9, <3>1, <3>2, <3>3, <3>4
  <2>2. ASSUME NEW a \in Placed(k), NEW l \in Holding(k)
        PROVE  Extent(k.file, a) \cap Reserved(k, l) = {}
    <3>1. l \in Holding(j) /\ l # i /\ Reserved(k, l) = Reserved(j, l)
      BY <1>2, <1>3
    <3>2. CASE a \in Placed(j)
      BY <1>10, <3>1, <3>2 DEF Sound, ExtentsInv
    <3>3. CASE a \in BatchOf(j, i)
      <4>1. Reserved(j, i) \cap Reserved(j, l) = {}
        BY <1>3, <3>1 DEF Sound, ExtentsInv
      <4> QED BY <1>6, <3>1, <3>3, <4>1
    <3> QED BY <1>9, <3>2, <3>3
  <2>3. ASSUME NEW l \in Holding(k), NEW m \in Holding(k), l # m
        PROVE  Reserved(k, l) \cap Reserved(k, m) = {}
    BY <1>2, <1>3, <2>3 DEF Sound, ExtentsInv
  <2>4. ASSUME \A l \in Workers(k) : ~k.worker[l].failed, NEW c \in 1 .. k.next - 1
        PROVE  \/ \E page \in Placed(k) : c \in Extent(k.file, page)
               \/ \E l \in Holding(k) : c \in Reserved(k, l)
    <3>1. \A l \in Workers(j) : ~j.worker[l].failed
      BY <1>1, <2>4
    <3>2. \/ \E page \in Placed(j) : c \in Extent(j.file, page)
          \/ \E l \in Holding(j) : c \in Reserved(j, l)
      BY <2>4, <3>1 DEF Sound, ExtentsInv
    <3>3. CASE \E page \in Placed(j) : c \in Extent(j.file, page)
      BY <1>9, <1>10, <3>3
    <3>4. CASE c \in Reserved(j, i)
      BY <1>6, <1>9, <3>4
    <3>5. CASE \E l \in Holding(j) : l # i /\ c \in Reserved(j, l)
      BY <1>2, <1>3, <3>5
    <3> QED BY <3>2, <3>3, <3>4, <3>5
  <2> QED BY <2>1, <2>2, <2>3, <2>4 DEF ExtentsInv
<1> QED BY <1>11, <1>12 DEF Sound

(* A compilation that has just begun.                                      *)
LEMMA FreshJob ==
  ASSUME NEW v \in Version, NEW n \in Nat \ {0}, n <= PageTotal, NEW j,
         j = [at |-> "start", version |-> v, file |-> NewFile(v), next |-> 1,
              cancelled |-> FALSE, created |-> 0, count |-> n,
              worker |-> [i \in 0 .. n - 1 |->
                [at |-> "batch", page |-> Share(i, n, PageTotal), offset |-> 0, failed |-> FALSE]]]
  PROVE  Sound(j)
<1>0. PageTotal \in Nat \ {0}
  BY WdlAssumption
<1>1. Workers(j) = 0 .. n - 1 /\ \A i : Starts(j, i) = Share(i, n, PageTotal)
  BY DEF Workers, Starts
<1>2. ASSUME NEW i \in 0 .. n - 1
      PROVE  /\ Share(i, n, PageTotal) \in Nat /\ Share(i + 1, n, PageTotal) \in Nat
             /\ Share(i, n, PageTotal) <= Share(i + 1, n, PageTotal)
  <2>1. i \in 0 .. n /\ i + 1 \in 0 .. n /\ i <= i + 1
    OBVIOUS
  <2> QED BY <1>0, <2>1, ShareFacts
<1>3. NewFile(v) \in WdlFiles
  <2>1. Implicit \in FileEntries
    BY DEF Implicit, FileEntries, PackedPages
  <2> QED BY <2>1 DEF NewFile, WdlFiles
<1>4. j \in Jobs(j.worker)
  BY <1>3 DEF Jobs
<1>5. ASSUME NEW i \in 0 .. n - 1
      PROVE  j.worker[i] = [at |-> "batch", page |-> Share(i, n, PageTotal), offset |-> 0, failed |-> FALSE]
  OBVIOUS
<1>6. j.worker \in [Workers(j) -> WorkerStates]
  BY <1>1, <1>2, <1>5 DEF WorkerStates
<1>7. ProgressInv(j)
  <2>1. j.created <= j.count /\ (j.at = "start" => j.created < j.count) /\ j.cancelled = FALSE
    OBVIOUS
  <2>2. ASSUME NEW i \in Workers(j)
        PROVE  /\ Starts(j, i) <= j.worker[i].page /\ j.worker[i].page <= Starts(j, i + 1)
               /\ j.worker[i].at = "batch"
    <3>1. /\ i \in 0 .. n - 1 /\ j.worker[i].page = Share(i, n, PageTotal)
          /\ j.worker[i].at = "batch"
      BY <1>1, <1>5
    <3> QED BY <1>1, <1>2, <3>1
  <2> QED BY <1>6, <2>1, <2>2 DEF ProgressInv
<1>8. Holding(j) = {}
  BY <1>1, <1>5 DEF Holding
<1>9. Placed(j) = {}
  <2> SUFFICES ASSUME NEW page \in Placed(j) PROVE FALSE
    OBVIOUS
  <2>1. page \in Nat
    BY DEF Placed, Page
  <2>2. PICK i \in 0 .. n - 1 : Share(i, n, PageTotal) <= page /\ page < j.worker[i].page
    BY <1>1 DEF Placed
  <2> QED BY <1>2, <1>5, <2>1, <2>2
<1>10. Len(j.file.cells) = 0 /\ j.next = 1 /\ j.file.dictionary = (j.version \in Trained)
  BY DEF NewFile
<1>11. CellsInv(j)
  BY ONLY <1>8, <1>9, <1>10 DEF CellsInv
<1>12. ExtentsInv(j)
  <2>1. 1 .. j.next - 1 = {}
    BY <1>10
  <2> QED BY ONLY <1>8, <1>9, <2>1 DEF ExtentsInv
<1> QED BY <1>4, <1>7, <1>11, <1>12 DEF Sound

(* A compilation that has ended without a failure has made a whole file.   *)
LEMMA CompleteProjects ==
  ASSUME NEW j, Sound(j), j.created = j.count,
         \A i \in 0 .. j.created - 1 : j.worker[i].at = "done",
         \A i \in DOMAIN j.worker : ~j.worker[i].failed
  PROVE  Projects(j.file, j.version)
<1>1. Workers(j) = 0 .. j.created - 1 /\ DOMAIN j.worker = Workers(j)
  BY DEF Workers, Sound, ProgressInv
<1>2. /\ j.created \in Nat /\ j.count \in Nat \ {0} /\ j.cancelled \in BOOLEAN
      /\ j.version \in Version /\ j.file \in WdlFiles /\ j.next \in Nat
      /\ Len(j.file.cells) \in Nat /\ PageTotal \in Nat
  BY JobFacts, WdlAssumption DEF Sound
<1>3. ~j.cancelled
  BY <1>1, <1>2 DEF Sound, ProgressInv
<1>4. \A i \in Workers(j) : j.worker[i].page = Starts(j, i + 1)
  BY <1>1, <1>3 DEF Sound, ProgressInv
<1>5. Holding(j) = {}
  BY <1>1 DEF Holding
<1>6. Placed(j) = Page
  <2>1. ASSUME NEW page \in Page PROVE page \in Placed(j)
    <3>1. page \in 0 .. PageTotal - 1
      BY DEF Page
    <3>2. PICK i \in 0 .. j.count - 1 : /\ Share(i, j.count, PageTotal) <= page
                                        /\ page < Share(i + 1, j.count, PageTotal)
      BY <1>2, <3>1, SharesCover
    <3> QED BY <1>4, <3>2 DEF Placed, Starts, Workers
  <2> QED BY <2>1 DEF Placed
<1>7. /\ Len(j.file.cells) < j.next /\ j.file.dictionary = (j.version \in Trained)
      /\ \A page \in Page : PageHolds(j.file, j.version, page)
  BY <1>6 DEF Sound, CellsInv
<1>8. \A a, b \in Page : a # b => Extent(j.file, a) \cap Extent(j.file, b) = {}
  BY <1>6 DEF Sound, ExtentsInv
<1>9. ASSUME NEW c \in 1 .. Len(j.file.cells) PROVE \E page \in Page : c \in Extent(j.file, page)
  <2>1. c \in 1 .. j.next - 1
    BY <1>2, <1>7
  <2>2. \A i \in Workers(j) : ~j.worker[i].failed
    BY <1>1
  <2> QED BY <1>5, <1>6, <2>1, <2>2 DEF Sound, ExtentsInv
<1> QED BY <1>2, <1>7, <1>8, <1>9 DEF Projects

-----------------------------------------------------------------------------
(***************************************************************************)
(* The steps of a worker.                                                  *)
(***************************************************************************)

(* One worker goes on, and nothing else of the progress changes.           *)
LEMMA ProgressStep ==
  ASSUME NEW j, ProgressInv(j), NEW i \in Workers(j), NEW k, NEW w \in WorkerStates,
         k.count = j.count, k.created = j.created, k.at = j.at,
         k.worker = [j.worker EXCEPT ![i] = w],
         j.cancelled => k.cancelled, k.cancelled => j.cancelled \/ w.failed,
         j.worker[i].failed => w.failed,
         Starts(j, i) <= w.page, w.page <= Starts(j, i + 1),
         w.at \in {"payload", "directory"} => w.page < Starts(j, i + 1),
         w.at = "done" => k.cancelled \/ w.failed \/ w.page = Starts(j, i + 1)
  PROVE  ProgressInv(k)
<1>1. Workers(k) = Workers(j) /\ \A l : Starts(k, l) = Starts(j, l)
  BY DEF Workers, Starts
<1>2. j.worker \in [Workers(j) -> WorkerStates]
  BY DEF ProgressInv
<1>3. k.worker \in [Workers(k) -> WorkerStates] /\ k.worker[i] = w
  BY <1>1, <1>2
<1>4. \A l \in Workers(j) : l # i => k.worker[l] = j.worker[l]
  BY <1>2
<1>5. k.created <= k.count /\ (k.at = "start" => k.created < k.count)
  BY DEF ProgressInv
<1>6. k.cancelled => \/ \E l \in Workers(k) : k.worker[l].failed
                     \/ k.created < k.count /\ k.at = "join"
  <2>1. CASE w.failed
    BY <1>1, <1>3, <2>1
  <2>2. CASE ~w.failed
    <3>1. k.cancelled => j.cancelled
      BY <2>2
    <3>2. j.cancelled => \/ \E l \in Workers(j) : j.worker[l].failed
                         \/ j.created < j.count /\ j.at = "join"
      BY DEF ProgressInv
    <3>3. \A l \in Workers(j) : j.worker[l].failed => k.worker[l].failed
      BY <1>3, <1>4
    <3> QED BY <1>1, <3>1, <3>2, <3>3
  <2> QED BY <2>1, <2>2
<1>7. ASSUME NEW l \in Workers(k)
      PROVE  /\ Starts(k, l) <= k.worker[l].page /\ k.worker[l].page <= Starts(k, l + 1)
             /\ k.worker[l].at \in {"payload", "directory"} => k.worker[l].page < Starts(k, l + 1)
             /\ k.worker[l].at = "done" =>
                  \/ k.cancelled \/ k.worker[l].failed \/ k.worker[l].page = Starts(k, l + 1)
  <2>1. CASE l = i
    BY <1>1, <1>3, <2>1
  <2>2. CASE l # i
    <3>1. k.worker[l] = j.worker[l] /\ l \in Workers(j)
      BY <1>1, <1>4, <2>2
    <3>2. j.cancelled => k.cancelled
      OBVIOUS
    <3>3. /\ Starts(j, l) <= j.worker[l].page /\ j.worker[l].page <= Starts(j, l + 1)
          /\ j.worker[l].at \in {"payload", "directory"} => j.worker[l].page < Starts(j, l + 1)
          /\ j.worker[l].at = "done" =>
               \/ j.cancelled \/ j.worker[l].failed \/ j.worker[l].page = Starts(j, l + 1)
      BY <3>1 DEF ProgressInv
    <3> QED BY <1>1, <3>1, <3>2, <3>3
  <2> QED BY <2>1, <2>2
<1> QED BY <1>3, <1>5, <1>6, <1>7 DEF ProgressInv

(* What a compilation is after a change of a worker and of the file.       *)
LEMMA JobIs ==
  ASSUME NEW j, j \in Jobs(j.worker), NEW worker, NEW file \in WdlFiles, NEW next \in Nat \ {0},
         NEW cancelled \in BOOLEAN,
         NEW k, k = [j EXCEPT !.worker = worker, !.file = file, !.next = next, !.cancelled = cancelled]
  PROVE  /\ k \in Jobs(k.worker) /\ k.worker = worker /\ k.file = file /\ k.next = next
         /\ k.cancelled = cancelled /\ k.version = j.version /\ k.count = j.count
         /\ k.created = j.created /\ k.at = j.at
BY DEF Jobs

(* A worker that works belongs to a compilation that is sound.             *)
LEMMA WorkingFacts ==
  ASSUME NEW p \in Process, NEW i \in Nat, JobInv(job[p]), Working(p, i)
  PROVE  /\ Sound(job[p]) /\ i \in Workers(job[p]) /\ job[p] \in Jobs(job[p].worker)
         /\ job[p].worker[i] \in WorkerStates
         /\ job[p].worker \in [Workers(job[p]) -> WorkerStates]
<1>1. job[p].at \in {"start", "join"} /\ i < job[p].created
  BY DEF Working, Started
<1>2. job[p] # NoJob /\ job[p] # Reopening
  BY <1>1 DEF NoJob, Reopening
<1>3. Sound(job[p])
  BY <1>2 DEF JobInv, Sound
<1>4. job[p].created \in Nat /\ job[p].count \in Nat /\ job[p].created <= job[p].count
  BY <1>3, JobFacts DEF Sound, ProgressInv
<1>5. i \in Workers(job[p])
  BY <1>1, <1>4 DEF Workers
<1> QED BY <1>3, <1>5 DEF Sound, ProgressInv

LEMMA ReserveIsSound ==
  ASSUME NEW p \in Process, DOMAIN job = Process, JobInv(job[p]), NEW i \in Nat, ReserveCells(p, i)
  PROVE  \E k : Sound(k) /\ job' = [job EXCEPT ![p] = k]
<1> DEFINE j == job[p]
           n == Len(BatchCells(j, i))
           w == j.worker[i]
<1>1. Working(p, i) /\ w.at = "batch"
  BY DEF ReserveCells
<1>2. Sound(j) /\ i \in Workers(j) /\ j \in Jobs(j.worker) /\ w \in WorkerStates
      /\ j.worker \in [Workers(j) -> WorkerStates] /\ ProgressInv(j)
  BY <1>1, WorkingFacts DEF Sound
<1>3. /\ w.page \in Nat /\ Starts(j, i) <= w.page /\ w.page <= Starts(j, i + 1) /\ n \in Nat
      /\ Starts(j, i + 1) \in 0 .. PageTotal
      /\ BatchLength(j, i) \in Nat
      /\ w.page + BatchLength(j, i) <= Starts(j, i + 1)
      /\ w.page < Starts(j, i + 1) => BatchLength(j, i) > 0
  BY <1>2, WorkerFacts
<1>4. CASE j.cancelled \/ BatchOf(j, i) = {}
  <2> DEFINE new == [w EXCEPT !.at = "done"]
             k == [j EXCEPT !.worker[i].at = "done"]
  <2>1. job' = [job EXCEPT ![p] = k]
    BY <1>4 DEF ReserveCells
  <2>2. new \in WorkerStates /\ new.page = w.page /\ new.offset = w.offset /\ new.failed = w.failed
        /\ new.at = "done"
    BY <1>2 DEF WorkerStates
  <2>3. /\ k \in Jobs(k.worker) /\ k.worker = [j.worker EXCEPT ![i] = new]
        /\ k.version = j.version /\ k.file = j.file /\ k.next = j.next /\ k.count = j.count
        /\ k.created = j.created /\ k.at = j.at /\ k.cancelled = j.cancelled
    BY <1>2 DEF Jobs
  <2>4. j.cancelled \/ w.page = Starts(j, i + 1)
    <3>1. CASE BatchOf(j, i) = {}
      <4>1. ~(BatchLength(j, i) > 0)
        BY <1>3, <3>1 DEF BatchOf
      <4>2. ~(w.page < Starts(j, i + 1))
        BY <1>3, <4>1
      <4> QED BY <1>3, <4>2
    <3> QED BY <1>4, <3>1
  <2>5. ASSUME NEW l \in Workers(j)
        PROVE  (l = i => k.worker[l] = new) /\ (l # i => k.worker[l] = j.worker[l])
    BY <1>2, <2>3
  <2> HIDE DEF k, new
  <2>6. ProgressInv(k)
    <3>1. w.failed => new.failed
      BY <2>2
    <3>2. Starts(j, i) <= new.page /\ new.page <= Starts(j, i + 1)
      BY <1>3, <2>2
    <3>3. k.cancelled \/ new.page = Starts(j, i + 1)
      BY <2>2, <2>3, <2>4
    <3>4. (j.cancelled => k.cancelled) /\ (k.cancelled => j.cancelled \/ new.failed)
      BY <2>3
    <3> QED BY <1>2, <2>2, <2>3, <3>1, <3>2, <3>3, <3>4, ProgressStep
  <2>7. Sound(k)
    BY <1>1, <1>2, <2>2, <2>3, <2>5, <2>6, EndStep
  <2> QED BY <2>1, <2>7
<1>5. CASE ~(j.cancelled \/ BatchOf(j, i) = {})
  <2> DEFINE new == [w EXCEPT !.at = "payload", !.offset = j.next]
             k == [j EXCEPT !.worker[i].at = "payload", !.worker[i].offset = j.next, !.next = @ + n]
  <2>1. job' = [job EXCEPT ![p] = k]
    <3>1. job' = [job EXCEPT ![p].worker[i].at = "payload", ![p].worker[i].offset = job[p].next,
                             ![p].next = @ + Len(BatchCells(job[p], i))]
      BY <1>5, Zenon DEF ReserveCells
    <3> QED BY <1>2, <3>1 DEF Jobs
  <2>2. j.next \in Nat \ {0} /\ j.next + n \in Nat \ {0}
    BY <1>2, <1>3, JobFacts
  <2>3. new \in WorkerStates /\ new.page = w.page /\ new.offset = j.next /\ new.failed = w.failed
        /\ new.at = "payload"
    BY <1>2, <2>2 DEF WorkerStates
  <2>4. /\ k \in Jobs(k.worker) /\ k.worker = [j.worker EXCEPT ![i] = new]
        /\ k.version = j.version /\ k.file = j.file /\ k.next = j.next + n /\ k.count = j.count
        /\ k.created = j.created /\ k.at = j.at /\ k.cancelled = j.cancelled
    BY <1>2, <2>2 DEF Jobs
  <2>5. w.page < Starts(j, i + 1)
    <3>1. BatchLength(j, i) # 0
      BY <1>3, <1>5 DEF BatchOf
    <3> QED BY <1>3, <3>1
  <2>6. ASSUME NEW l \in Workers(j)
        PROVE  (l = i => k.worker[l] = new) /\ (l # i => k.worker[l] = j.worker[l])
    BY <1>2, <2>4
  <2> HIDE DEF k, new
  <2>7. ProgressInv(k)
    <3>1. w.failed => new.failed
      BY <2>3
    <3>2. /\ Starts(j, i) <= new.page /\ new.page <= Starts(j, i + 1)
          /\ new.page < Starts(j, i + 1) /\ new.at # "done"
      BY <1>3, <2>3, <2>5
    <3>3. (j.cancelled => k.cancelled) /\ (k.cancelled => j.cancelled \/ new.failed)
      BY <2>4
    <3> QED BY <1>2, <2>3, <2>4, <3>1, <3>2, <3>3, ProgressStep
  <2>8. Sound(k)
    BY <1>1, <1>2, <2>3, <2>4, <2>6, <2>7, ReserveStep
  <2> QED BY <2>1, <2>8
<1> QED BY <1>4, <1>5

LEMMA PayloadIsSound ==
  ASSUME NEW p \in Process, DOMAIN job = Process, JobInv(job[p]), NEW i \in Nat, WritePayload(p, i)
  PROVE  \E k : Sound(k) /\ job' = [job EXCEPT ![p] = k]
<1> DEFINE j == job[p]
           w == j.worker[i]
           batch == BatchCells(j, i)
           cells == IF batch = << >> THEN j.file.cells ELSE WriteAt(j.file.cells, w.offset, batch)
           new == [w EXCEPT !.at = "directory"]
           k == [j EXCEPT !.worker[i].at = "directory", !.file.cells = cells]
<1>1. Working(p, i) /\ w.at = "payload"
  BY DEF WritePayload
<1>2. Sound(j) /\ i \in Workers(j) /\ j \in Jobs(j.worker) /\ w \in WorkerStates
      /\ j.worker \in [Workers(j) -> WorkerStates] /\ ProgressInv(j)
  BY <1>1, WorkingFacts DEF Sound
<1>3. /\ w.page \in Nat /\ Starts(j, i) <= w.page /\ w.page <= Starts(j, i + 1)
      /\ w.page < Starts(j, i + 1)
      /\ batch \in Seq(FileCells) /\ w.offset \in Nat
  BY <1>1, <1>2, WorkerFacts DEF ProgressInv
<1>4. job' = [job EXCEPT ![p] = k]
  BY <1>2 DEF WritePayload, Jobs, WdlFiles
<1>5. new \in WorkerStates /\ new.page = w.page /\ new.offset = w.offset /\ new.failed = w.failed
      /\ new.at = "directory"
  BY <1>2 DEF WorkerStates
<1>6. cells \in Seq(FileCells)
  <2>1. w.offset \in Nat \ {0}
    <3>1. i \in Holding(j)
      BY <1>1, <1>2 DEF Holding
    <3>2. w.offset > 0
      BY <1>2, <3>1 DEF Sound, CellsInv
    <3> QED BY <1>3, <3>2
  <2>2. j.file.cells \in Seq(FileCells)
    BY <1>2, JobFacts
  <2>3. WriteAt(j.file.cells, w.offset, batch) \in Seq(FileCells)
    BY <1>3, <2>1, <2>2, WriteAtFacts
  <2> QED BY <2>2, <2>3
<1> HIDE DEF cells
<1>7. [j.file EXCEPT !.cells = cells] \in WdlFiles
  BY <1>2, <1>6, JobFacts DEF WdlFiles
<1>8. /\ k \in Jobs(k.worker) /\ k.worker = [j.worker EXCEPT ![i] = new]
      /\ k.file = [j.file EXCEPT !.cells = cells]
      /\ k.version = j.version /\ k.next = j.next /\ k.count = j.count
      /\ k.created = j.created /\ k.at = j.at /\ k.cancelled = j.cancelled
  BY <1>2, <1>7 DEF Jobs
<1>9. k.file.cells = cells /\ k.file.entry = j.file.entry /\ k.file.dictionary = j.file.dictionary
  <2>1. j.file \in WdlFiles
    BY <1>2, JobFacts
  <2> HIDE DEF k
  <2> QED BY <1>8, <2>1 DEF WdlFiles
<1>10. ASSUME NEW l \in Workers(j)
       PROVE  (l = i => k.worker[l] = new) /\ (l # i => k.worker[l] = j.worker[l])
  BY <1>2, <1>8
<1> HIDE DEF k, new
<1>11. ProgressInv(k)
  <2>1. w.failed => new.failed
    BY <1>5
  <2>2. /\ Starts(j, i) <= new.page /\ new.page <= Starts(j, i + 1)
        /\ new.page < Starts(j, i + 1) /\ new.at # "done"
    BY <1>3, <1>5
  <2>3. (j.cancelled => k.cancelled) /\ (k.cancelled => j.cancelled \/ new.failed)
    BY <1>8
  <2> QED BY <1>2, <1>5, <1>8, <2>1, <2>2, <2>3, ProgressStep
<1>12. k.file.cells = IF BatchCells(j, i) = << >> THEN j.file.cells
                      ELSE WriteAt(j.file.cells, j.worker[i].offset, BatchCells(j, i))
  BY <1>9 DEF cells
<1>13. Sound(k)
  <2>1. /\ k.worker[i].at = "directory" /\ k.worker[i].page = w.page
        /\ k.worker[i].failed = w.failed /\ k.worker[i].offset = w.offset
    BY <1>2, <1>5, <1>10
  <2>2. \A l \in Workers(j) : l # i => k.worker[l] = j.worker[l]
    BY <1>10
  <2> HIDE DEF batch
  <2> QED BY <1>1, <1>2, <1>8, <1>9, <1>11, <1>12, <2>1, <2>2, PayloadStep
<1> QED BY <1>4, <1>13

LEMMA EntriesIsSound ==
  ASSUME NEW p \in Process, DOMAIN job = Process, JobInv(job[p]), NEW i \in Nat, WriteEntries(p, i)
  PROVE  \E k : Sound(k) /\ job' = [job EXCEPT ![p] = k]
<1> DEFINE j == job[p]
           w == j.worker[i]
           n == BatchLength(j, i)
           entry == [page \in Page |-> IF page \in BatchOf(j, i)
                                       THEN EntryOf(j.version, w, page) ELSE j.file.entry[page]]
           new == [w EXCEPT !.at = "batch", !.page = w.page + n]
           k == [j EXCEPT !.file.entry = entry, !.worker[i].at = "batch",
                          !.worker[i].page = w.page + n]
<1>1. Working(p, i) /\ w.at = "directory"
  BY DEF WriteEntries
<1>2. Sound(j) /\ i \in Workers(j) /\ j \in Jobs(j.worker) /\ w \in WorkerStates
      /\ j.worker \in [Workers(j) -> WorkerStates] /\ ProgressInv(j)
  BY <1>1, WorkingFacts DEF Sound
<1>3. /\ w.page \in Nat /\ Starts(j, i) <= w.page /\ w.page + n <= Starts(j, i + 1)
      /\ n \in Nat /\ w.offset \in Nat /\ Starts(j, i) \in 0 .. PageTotal
  BY <1>1, <1>2, WorkerFacts
<1>4. job' = [job EXCEPT ![p] = k]
  BY <1>2 DEF WriteEntries, Jobs, WdlFiles
<1>5. new \in WorkerStates /\ new.page = w.page + n /\ new.failed = w.failed /\ new.at = "batch"
  <2>1. w.page + n \in Nat
    BY <1>3
  <2> HIDE DEF w, n
  <2> QED BY <1>2, <2>1 DEF WorkerStates
<1>6. j.file \in WdlFiles /\ j.file.entry \in [Page -> FileEntries]
  BY <1>2, JobFacts
<1>7. entry \in [Page -> FileEntries]
  <2>1. ASSUME NEW page \in Page PROVE entry[page] \in FileEntries
    <3>1. CASE page \in BatchOf(j, i)
      <4> DEFINE f == [j.file EXCEPT !.entry = entry]
      <4>1. f.cells = j.file.cells /\ f.entry = entry
        BY <1>6 DEF WdlFiles
      <4>2. BatchOf(j, i) \subseteq Page
        <5>1. Starts(j, i + 1) \in 0 .. PageTotal /\ PageTotal \in Nat
          BY <1>2, WorkerFacts, WdlAssumption
        <5> QED BY <1>3, <5>1 DEF BatchOf, Page
      <4>3. \A a \in BatchOf(j, i) : entry[a] = EntryOf(j.version, w, a)
        BY <4>2
      <4> HIDE DEF entry, f
      <4>4. f.entry[page] \in FileEntries
        BY <1>1, <1>2, <3>1, <4>1, <4>3, BatchFacts
      <4> QED BY <4>1, <4>4
    <3>2. CASE page \notin BatchOf(j, i)
      BY <1>6, <3>2
    <3> QED BY <3>1, <3>2
  <2> QED BY <2>1
<1>8. \A page \in Page : entry[page] = IF page \in BatchOf(j, i) THEN EntryOf(j.version, w, page)
                                       ELSE j.file.entry[page]
  OBVIOUS
<1> HIDE DEF entry
<1>9. [j.file EXCEPT !.entry = entry] \in WdlFiles
  BY <1>6, <1>7 DEF WdlFiles
<1>10. /\ k \in Jobs(k.worker) /\ k.worker = [j.worker EXCEPT ![i] = new]
       /\ k.file = [j.file EXCEPT !.entry = entry]
       /\ k.version = j.version /\ k.next = j.next /\ k.count = j.count
       /\ k.created = j.created /\ k.at = j.at /\ k.cancelled = j.cancelled
  BY <1>2, <1>9 DEF Jobs
<1>11. k.file.entry = entry /\ k.file.cells = j.file.cells /\ k.file.dictionary = j.file.dictionary
  <2> HIDE DEF k
  <2> QED BY <1>6, <1>10 DEF WdlFiles
<1>12. ASSUME NEW l \in Workers(j)
       PROVE  (l = i => k.worker[l] = new) /\ (l # i => k.worker[l] = j.worker[l])
  BY <1>2, <1>10
<1> HIDE DEF k, new
<1>13. ProgressInv(k)
  <2>1. Starts(j, i) <= new.page /\ new.page <= Starts(j, i + 1)
    BY <1>3, <1>5
  <2>2. (w.failed => new.failed) /\ new.at # "done" /\ new.at \notin {"payload", "directory"}
    BY <1>5
  <2>3. (j.cancelled => k.cancelled) /\ (k.cancelled => j.cancelled \/ new.failed)
    BY <1>10
  <2> QED BY <1>2, <1>5, <1>10, <2>1, <2>2, <2>3, ProgressStep
<1>14. Sound(k)
  <2>1. /\ k.worker[i].at = "batch" /\ k.worker[i].page = w.page + n
        /\ k.worker[i].failed = w.failed
    BY <1>2, <1>5, <1>12
  <2>2. \A l \in Workers(j) : l # i => k.worker[l] = j.worker[l]
    BY <1>12
  <2>3. \A page \in Page : k.file.entry[page] =
          IF page \in BatchOf(j, i) THEN EntryOf(j.version, j.worker[i], page)
          ELSE j.file.entry[page]
    BY <1>8, <1>11
  <2>4. k \in Jobs(k.worker) /\ k.version = j.version /\ k.next = j.next /\ k.count = j.count
    BY <1>10
  <2>5. k.file.cells = j.file.cells /\ k.file.dictionary = j.file.dictionary
    BY <1>11
  <2> HIDE DEF j
  <2> QED BY <1>1, <1>2, <1>13, <2>1, <2>2, <2>3, <2>4, <2>5, EntriesStep
<1> QED BY <1>4, <1>14

LEMMA FailureIsSound ==
  ASSUME NEW p \in Process, DOMAIN job = Process, JobInv(job[p]), NEW i \in Nat, WorkerFails(p, i)
  PROVE  \E k : Sound(k) /\ job' = [job EXCEPT ![p] = k]
<1> DEFINE j == job[p]
           w == j.worker[i]
           new == [w EXCEPT !.at = "done", !.failed = TRUE]
           k == [j EXCEPT !.worker[i].at = "done", !.worker[i].failed = TRUE, !.cancelled = TRUE]
<1>1. Working(p, i) /\ w.at # "done"
  BY DEF WorkerFails
<1>2. Sound(j) /\ i \in Workers(j) /\ j \in Jobs(j.worker) /\ w \in WorkerStates
      /\ j.worker \in [Workers(j) -> WorkerStates] /\ ProgressInv(j)
  BY <1>1, WorkingFacts DEF Sound
<1>3. /\ w.page \in Nat /\ Starts(j, i) <= w.page /\ w.page <= Starts(j, i + 1)
  BY <1>2, WorkerFacts
<1>4. job' = [job EXCEPT ![p] = k]
  BY <1>2 DEF WorkerFails, Jobs
<1>5. new \in WorkerStates /\ new.page = w.page /\ new.offset = w.offset /\ new.failed = TRUE
      /\ new.at = "done"
  BY <1>2 DEF WorkerStates
<1>6. /\ k \in Jobs(k.worker) /\ k.worker = [j.worker EXCEPT ![i] = new] /\ k.file = j.file
      /\ k.version = j.version /\ k.next = j.next /\ k.count = j.count
      /\ k.created = j.created /\ k.at = j.at /\ k.cancelled = TRUE
  BY <1>2 DEF Jobs
<1>7. ASSUME NEW l \in Workers(j)
      PROVE  (l = i => k.worker[l] = new) /\ (l # i => k.worker[l] = j.worker[l])
  <2> HIDE DEF k, new, j
  <2> QED BY <1>2, <1>6
<1> HIDE DEF k, new
<1>8. ProgressInv(k)
  BY <1>2, <1>3, <1>5, <1>6, ProgressStep
<1>9. Sound(k)
  BY <1>2, <1>5, <1>6, <1>7, <1>8, EndStep
<1> QED BY <1>4, <1>9

-----------------------------------------------------------------------------
(***************************************************************************)
(* Every step of every process.                                            *)
(***************************************************************************)
LEMMA JobKept ==
  ASSUME DOMAIN job = Process, \A q \in Process : JobInv(job[q]),
         NEW p \in Process, NEW k, JobInv(k), job' = [job EXCEPT ![p] = k]
  PROVE  DOMAIN job' = Process /\ \A q \in Process : JobInv(job'[q])
OBVIOUS

LEMMA IdleIsSound == JobInv(NoJob) /\ JobInv(Reopening)
BY DEF JobInv

LEMMA StartFacts ==
  ASSUME NEW p \in Process, JobInv(job[p]), job[p].at \in {"start", "join"}
  PROVE  Sound(job[p])
<1>1. job[p] # NoJob /\ job[p] # Reopening
  BY DEF NoJob, Reopening
<1> QED BY <1>1 DEF JobInv, Sound

(* Workers are started one by one, and the start of one may fail.          *)
LEMMA StartIsSound ==
  ASSUME NEW p \in Process, DOMAIN job = Process, JobInv(job[p]), StartWorker(p) \/ StartFails(p)
  PROVE  \E k : Sound(k) /\ job' = [job EXCEPT ![p] = k]
<1> DEFINE j == job[p]
<1>1. j.at = "start"
  BY DEF StartWorker, StartFails
<1>2. Sound(j) /\ j \in Jobs(j.worker) /\ ProgressInv(j)
  BY <1>1, StartFacts DEF Sound
<1>3. j.created \in Nat /\ j.count \in Nat \ {0} /\ j.created < j.count
  BY <1>1, <1>2, JobFacts DEF ProgressInv
<1>4. CASE StartWorker(p)
  <2> DEFINE next == IF j.created + 1 = j.count THEN "join" ELSE "start"
             k == [j EXCEPT !.created = @ + 1, !.at = next]
  <2>0. next \in {"start", "join"} /\ j.created + 1 \in Nat
    BY <1>3
  <2>1. job' = [job EXCEPT ![p] = k]
    BY <1>2, <1>4 DEF StartWorker, Jobs
  <2>2. /\ k \in Jobs(k.worker) /\ k.worker = j.worker /\ k.version = j.version /\ k.file = j.file
        /\ k.next = j.next /\ k.cancelled = j.cancelled /\ k.count = j.count
        /\ k.created = j.created + 1 /\ k.at = next
    <3> HIDE DEF next
    <3> QED BY <1>2, <2>0 DEF Jobs
  <2>3. /\ next = "start" => j.created + 1 < j.count
        /\ j.created + 1 <= j.count
    BY <1>3
  <2> HIDE DEF k, next
  <2>4. Workers(k) = Workers(j) /\ \A l : Starts(k, l) = Starts(j, l)
    BY <2>2 DEF Workers, Starts
  <2>5. j.cancelled => \E l \in Workers(j) : j.worker[l].failed
    BY <1>1, <1>2 DEF ProgressInv
  <2>6. ProgressInv(k)
    BY <1>2, <2>2, <2>3, <2>4, <2>5 DEF ProgressInv
  <2>7. Sound(k)
    BY <1>2, <2>2, <2>6, EndStep
  <2> QED BY <2>1, <2>7
<1>5. CASE StartFails(p)
  <2> DEFINE k == [j EXCEPT !.cancelled = TRUE, !.at = "join"]
  <2>1. job' = [job EXCEPT ![p] = k]
    BY <1>2, <1>5 DEF StartFails, Jobs
  <2>2. /\ k \in Jobs(k.worker) /\ k.worker = j.worker /\ k.version = j.version /\ k.file = j.file
        /\ k.next = j.next /\ k.cancelled = TRUE /\ k.count = j.count
        /\ k.created = j.created /\ k.at = "join"
    BY <1>2 DEF Jobs
  <2> HIDE DEF k
  <2>3. Workers(k) = Workers(j) /\ \A l : Starts(k, l) = Starts(j, l)
    BY <2>2 DEF Workers, Starts
  <2>4. ProgressInv(k)
    BY <1>2, <1>3, <2>2, <2>3 DEF ProgressInv
  <2>5. Sound(k)
    BY <1>2, <2>2, <2>4, EndStep
  <2> QED BY <2>1, <2>5
<1> QED BY <1>4, <1>5

LEMMA CompileIsSound ==
  ASSUME NEW p \in Process, DOMAIN job = Process, dtm \in Version, Compile(p)
  PROVE  \E k : Sound(k) /\ job' = [job EXCEPT ![p] = k]
<1>1. PICK n : n = AtMost(Threads[p], PageTotal)
  OBVIOUS
<1>2. n \in Nat \ {0} /\ n <= PageTotal
  <2>1. Threads[p] \in Nat \ {0} /\ PageTotal \in Nat \ {0}
    BY WdlAssumption
  <2>2. /\ AtMost(Threads[p], PageTotal) \in Nat /\ AtMost(Threads[p], PageTotal) <= PageTotal
        /\ AtMost(Threads[p], PageTotal) > 0
    BY <2>1, AtMostFacts
  <2> QED BY <1>1, <2>2
<1>3. PICK k : k = [at |-> "start", version |-> dtm, file |-> NewFile(dtm), next |-> 1,
                    cancelled |-> FALSE, created |-> 0, count |-> n,
                    worker |-> [i \in 0 .. n - 1 |->
                      [at |-> "batch", page |-> Share(i, n, PageTotal), offset |-> 0, failed |-> FALSE]]]
  OBVIOUS
<1>4. Sound(k)
  BY <1>2, <1>3, FreshJob
<1>5. job' = [job EXCEPT ![p] = k]
  BY <1>1, <1>3 DEF Compile
<1> QED BY <1>4, <1>5

LEMMA PublishFacts ==
  ASSUME NEW p \in Process, DOMAIN job = Process, JobInv(job[p]), PublishFile(p)
  PROVE  wdl' = job[p].file /\ job[p].version \in Version /\ Projects(job[p].file, job[p].version)
<1>1. Joined(p) /\ Complete(p) /\ wdl' = job[p].file
  BY DEF PublishFile
<1>2. Sound(job[p])
  BY <1>1, StartFacts DEF Joined
<1>3. Projects(job[p].file, job[p].version)
  BY <1>1, <1>2, CompleteProjects DEF Joined, Complete
<1> QED BY <1>1, <1>2, <1>3, JobFacts DEF Sound

(* What is read of a file that is there.                                   *)
LEMMA ReadFacts ==
  ASSUME NEW v \in Version, NEW f, Projects(f, v)
  PROVE  /\ f \in WdlFiles /\ f # NoFile
         /\ \A page \in Page : Readable(f, page) /\ f.entry[page].sum = Packed[v][page]
         /\ Decoded(f) = Packed[v] /\ Decoded(f) # NoFile
<1>1. f \in WdlFiles /\ f # NoFile
  BY WdlAssumption DEF Projects
<1>2. f.cells \in Seq(FileCells) /\ f.entry \in [Page -> FileEntries] /\ Len(f.cells) \in Nat
  <2>1. f.cells \in Seq(FileCells) /\ f.entry \in [Page -> FileEntries]
    BY <1>1 DEF WdlFiles
  <2> QED BY <2>1
<1>3. ASSUME NEW page \in Page PROVE Readable(f, page) /\ f.entry[page].sum = Packed[v][page]
  <2>1. PageHolds(f, v, page) /\ f.dictionary = (v \in Trained)
    BY DEF Projects
  <2>2. f.entry[page].sum = Packed[v][page]
    BY <1>2, <2>1, ExtentFacts
  <2>3. CASE Packed[v][page] = Draws
    <3>1. f.entry[page].offset = 0
      BY <2>1, <2>3 DEF PageHolds, Implicit
    <3> QED BY <2>2, <3>1 DEF Readable
  <2>4. CASE Packed[v][page] # Draws
    <3> DEFINE x == Packed[v][page]
               payload == CellsOf(v, page)
    <3>1. PICK at \in Nat : at = f.entry[page].offset
      BY <1>2 DEF FileEntries
    <3>2. PICK n \in Nat \ {0} : n = SizeOf[x] /\ n = Len(payload)
      BY <2>4, CellsOfFacts
    <3>3. /\ at > 0 /\ f.entry[page].size = n
          /\ \A c \in 1 .. n : (at - 1) + c <= Len(f.cells) /\ f.cells[(at - 1) + c] = payload[c]
      BY <2>1, <2>4, <3>1, <3>2 DEF PageHolds, Lies
    <3>4. (at - 1) + n <= Len(f.cells)
      <4>1. n \in 1 .. n
        BY <3>2
      <4> QED BY <3>3, <4>1
    <3>5. PICK s : s = SubSeq(f.cells, at, (at - 1) + n)
      OBVIOUS
    <3>6. /\ s \in Seq(FileCells) /\ Len(s) = n
          /\ \A c \in 1 .. n : s[c] = f.cells[at + c - 1]
      <4>1. \A c \in at .. (at - 1) + n : f.cells[c] \in FileCells
        BY <1>2, <3>3, <3>4
      <4>2. at \in Int /\ (at - 1) + n \in Int
        BY <3>1, <3>2
      <4>3. /\ s \in Seq(FileCells)
            /\ Len(s) = IF at <= (at - 1) + n THEN (at - 1) + n - at + 1 ELSE 0
            /\ \A c \in 1 .. (at - 1) + n - at + 1 : s[c] = f.cells[at + c - 1]
        <5>1. PICK e \in Int : e = (at - 1) + n
          BY <4>2
        <5>2. \A c \in at .. e : f.cells[c] \in FileCells
          BY <4>1, <5>1
        <5>3. /\ SubSeq(f.cells, at, e) \in Seq(FileCells)
              /\ Len(SubSeq(f.cells, at, e)) = IF at <= e THEN e - at + 1 ELSE 0
              /\ \A c \in 1 .. e - at + 1 : SubSeq(f.cells, at, e)[c] = f.cells[at + c - 1]
          BY ONLY <4>2, <5>2, SubSeqProperties
        <5> QED BY <3>5, <5>1, <5>3
      <4>4. (at - 1) + n - at + 1 = n /\ at <= (at - 1) + n
        BY ONLY at \in Nat, n \in Nat \ {0}
      <4> QED BY <4>3, <4>4
    <3>7. payload \in Seq(FileCells)
      BY CellsOfFacts
    <3> HIDE DEF payload
    <3>8. \A c \in 1 .. n : s[c] = payload[c]
      <4> SUFFICES ASSUME NEW c \in 1 .. n PROVE s[c] = payload[c]
        OBVIOUS
      <4>1. at + c - 1 = (at - 1) + c
        BY <3>1, <3>2
      <4> QED BY <3>3, <3>6, <4>1
    <3>9. s = payload
      BY <3>2, <3>6, <3>7, <3>8, SeqEqual
    <3>10. payload = Payload(x, f.dictionary)
      BY <2>1, <2>4 DEF CellsOf, payload
    <3> QED BY <2>2, <3>1, <3>3, <3>4, <3>5, <3>9, <3>10 DEF Readable
  <2> QED BY <2>3, <2>4
<1>4. Packed[v] \in [Page -> PackedPages]
  BY WdlAssumption
<1>5. Decoded(f) = Packed[v]
  BY <1>3, <1>4 DEF Decoded
<1>6. Decoded(f) # NoFile
  BY <1>4, <1>5, WdlAssumption
<1> QED BY <1>1, <1>3, <1>5, <1>6

(* A new handle has a cache that is empty; an image has none.              *)
LEMMA CacheFacts ==
  /\ [s \in 0 .. AtMost(CachePages, PageTotal) - 1 |-> NoPage] \in PageCaches
  /\ << >> \in PageCaches
<1>1. PageTotal \in Nat \ {0} /\ CachePages \in Nat \ {0}
  BY WdlAssumption
<1>2. AtMost(CachePages, PageTotal) \in 0 .. PageTotal
  BY <1>1, AtMostFacts
<1>3. PICK k \in 0 .. PageTotal : k = AtMost(CachePages, PageTotal)
  BY <1>2
<1>4. [s \in 0 .. k - 1 |-> NoPage] \in [0 .. k - 1 -> 0 .. PageTotal]
  BY <1>1 DEF NoPage
<1>5. << >> \in [0 .. 0 - 1 -> 0 .. PageTotal]
  OBVIOUS
<1>6. 0 \in 0 .. PageTotal
  BY <1>1
<1> QED BY <1>3, <1>4, <1>5, <1>6 DEF PageCaches

(* The slot of a page is in the cache, and may have that page or none.      *)
LEMMA SlotInCache ==
  ASSUME NEW cache \in PageCaches, cache # << >>, NEW page \in Page
  PROVE  /\ page % Cardinality(DOMAIN cache) \in DOMAIN cache
         /\ \A n \in {page, NoPage} :
              [cache EXCEPT ![page % Cardinality(DOMAIN cache)] = n] \in PageCaches
<1>1. PICK k \in 0 .. PageTotal : cache \in [0 .. k - 1 -> 0 .. PageTotal]
  BY DEF PageCaches
<1>2. PageTotal \in Nat /\ page \in Nat /\ {page, NoPage} \subseteq 0 .. PageTotal
  BY WdlAssumption DEF Page, NoPage
<1>3. k \in Nat \ {0}
  <2>1. CASE k = 0
    <3>1. cache = << >>
      BY <1>1, <2>1
    <3> QED BY <3>1
  <2> QED BY <1>2, <2>1
<1>4. Cardinality(DOMAIN cache) = k
  <2>1. 0 \in Int /\ k - 1 \in Int /\ DOMAIN cache = 0 .. k - 1
    BY <1>1, <1>3
  <2> QED BY <1>3, <2>1, FS_Interval
<1>5. page % k \in 0 .. k - 1
  BY <1>2, <1>3
<1>6. \A n \in {page, NoPage} :
        [cache EXCEPT ![page % k] = n] \in [0 .. k - 1 -> 0 .. PageTotal]
  BY <1>1, <1>2, <1>5
<1> QED BY <1>1, <1>4, <1>5, <1>6 DEF PageCaches

LEMMA FirstVersion == Min(Version) \in Version
<1>1. Version \in SUBSET Nat /\ Version # {}
  BY WdlAssumption
<1>2. \E x \in Version : \A y \in Version : x <= y
  <2>1. PICK v : v \in Version
    BY <1>1
  <2> QED BY <1>1, <2>1, LeastNatural
<1> QED BY <1>2 DEF Min

LEMMA WdlInvInit == WdlInit => WdlInv
<1> SUFFICES ASSUME WdlInit PROVE WdlInv
  OBVIOUS
<1>1. dtm = Min(Version) /\ wdl = NoFile /\ size = [p \in Process |-> 0]
      /\ job = [p \in Process |-> NoJob] /\ handle = [p \in Process |-> NoHandle]
  BY DEF WdlInit, WdlFrom
<1> QED BY <1>1, IdleIsSound, FirstVersion DEF WdlInv

(* The image of a file has all its cells.                                  *)
LEMMA ImageIsFile ==
  ASSUME NEW p \in Process, wdl \in WdlFiles
  PROVE  LET n == AtMost(Threads[p], Bytes(wdl))
             done == UNION {ShareOf(i, n, Bytes(wdl)) : i \in 0 .. n - 1}
         IN  [wdl EXCEPT !.cells = [k \in DOMAIN @ |-> IF k \in done THEN @[k] ELSE NoCell]] = wdl
<1> DEFINE n == AtMost(Threads[p], Bytes(wdl))
           done == UNION {ShareOf(i, n, Bytes(wdl)) : i \in 0 .. n - 1}
<1>1. wdl.cells \in Seq(FileCells)
  BY DEF WdlFiles
<1>2. Bytes(wdl) = 1 + Len(wdl.cells) /\ Len(wdl.cells) \in Nat /\ Bytes(wdl) \in Nat \ {0}
  BY <1>1 DEF Bytes
<1>3. Threads[p] \in Nat \ {0}
  BY WdlAssumption
<1>4. n \in Nat \ {0}
  <2>1. AtMost(Threads[p], Bytes(wdl)) \in Nat /\ AtMost(Threads[p], Bytes(wdl)) > 0
    <3>1. PICK limit \in Nat \ {0} : limit = Bytes(wdl)
      BY <1>2
    <3>2. AtMost(Threads[p], limit) \in Nat /\ AtMost(Threads[p], limit) > 0
      BY <1>3, AtMostFacts
    <3> QED BY <3>1, <3>2
  <2> QED BY <2>1
<1> HIDE DEF n
<1>5. done = 0 .. Bytes(wdl) - 1
  BY <1>2, <1>4, SharesTogether
<1> HIDE DEF done
<1>6. ASSUME NEW k \in DOMAIN wdl.cells PROVE k \in done
  <2>1. PICK length \in Nat : length = Len(wdl.cells)
    BY <1>2
  <2>2. DOMAIN wdl.cells = 1 .. length
    BY <1>1, <2>1
  <2>3. k \in 1 .. length
    BY <2>2
  <2>4. done = 0 .. length
    <3>1. Bytes(wdl) - 1 = length
      BY ONLY <1>2, <2>1
    <3> QED BY ONLY <1>5, <3>1
  <2> QED BY ONLY <2>3, <2>4, length \in Nat
<1>7. [k \in DOMAIN wdl.cells |-> IF k \in done THEN wdl.cells[k] ELSE NoCell] = wdl.cells
  BY <1>1, <1>6
<1>8. [wdl EXCEPT !.cells = [k \in DOMAIN wdl.cells |->
         IF k \in done THEN wdl.cells[k] ELSE NoCell]] = wdl
  BY <1>7 DEF WdlFiles
<1> QED BY <1>8 DEF n, done

(* An open table.                                                          *)
HandleInv(h) == \/ h = NoHandle
                \/ h \in WdlHandles /\ \E v \in Version : Projects(h.file, v)

LEMMA WdlInvNext == WdlInv /\ [WdlNext]_wdlVars => WdlInv'
<1> SUFFICES ASSUME WdlInv, [WdlNext]_wdlVars PROVE WdlInv'
  OBVIOUS
<1> USE DEF WdlInv, HandleInv
<1>1. CASE ReplaceTable
  BY <1>1 DEF ReplaceTable
<1>2. ASSUME NEW p \in Process, NEW k, Sound(k), job' = [job EXCEPT ![p] = k],
             UNCHANGED <<dtm, wdl, handle, size>>
      PROVE  WdlInv'
  <2>1. JobInv(k)
    BY <1>2 DEF JobInv, Sound
  <2>2. DOMAIN job' = Process /\ \A q \in Process : JobInv(job'[q])
    BY <1>2, <2>1, JobKept
  <2> QED BY <1>2, <2>2
<1>3. ASSUME NEW p \in Process, Compile(p) PROVE WdlInv'
  <2>1. \E k : Sound(k) /\ job' = [job EXCEPT ![p] = k]
    BY <1>3, CompileIsSound
  <2> QED BY <1>2, <1>3, <2>1 DEF Compile
<1>4. ASSUME NEW p \in Process, StartWorker(p) \/ StartFails(p) PROVE WdlInv'
  <2>1. \E k : Sound(k) /\ job' = [job EXCEPT ![p] = k]
    BY <1>4, StartIsSound
  <2> QED BY <1>2, <1>4, <2>1 DEF StartWorker, StartFails
<1>5. ASSUME NEW p \in Process, NEW i \in Nat,
             ReserveCells(p, i) \/ WritePayload(p, i) \/ WriteEntries(p, i) \/ WorkerFails(p, i)
      PROVE  WdlInv'
  <2>1. \E k : Sound(k) /\ job' = [job EXCEPT ![p] = k]
    BY <1>5, ReserveIsSound, PayloadIsSound, EntriesIsSound, FailureIsSound
  <2>2. UNCHANGED <<dtm, wdl, handle, size>>
    BY <1>5 DEF ReserveCells, WritePayload, WriteEntries, WorkerFails
  <2> QED BY <1>2, <2>1, <2>2
<1>6. ASSUME NEW p \in Process, PublishFile(p) PROVE WdlInv'
  <2>1. wdl' = job[p].file /\ job[p].version \in Version /\ Projects(job[p].file, job[p].version)
    BY <1>6, PublishFacts
  <2>2. DOMAIN job' = Process /\ \A q \in Process : JobInv(job'[q])
    BY <1>6, IdleIsSound, JobKept DEF PublishFile
  <2>3. wdl' # NoFile
    BY <2>1, ReadFacts
  <2> QED BY <1>6, <2>1, <2>2, <2>3 DEF PublishFile
<1>7. ASSUME NEW p \in Process, GiveUp(p) PROVE WdlInv'
  <2>1. DOMAIN job' = Process /\ \A q \in Process : JobInv(job'[q])
    BY <1>7, IdleIsSound, JobKept DEF GiveUp
  <2> QED BY <1>7, <2>1 DEF GiveUp
<1>8. ASSUME NEW p \in Process, NEW h, HandleInv(h), handle' = [handle EXCEPT ![p] = h]
      PROVE  /\ DOMAIN handle' = Process
             /\ \A q \in Process :
                  \/ handle'[q] = NoHandle
                  \/ handle'[q] \in WdlHandles /\ \E v \in Version : Projects(handle'[q].file, v)
  BY <1>8
<1>9. ASSUME NEW p \in Process, OpenTable(p) PROVE WdlInv'
  <2> DEFINE cache == [s \in 0 .. AtMost(CachePages, PageTotal) - 1 |-> NoPage]
             h == [file |-> wdl, cache |-> cache]
  <2>1. \E v \in Version : Projects(wdl, v)
    BY <1>9 DEF OpenTable
  <2>2. wdl \in WdlFiles /\ cache \in PageCaches
    BY <2>1, ReadFacts, CacheFacts
  <2> HIDE DEF cache
  <2>3. HandleInv(h)
    BY <2>1, <2>2 DEF WdlHandles
  <2>4. handle' = [handle EXCEPT ![p] = h]
    BY <1>9 DEF OpenTable, cache
  <2>5. DOMAIN job' = Process /\ \A q \in Process : JobInv(job'[q])
    BY <1>9, IdleIsSound, JobKept DEF OpenTable
  <2> HIDE DEF h
  <2> QED BY <1>8, <1>9, <2>3, <2>4, <2>5 DEF OpenTable
<1>10. ASSUME NEW p \in Process, NEW page \in Page, Get(p, page) PROVE WdlInv'
  <2> DEFINE slot == page % Cardinality(DOMAIN handle[p].cache)
             cache == [handle[p].cache EXCEPT ![slot] = page]
             h == [handle[p] EXCEPT !.cache = cache]
  <2>1. handle[p] \in WdlHandles /\ \E v \in Version : Projects(handle[p].file, v)
    BY <1>10 DEF Get
  <2>2. handle[p].cache \in PageCaches /\ handle[p].cache # << >> /\ handle[p].file \in WdlFiles
    BY <1>10, <2>1 DEF Get, WdlHandles
  <2>3. cache \in PageCaches
    BY <2>2, SlotInCache
  <2>4. handle' = [handle EXCEPT ![p] = h]
    BY <1>10, <2>1 DEF Get, WdlHandles
  <2> HIDE DEF cache
  <2>5. HandleInv(h)
    BY <2>1, <2>3 DEF WdlHandles
  <2> HIDE DEF h
  <2> QED BY <1>8, <1>10, <2>4, <2>5 DEF Get
<1>11. ASSUME NEW p \in Process, Decompress(p) PROVE WdlInv'
  BY <1>11 DEF Decompress
<1>18. ASSUME NEW p \in Process, NEW page \in Page, GetFails(p, page) PROVE WdlInv'
  <2> DEFINE slot == page % Cardinality(DOMAIN handle[p].cache)
             cache == [handle[p].cache EXCEPT ![slot] = NoPage]
             h == [handle[p] EXCEPT !.cache = cache]
  <2>1. handle[p] \in WdlHandles /\ \E v \in Version : Projects(handle[p].file, v)
    BY <1>18 DEF GetFails
  <2>2. handle[p].cache \in PageCaches /\ handle[p].cache # << >> /\ handle[p].file \in WdlFiles
    BY <1>18, <2>1 DEF GetFails, WdlHandles
  <2>3. cache \in PageCaches
    BY <2>2, SlotInCache
  <2>4. handle' = [handle EXCEPT ![p] = h]
    BY <1>18, <2>1 DEF GetFails, WdlHandles
  <2> HIDE DEF cache
  <2>5. HandleInv(h)
    BY <2>1, <2>3 DEF WdlHandles
  <2> HIDE DEF h
  <2> QED BY <1>8, <1>18, <2>4, <2>5 DEF GetFails
<1>12. ASSUME NEW p \in Process, FileSize(p) PROVE WdlInv'
  <2>1. \E v \in Version : Projects(wdl, v)
    BY <1>12 DEF FileSize
  <2>2. Bytes(wdl) \in Nat
    <3>1. wdl.cells \in Seq(FileCells)
      BY <2>1 DEF Projects, WdlFiles
    <3> QED BY <3>1 DEF Bytes
  <2> QED BY <1>12, <2>2 DEF FileSize
<1>13. ASSUME NEW p \in Process, LoadImage(p) PROVE WdlInv'
  <2> DEFINE h == [file |-> wdl, cache |-> << >>]
  <2>1. \E v \in Version : Projects(wdl, v)
    BY <1>13 DEF LoadImage
  <2>2. wdl \in WdlFiles /\ << >> \in PageCaches
    BY <2>1, ReadFacts, CacheFacts
  <2>3. HandleInv(h)
    BY <2>1, <2>2 DEF WdlHandles
  <2>4. handle' = [handle EXCEPT ![p] = h]
    BY <1>13, <2>2, ImageIsFile DEF LoadImage
  <2> HIDE DEF h
  <2> QED BY <1>8, <1>13, <2>1, <2>3, <2>4 DEF LoadImage
<1>14. ASSUME NEW p \in Process, CloseTable(p) PROVE WdlInv'
  <2>1. HandleInv(NoHandle)
    OBVIOUS
  <2> QED BY <1>8, <1>14, <2>1 DEF CloseTable
<1>15. ASSUME NEW p \in Process, Die(p) PROVE WdlInv'
  <2>1. HandleInv(NoHandle)
    OBVIOUS
  <2>2. DOMAIN job' = Process /\ \A q \in Process : JobInv(job'[q])
    BY <1>15, IdleIsSound, JobKept DEF Die
  <2> QED BY <1>8, <1>15, <2>1, <2>2 DEF Die
<1>16. CASE UNCHANGED wdlVars
  BY <1>16 DEF wdlVars
<1>17. \A p \in Process : \A i \in 0 .. Threads[p] - 1 : i \in Nat
  BY WdlAssumption
<1> QED
  BY <1>1, <1>3, <1>4, <1>5, <1>6, <1>7, <1>9, <1>10, <1>11, <1>12, <1>13, <1>14, <1>15, <1>16, <1>17, <1>18
  DEF WdlNext

(* A table that is published has its pages one after the other.            *)
LEMMA ProjectsPacked == WdlInv => FileIsPacked
<1> SUFFICES ASSUME WdlInv, wdl # NoFile PROVE FileIsPacked
  BY DEF FileIsPacked
<1> DEFINE stored == {page \in Page : wdl.entry[page].offset # 0}
           cells(page) == wdl.entry[page].offset ..
                            (wdl.entry[page].offset - 1) + wdl.entry[page].size
<1>1. PICK v \in Version : Projects(wdl, v)
  BY DEF WdlInv
<1>2. wdl.cells \in Seq(FileCells) /\ wdl.entry \in [Page -> FileEntries] /\ Len(wdl.cells) \in Nat
  <2>1. wdl.cells \in Seq(FileCells) /\ wdl.entry \in [Page -> FileEntries]
    BY <1>1 DEF Projects, WdlFiles
  <2> QED BY <2>1
<1>3. ASSUME NEW page \in stored
      PROVE  cells(page) = Extent(wdl, page) /\ Extent(wdl, page) \subseteq 1 .. Len(wdl.cells)
  <2>1. PageHolds(wdl, v, page) /\ wdl.entry[page] \in FileEntries
    BY <1>1, <1>2 DEF Projects
  <2> QED BY <1>2, <2>1, ExtentFacts DEF Extent
<1>4. ASSUME NEW page \in Page \ stored PROVE Extent(wdl, page) = {}
  BY DEF Extent
<1> HIDE DEF cells, stored
<1>5. UNION {cells(page) : page \in stored} = DOMAIN wdl.cells
  <2>1. DOMAIN wdl.cells = 1 .. Len(wdl.cells)
    BY <1>2
  <2>2. ASSUME NEW c \in 1 .. Len(wdl.cells) PROVE c \in UNION {cells(page) : page \in stored}
    <3>1. PICK page \in Page : c \in Extent(wdl, page)
      BY <1>1 DEF Projects
    <3>2. page \in stored
      BY <1>4, <3>1
    <3> QED BY <1>3, <3>1, <3>2
  <2> QED BY <1>3, <2>1, <2>2
<1>6. \A a, b \in stored : a # b => cells(a) \cap cells(b) = {}
  <2>1. stored \subseteq Page
    BY DEF stored
  <2> QED BY <1>1, <1>3, <2>1 DEF Projects
<1> QED BY <1>5, <1>6 DEF FileIsPacked, stored, cells

(* Every published file is without gaps and overlaps: workers reserve      *)
(* their extents under the mutex, and no file with a failure is published. *)
THEOREM FileCorrect == WdlSpec => []FileIsPacked
<1>1. WdlSpec => []WdlInv
  BY WdlInvInit, WdlInvNext, PTL DEF WdlSpec
<1> QED BY <1>1, ProjectsPacked, PTL

-----------------------------------------------------------------------------
(***************************************************************************)
(* What the processes see of the table is what WdlTable promises.          *)
(***************************************************************************)
LEMMA NothingIsNoAnswer == NothingGiven = T!NoAnswer
BY DEF NothingGiven, T!NoAnswer

(* What is read of a file is what it projects.                             *)
LEMMA GivenOf ==
  ASSUME NEW v \in Version, NEW f, Projects(f, v), NEW pages \in SUBSET Page
  PROVE  [page \in pages |-> f.entry[page].sum] = [page \in pages |-> Decoded(f)[page]]
<1>1. \A page \in pages : f.entry[page].sum = Decoded(f)[page]
  BY ReadFacts
<1> QED BY <1>1

LEMMA WdlRefinesInit == WdlInit => T!Init
<1> SUFFICES ASSUME WdlInit PROVE T!Init
  OBVIOUS
<1>1. wdl = NoFile /\ handle = [p \in Process |-> NoHandle] /\ given = NothingGiven
  BY DEF WdlInit, WdlFrom
<1> QED BY <1>1, NothingIsNoAnswer DEF T!Init

LEMMA WdlRefinesNext ==
  ASSUME WdlInv, [WdlNext]_wdlVars
  PROVE  [T!Next]_(T!wdlTableVars)
<1> DEFINE table == IF wdl = NoFile THEN NoFile ELSE Decoded(wdl)
           openedTables == [p \in Process |->
                        IF handle[p] = NoHandle THEN NoFile ELSE Decoded(handle[p].file)]
<1>0. \A f : Decoded(f)' = Decoded(f)
  BY DEF Decoded, Readable
<1>1. ASSUME given' = NothingGiven, UNCHANGED <<wdl, handle>> PROVE T!Next
  BY <1>1, NothingIsNoAnswer DEF T!Next, T!Nothing
<1>2. CASE ReplaceTable
  BY <1>1, <1>2 DEF ReplaceTable
<1>3. ASSUME NEW p \in Process, Compile(p) \/ GiveUp(p) \/ FileSize(p) PROVE T!Next
  BY <1>1, <1>3 DEF Compile, GiveUp, FileSize
<1>4. ASSUME NEW p \in Process, StartWorker(p) \/ StartFails(p) PROVE UNCHANGED T!wdlTableVars
  BY <1>4 DEF StartWorker, StartFails, T!wdlTableVars
<1>5. ASSUME NEW p \in Process, NEW i \in Nat,
             ReserveCells(p, i) \/ WritePayload(p, i) \/ WriteEntries(p, i) \/ WorkerFails(p, i)
      PROVE  UNCHANGED T!wdlTableVars
  BY <1>5 DEF ReserveCells, WritePayload, WriteEntries, WorkerFails, T!wdlTableVars
<1>6. ASSUME NEW p \in Process, PublishFile(p) PROVE T!Next
  <2>1. PICK v \in Version : wdl' = job[p].file /\ Projects(job[p].file, v)
    BY <1>6, PublishFacts DEF WdlInv
  <2>2. wdl' # NoFile /\ Decoded(wdl') = Packed[v]
    BY <2>1, ReadFacts
  <2>3. given' = T!NoAnswer /\ UNCHANGED handle
    BY <1>6, NothingIsNoAnswer DEF PublishFile
  <2> QED BY <2>2, <2>3 DEF T!Next, T!Install
<1>7. ASSUME NEW p \in Process, NEW h, h # NoHandle, wdl # NoFile, h.file = wdl,
             handle' = [handle EXCEPT ![p] = h], given' = NothingGiven, UNCHANGED wdl
      PROVE  T!Next
  <2>1. PICK v \in Version : Projects(wdl, v)
    BY <1>7 DEF WdlInv
  <2>2. Decoded(wdl) # NoFile
    BY <2>1, ReadFacts
  <2>3. DOMAIN handle = Process
    BY DEF WdlInv
  <2>4. openedTables' = [openedTables EXCEPT ![p] = table]
    BY <1>0, <1>7, <2>3
  <2> QED BY <1>7, <2>2, <2>4, NothingIsNoAnswer DEF T!Next, T!Obtain
<1>8. ASSUME NEW p \in Process, OpenTable(p) PROVE T!Next
  <2> DEFINE h == [file |-> wdl, cache |-> [s \in 0 .. AtMost(CachePages, PageTotal) - 1 |-> NoPage]]
  <2>1. PICK v \in Version : Projects(wdl, v)
    BY <1>8 DEF WdlInv, OpenTable
  <2>2. h # NoHandle
    <3>1. wdl \in WdlFiles /\ [s \in 0 .. AtMost(CachePages, PageTotal) - 1 |-> NoPage] \in PageCaches
      BY <2>1, CacheFacts DEF Projects
    <3>2. h \in WdlHandles
      BY <3>1 DEF WdlHandles
    <3> HIDE DEF h
    <3> QED BY <3>2, WdlAssumption
  <2>3. h.file = wdl /\ handle' = [handle EXCEPT ![p] = h]
    BY <1>8 DEF OpenTable
  <2> HIDE DEF h
  <2> QED BY <1>7, <1>8, <2>2, <2>3 DEF OpenTable
<1>9. ASSUME NEW p \in Process, LoadImage(p) PROVE T!Next
  <2> DEFINE h == [file |-> wdl, cache |-> << >>]
  <2>1. PICK v \in Version : Projects(wdl, v)
    BY <1>9 DEF WdlInv, LoadImage
  <2>2. h # NoHandle /\ wdl # NoFile
    BY <2>1, CacheFacts, ReadFacts, WdlAssumption DEF WdlHandles, Projects
  <2>3. h.file = wdl /\ handle' = [handle EXCEPT ![p] = h]
    BY <1>9, <2>1, ImageIsFile DEF LoadImage, Projects
  <2> HIDE DEF h
  <2> QED BY <1>7, <1>9, <2>2, <2>3 DEF LoadImage
<1>10. ASSUME NEW p \in Process, CloseTable(p) \/ Die(p) PROVE T!Next
  <2>1. handle' = [handle EXCEPT ![p] = NoHandle] /\ given' = T!NoAnswer /\ UNCHANGED wdl
    BY <1>10, NothingIsNoAnswer DEF CloseTable, Die
  <2>2. DOMAIN handle = Process
    BY DEF WdlInv
  <2>3. openedTables' = [openedTables EXCEPT ![p] = NoFile]
    BY <1>0, <2>1, <2>2
  <2> QED BY <1>0, <2>1, <2>3 DEF T!Next, T!LetGo
<1>11. ASSUME NEW p \in Process, handle[p] # NoHandle, UNCHANGED wdl,
              \A q \in Process : (handle'[q] = NoHandle) = (handle[q] = NoHandle),
              \A q \in Process : handle[q] # NoHandle => handle'[q].file = handle[q].file,
              NEW pages \in (SUBSET Page) \ {{}},
              given' = [NothingGiven EXCEPT ![p] = [page \in pages |-> handle[p].file.entry[page].sum]]
       PROVE  T!Next
  <2>1. PICK v \in Version : Projects(handle[p].file, v)
    BY <1>11 DEF WdlInv
  <2>2. openedTables[p] # NoFile /\ openedTables[p] = Decoded(handle[p].file)
    BY <1>11, <2>1, ReadFacts
  <2>3. openedTables' = openedTables
    BY <1>0, <1>11
  <2>4. [page \in pages |-> handle[p].file.entry[page].sum]
          = [page \in pages |-> Decoded(handle[p].file)[page]]
    BY <2>1, GivenOf
  <2>5. given' = [T!NoAnswer EXCEPT ![p] = [page \in pages |-> openedTables[p][page]]]
    BY <1>11, <2>2, <2>4, NothingIsNoAnswer
  <2>6. table' = table
    BY <1>0, <1>11
  <2> QED BY <2>2, <2>3, <2>5, <2>6 DEF T!Next, T!Read
<1>12. ASSUME NEW p \in Process, NEW page \in Page, Get(p, page) PROVE T!Next
  <2> DEFINE slot == page % Cardinality(DOMAIN handle[p].cache)
  <2>1. handle[p] \in WdlHandles /\ handle[p] # NoHandle /\ DOMAIN handle = Process
    BY <1>12 DEF WdlInv, Get
  <2>2. handle[p].cache \in PageCaches /\ handle[p].cache # << >>
    BY <1>12, <2>1 DEF Get, WdlHandles
  <2>3. slot \in DOMAIN handle[p].cache /\ [handle[p].cache EXCEPT ![slot] = page] \in PageCaches
    BY <2>2, SlotInCache
  <2>4. handle' = [handle EXCEPT ![p].cache[slot] = page]
    BY <1>12 DEF Get
  <2>5. /\ handle'[p].file = handle[p].file /\ handle'[p].cache[slot] = page
        /\ handle'[p] \in WdlHandles
    BY <2>1, <2>3, <2>4 DEF WdlHandles
  <2>6. \A q \in Process : q # p => handle'[q] = handle[q]
    BY <2>1, <2>4
  <2>7. handle'[p] # NoHandle
    BY <2>5, WdlAssumption
  <2>8. {page} \in (SUBSET Page) \ {{}}
    OBVIOUS
  <2>9. given' = [NothingGiven EXCEPT ![p] = [q \in {page} |-> handle[p].file.entry[page].sum]]
    <3>1. given' = [NothingGiven EXCEPT ![p] =
              [q \in {page} |-> handle[p].file.entry[handle'[p].cache[slot]].sum]]
      BY <1>12 DEF Get
    <3>2. handle'[p].cache[slot] = page
      BY <2>5
    <3> HIDE DEF slot
    <3> QED BY <3>1, <3>2
  <2>10. [q \in {page} |-> handle[p].file.entry[page].sum]
           = [q \in {page} |-> handle[p].file.entry[q].sum]
    OBVIOUS
  <2>11. /\ \A q \in Process : (handle'[q] = NoHandle) = (handle[q] = NoHandle)
         /\ \A q \in Process : handle[q] # NoHandle => handle'[q].file = handle[q].file
    BY <2>1, <2>5, <2>6, <2>7
  <2>12. UNCHANGED wdl
    BY <1>12 DEF Get
  <2> QED BY <1>11, <2>1, <2>8, <2>9, <2>10, <2>11, <2>12
<1>16. ASSUME NEW p \in Process, NEW page \in Page, GetFails(p, page) PROVE T!Next
  <2> DEFINE slot == page % Cardinality(DOMAIN handle[p].cache)
  <2>1. handle[p] \in WdlHandles /\ handle[p] # NoHandle /\ DOMAIN handle = Process
    BY <1>16 DEF WdlInv, GetFails
  <2>2. handle[p].cache \in PageCaches /\ handle[p].cache # << >>
    BY <1>16, <2>1 DEF GetFails, WdlHandles
  <2>3. [handle[p].cache EXCEPT ![slot] = NoPage] \in PageCaches
    BY <2>2, SlotInCache
  <2>4. handle' = [handle EXCEPT ![p].cache[slot] = NoPage]
    BY <1>16 DEF GetFails
  <2>5. handle'[p].file = handle[p].file /\ handle'[p] \in WdlHandles
    BY <2>1, <2>3, <2>4 DEF WdlHandles
  <2>6. /\ \A q \in Process : q # p => handle'[q] = handle[q]
        /\ handle'[p] # NoHandle
    BY <2>1, <2>4, <2>5, WdlAssumption
  <2>7. openedTables' = openedTables
    BY <1>0, <2>1, <2>5, <2>6
  <2>8. given' = NothingGiven /\ UNCHANGED wdl
    BY <1>16 DEF GetFails
  <2>9. table' = table
    BY <1>0, <2>8
  <2> QED BY <2>7, <2>8, <2>9, NothingIsNoAnswer DEF T!Next, T!Nothing
<1>13. ASSUME NEW p \in Process, Decompress(p) PROVE T!Next
  <2> DEFINE n == AtMost(Threads[p], PageTotal)
             done == UNION {ShareOf(i, n, PageTotal) : i \in 0 .. n - 1}
  <2>1. PageTotal \in Nat \ {0} /\ Threads[p] \in Nat \ {0}
    BY WdlAssumption
  <2>2. AtMost(Threads[p], PageTotal) \in Nat /\ AtMost(Threads[p], PageTotal) > 0
    BY <2>1, AtMostFacts
  <2>3. done = Page
    <3>1. n \in Nat \ {0} /\ PageTotal \in Nat
      BY <2>1, <2>2
    <3> HIDE DEF n
    <3>2. done = 0 .. PageTotal - 1
      BY <3>1, SharesTogether
    <3> QED BY <3>2 DEF Page
  <2>4. done \in (SUBSET Page) \ {{}}
    <3>1. 0 \in Page
      BY <2>1 DEF Page
    <3> QED BY <2>3, <3>1
  <2>5. /\ handle[p] # NoHandle /\ UNCHANGED <<wdl, handle>>
        /\ given' = [NothingGiven EXCEPT ![p] = [page \in done |-> handle[p].file.entry[page].sum]]
    BY <1>13 DEF Decompress
  <2> HIDE DEF done
  <2> QED BY <1>11, <2>4, <2>5
<1>14. CASE UNCHANGED wdlVars
  BY <1>14 DEF wdlVars, T!wdlTableVars
<1>15. \A p \in Process : \A i \in 0 .. Threads[p] - 1 : i \in Nat
  BY WdlAssumption
<1> QED
  BY <1>2, <1>3, <1>4, <1>5, <1>6, <1>8, <1>9, <1>10, <1>12, <1>13, <1>14, <1>15, <1>16 DEF WdlNext

(* Whatever processes, workers and failures do, a reader sees the whole    *)
(* projection of one distance table, or nothing.                           *)
THEOREM TableCorrect == WdlSpec => RefinesTable
<1>1. WdlSpec => []WdlInv
  BY WdlInvInit, WdlInvNext, PTL DEF WdlSpec
<1>2. WdlInv /\ [WdlNext]_wdlVars => [T!Next]_(T!wdlTableVars)
  BY WdlRefinesNext
<1> QED BY <1>1, <1>2, WdlRefinesInit, PTL DEF WdlSpec, RefinesTable

-----------------------------------------------------------------------------
(***************************************************************************)
(* The registry.                                                           *)
(***************************************************************************)
LEMMA CapacityFacts ==
  ASSUME NEW n \in Nat \ {0}
  PROVE  Capacity(n) \in {1, 2, 4, 8}
<1> DEFINE K == {k \in {1, 2, 4, 8} : k <= n}
<1>1. PICK k \in K : \A j \in K : k >= j
  <2>1. CASE n >= 8
    BY <2>1
  <2>2. CASE n < 8 /\ n >= 4
    BY <2>2
  <2>3. CASE n < 4 /\ n >= 2
    BY <2>3
  <2>4. CASE n < 2
    BY <2>4
  <2> QED BY <2>1, <2>2, <2>3, <2>4
<1>2. Max(K) \in K
  BY <1>1 DEF Max
<1> QED BY <1>2 DEF Capacity

(* A page has its slot among the entries of the probe. *)
LEMMA SlotFacts ==
  ASSUME NEW t \in Thread, NEW k \in {1, 2, 4, 8}, DOMAIN probe[t] = 0 .. k - 1,
         NEW m \in Material, NEW page \in Nat
  PROVE  Slot(t, m, page) \in 0 .. k - 1
<1>1. Cardinality(0 .. k - 1) = k
  <2>1. PICK last \in Int : last = k - 1 /\ 0 <= last
    OBVIOUS
  <2>2. Cardinality(0 .. last) = IF 0 > last THEN 0 ELSE last - 0 + 1
    BY ONLY FS_Interval, last \in Int
  <2> QED BY <2>1, <2>2
<1>2. Hash[m] + page \in Nat
  BY RegistryAssumption
<1>3. Slot(t, m, page) = (Hash[m] + page) % k
  BY <1>1 DEF Slot
<1>4. \A n \in Nat : n % k \in 0 .. k - 1
  OBVIOUS
<1> QED BY <1>2, <1>3, <1>4

(* Handles that are added to those a probe has met leave its entries right. *)
LEMMA EntriesStayRight ==
  ASSUME NEW entries, NEW h, NEW g, h \subseteq g, EntriesAreRight(entries, h)
  PROVE  EntriesAreRight(entries, g)
<1>1. ASSUME NEW e, EntryIsRight(e, h) PROVE EntryIsRight(e, g)
  <2>1. \A x : ImagesAt(x, h) \subseteq ImagesAt(x, g)
    BY DEF ImagesAt
  <2> QED BY <1>1, <2>1 DEF EntryIsRight
<1> QED BY <1>1 DEF EntriesAreRight

LEMMA AttachHandles ==
  ASSUME RegistryInv, NEW i \in DOMAIN Image, AttachCompressed(i)
  PROVE  HandlesInv'
<1> DEFINE m == Image[i].material
           old == compressed[m]
<1>1. PICK x \in Address :
        /\ heap[x] = NoTable
        /\ heap' = [y \in Address |-> IF y = x THEN i ELSE IF y = old THEN NoTable ELSE heap[y]]
        /\ compressed' = [compressed EXCEPT ![m] = x]
  BY DEF AttachCompressed, Attach
<1>2. m \in Material /\ NoTable \notin Address /\ i # NoTable /\ HandlesInv
  BY RegistryAssumption DEF RegistryInv
<1>3. /\ compressed' \in [Material -> Address \cup {NoTable}]
      /\ \A n \in Material : compressed'[n] = IF n = m THEN x ELSE compressed[n]
  BY <1>1, <1>2 DEF HandlesInv
<1>4. heap' \in [Address -> DOMAIN Image \cup {NoTable}]
  BY <1>1, <1>2 DEF HandlesInv
<1>5. ASSUME NEW n \in Material, compressed'[n] # NoTable
      PROVE  heap'[compressed'[n]] # NoTable /\ Image[heap'[compressed'[n]]].material = n
  <2>1. CASE n = m
    BY <1>1, <1>2, <1>3, <2>1
  <2>2. CASE n # m
    <3>1. /\ compressed'[n] = compressed[n] /\ compressed[n] \in Address
          /\ heap[compressed[n]] # NoTable /\ Image[heap[compressed[n]]].material = n
      BY <1>2, <1>3, <1>5, <2>2 DEF HandlesInv
    <3>2. compressed[n] # x
      BY <1>1, <3>1
    <3>3. compressed[n] # old
      BY <1>2, <2>2, <3>1 DEF HandlesInv
    <3> QED BY <1>1, <3>1, <3>2, <3>3
  <2> QED BY <2>1, <2>2
<1> QED BY <1>3, <1>4, <1>5 DEF HandlesInv

(* The new handle is one more that every probe has met. *)
LEMMA AttachProbes ==
  ASSUME RegistryInv, NEW i \in DOMAIN Image, AttachCompressed(i)
  PROVE  ProbesInv'
<1> DEFINE old == compressed[Image[i].material]
<1>1. PICK x \in Address :
        /\ heap[x] = NoTable
        /\ heap' = [y \in Address |-> IF y = x THEN i ELSE IF y = old THEN NoTable ELSE heap[y]]
        /\ held' = [t \in Thread |->
                      IF probe[t] = NoProbe THEN {} ELSE held[t] \cup {Handle(x, i)}]
  BY DEF AttachCompressed, Attach
<1>2. UNCHANGED probe /\ ProbesInv
  BY DEF AttachCompressed, Attach, RegistryInv
<1>3. Handles' \subseteq Handles \cup {Handle(x, i)}
  <2>1. ASSUME NEW y \in Address, heap'[y] # NoTable
        PROVE  Handle(y, heap'[y]) \in Handles \cup {Handle(x, i)}
    <3>1. CASE y = x
      BY <1>1, <3>1
    <3>2. CASE y # x
      <4>1. heap'[y] = heap[y]
        BY <1>1, <2>1, <3>2
      <4> QED BY <2>1, <4>1 DEF Handles
    <3> QED BY <3>1, <3>2
  <2> QED BY <2>1 DEF Handles, Handle
<1>4. ASSUME NEW t \in Thread, probe'[t] # NoProbe
      PROVE  Handles' \subseteq held'[t] /\ EntriesAreRight(probe'[t], held'[t])
  <2>1. Handles \subseteq held[t] /\ EntriesAreRight(probe[t], held[t])
    BY <1>2, <1>4 DEF ProbesInv
  <2>2. held'[t] = held[t] \cup {Handle(x, i)}
    BY <1>1, <1>2, <1>4
  <2>3. EntriesAreRight(probe[t], held'[t])
    BY <2>1, <2>2, EntriesStayRight
  <2> QED BY <1>2, <1>3, <2>1, <2>2, <2>3
<1> QED BY <1>1, <1>2, <1>4 DEF ProbesInv

(* The address of the new handle is free, so it was not met by a probe     *)
(* that has met only the handles there are.                                *)
LEMMA AttachHistory ==
  ASSUME RegistryInv, NEW i \in DOMAIN Image, AttachCompressed(i)
  PROVE  HistoryInv'
<1>1. PICK x \in Address :
        /\ heap[x] = NoTable
        /\ held' = [t \in Thread |->
                      IF probe[t] = NoProbe THEN {} ELSE held[t] \cup {Handle(x, i)}]
        /\ attached' = [t \in Thread |-> IF probe[t] = NoProbe THEN 0
                                         ELSE IF attached[t] = 0 THEN 1 ELSE 2]
  BY DEF AttachCompressed, Attach
<1>2. UNCHANGED probe /\ HistoryInv
  BY DEF AttachCompressed, Attach, RegistryInv
<1>3. ASSUME NEW t \in Thread, probe'[t] # NoProbe
      PROVE  /\ attached'[t] # 0
             /\ attached'[t] < 2 => \A g, h \in held'[t] : g.at = h.at => g = h
  <2>1. /\ attached'[t] = IF attached[t] = 0 THEN 1 ELSE 2
        /\ held'[t] = held[t] \cup {Handle(x, i)}
    BY <1>1, <1>2, <1>3
  <2>2. ASSUME attached[t] = 0, NEW g \in held'[t], NEW h \in held'[t], g.at = h.at
        PROVE  g = h
    <3>1. /\ held[t] = Handles
          /\ \A f, e \in held[t] : f.at = e.at => f = e
      BY <1>2, <1>3, <2>2 DEF HistoryInv
    <3>2. \A f \in Handles : f.at # x
      BY <1>1 DEF Handles, Handle
    <3>3. Handle(x, i).at = x
      BY DEF Handle
    <3> QED BY <2>1, <2>2, <3>1, <3>2, <3>3
  <2> QED BY <2>1, <2>2
<1> QED BY <1>1, <1>2, <1>3 DEF HistoryInv

(* What does not look at unpacked tables and distance tables. *)
LEMMA OthersStay ==
  ASSUME RegistryInv, UNCHANGED <<resident, dtmVars>>
  PROVE  ResidentInv' /\ DtmInv'
BY DEF RegistryInv, ResidentInv, DtmInv, dtmVars

LEMMA AttachStep ==
  ASSUME RegistryInv, NEW i \in DOMAIN Image, AttachCompressed(i)
  PROVE  RegistryInv'
<1>1. LookupIsRight' /\ UNCHANGED <<resident, dtmVars>>
  BY DEF AttachCompressed, Attach, LookupIsRight, NoAnswer
<1> QED BY <1>1, AttachHandles, AttachProbes, AttachHistory, OthersStay DEF RegistryInv

LEMMA UnloadStep ==
  ASSUME RegistryInv, UnloadCompressed
  PROVE  RegistryInv'
<1>1. HandlesInv'
  BY DEF UnloadCompressed, HandlesInv
<1>2. ProbesInv' /\ HistoryInv'
  BY DEF UnloadCompressed, RegistryInv, ProbesInv, HistoryInv, NoProbes
<1>3. LookupIsRight' /\ UNCHANGED <<resident, dtmVars>>
  BY DEF UnloadCompressed, LookupIsRight, NoAnswer
<1> QED BY <1>1, <1>2, <1>3, OthersStay DEF RegistryInv

LEMMA CreateStep ==
  ASSUME RegistryInv, NEW t \in Thread, NEW n \in CacheSizes, CreateProbe(t, n)
  PROVE  RegistryInv'
<1> DEFINE k == Capacity(n)
<1>1. k \in {1, 2, 4, 8}
  BY CapacityFacts, RegistryAssumption
<1> HIDE DEF k
<1>2. /\ probe' = [probe EXCEPT ![t] = [s \in 0 .. k - 1 |-> EmptyEntry]]
      /\ held' = [held EXCEPT ![t] = Handles] /\ attached' = [attached EXCEPT ![t] = 0]
      /\ UNCHANGED <<resident, compressed, heap, dtmVars>> /\ answer' = NoAnswer
  BY DEF CreateProbe, k
<1>3. HandlesInv' /\ LookupIsRight'
  BY <1>2 DEF RegistryInv, HandlesInv, LookupIsRight, NoAnswer
<1>4. EntryIsRight(EmptyEntry, Handles)
  BY DEF EntryIsRight, EmptyEntry
<1>5. Handles' = Handles
  BY <1>2 DEF Handles
<1>6. ASSUME NEW u \in Thread, probe'[u] # NoProbe
      PROVE  Handles' \subseteq held'[u] /\ EntriesAreRight(probe'[u], held'[u])
  <2>1. CASE u = t
    <3>1. probe'[u] = [s \in 0 .. k - 1 |-> EmptyEntry] /\ held'[u] = Handles
      BY <1>2, <2>1 DEF RegistryInv, ProbesInv
    <3>2. EntriesAreRight(probe'[u], Handles)
      BY <1>1, <1>4, <3>1 DEF EntriesAreRight
    <3> QED BY <1>5, <3>1, <3>2
  <2>2. CASE u # t
    <3>1. probe'[u] = probe[u] /\ held'[u] = held[u]
      BY <1>2, <2>2 DEF RegistryInv, ProbesInv
    <3> QED BY <1>5, <1>6, <3>1 DEF RegistryInv, ProbesInv
  <2> QED BY <2>1, <2>2
<1>7. ProbesInv'
  BY <1>2, <1>6 DEF RegistryInv, ProbesInv
<1>8. HistoryInv'
  <2>1. \A g, h \in Handles : g.at = h.at => g = h
    BY DEF Handles, Handle
  <2>2. ASSUME NEW u \in Thread, probe'[u] # NoProbe
        PROVE  /\ attached'[u] = 0 => held'[u] = Handles'
               /\ attached'[u] < 2 => \A g, h \in held'[u] : g.at = h.at => g = h
    <3>1. CASE u = t
      <4>1. held'[u] = Handles
        BY <1>2, <3>1 DEF RegistryInv, ProbesInv
      <4> QED BY <1>5, <2>1, <4>1
    <3>2. CASE u # t
      <4>1. probe'[u] = probe[u] /\ held'[u] = held[u] /\ attached'[u] = attached[u]
        BY <1>2, <3>2 DEF RegistryInv, ProbesInv, HistoryInv
      <4> QED BY <1>5, <2>2, <4>1 DEF RegistryInv, HistoryInv
    <3> QED BY <3>1, <3>2
  <2>3. DOMAIN attached' = Thread
    BY <1>2 DEF RegistryInv, HistoryInv
  <2> QED BY <2>2, <2>3 DEF HistoryInv
<1> QED BY <1>2, <1>3, <1>7, <1>8, OthersStay DEF RegistryInv

LEMMA DestroyStep ==
  ASSUME RegistryInv, NEW t \in Thread, DestroyProbe(t)
  PROVE  RegistryInv'
<1>1. /\ probe' = [probe EXCEPT ![t] = NoProbe] /\ held' = [held EXCEPT ![t] = {}]
      /\ attached' = [attached EXCEPT ![t] = 0]
      /\ UNCHANGED <<resident, compressed, heap, dtmVars>> /\ answer' = NoAnswer
  BY DEF DestroyProbe
<1>2. HandlesInv' /\ LookupIsRight'
  BY <1>1 DEF RegistryInv, HandlesInv, LookupIsRight, NoAnswer
<1>3. Handles' = Handles
  BY <1>1 DEF Handles
<1>4. ASSUME NEW u \in Thread, probe'[u] # NoProbe
      PROVE  Handles' \subseteq held'[u] /\ EntriesAreRight(probe'[u], held'[u])
  <2>1. probe'[u] = probe[u] /\ held'[u] = held[u]
    BY <1>1, <1>4 DEF RegistryInv, ProbesInv
  <2> QED BY <1>3, <1>4, <2>1 DEF RegistryInv, ProbesInv
<1>5. ProbesInv'
  BY <1>1, <1>4 DEF RegistryInv, ProbesInv
<1>6. HistoryInv'
  <2>1. ASSUME NEW u \in Thread, probe'[u] # NoProbe
        PROVE  /\ attached'[u] = 0 => held'[u] = Handles'
               /\ attached'[u] < 2 => \A g, h \in held'[u] : g.at = h.at => g = h
    <3>1. probe'[u] = probe[u] /\ held'[u] = held[u] /\ attached'[u] = attached[u]
      BY <1>1, <2>1 DEF RegistryInv, ProbesInv, HistoryInv
    <3> QED BY <1>3, <2>1, <3>1 DEF RegistryInv, HistoryInv
  <2>2. DOMAIN attached' = Thread
    BY <1>1 DEF RegistryInv, HistoryInv
  <2> QED BY <2>1, <2>2 DEF HistoryInv
<1> QED BY <1>1, <1>2, <1>5, <1>6, OthersStay DEF RegistryInv

(* A lookup answers from a right entry, or loads one. *)
LEMMA LookupStep ==
  ASSUME RegistryInv, NEW t \in Thread, NEW m \in Material, NEW page \in 0 .. PagesOf[m] - 1,
         LookupProbe(t, m, page)
  PROVE  RegistryInv'
<1> DEFINE slot == Slot(t, m, page)
           i == heap[compressed[m]]
           e == IF Hits(t, m, page) THEN probe[t][slot] ELSE Load(m, page, probe[t][slot])
<1>1. /\ probe[t] # NoProbe /\ compressed[m] \in Address /\ i # NoTable
      /\ page \in Nat /\ NoTable \notin Address
  BY RegistryAssumption DEF LookupProbe, RegistryInv, HandlesInv
<1>2. /\ probe' = [probe EXCEPT ![t][slot] = e]
      /\ answer' = IF e.database = NoTable THEN NoAnswer
                   ELSE [tier |-> "compressed", thread |-> t, material |-> m, page |-> page,
                         data |-> e.data]
      /\ UNCHANGED <<resident, compressed, heap, held, attached, dtmVars>>
  BY DEF LookupProbe
<1>3. PICK k \in {1, 2, 4, 8} :
        /\ probe[t] = [s \in 0 .. k - 1 |-> probe[t][s]]
        /\ \A s \in 0 .. k - 1 : EntryIsRight(probe[t][s], held[t])
  BY <1>1 DEF RegistryInv, ProbesInv, EntriesAreRight
<1>4. slot \in 0 .. k - 1
  BY <1>1, <1>3, SlotFacts
<1>5. EntryIsRight(probe[t][slot], held[t])
  BY <1>3, <1>4
<1>6. i \in ImagesAt(compressed[m], held[t])
  <2>1. Handle(compressed[m], i) \in held[t]
    BY <1>1 DEF RegistryInv, ProbesInv, Handles
  <2> QED BY <2>1 DEF ImagesAt, Handle
<1> HIDE DEF slot
<1>7. /\ EntryIsRight(e, held[t])
      /\ e.database # NoTable => e.database = compressed[m] /\ e.page = page
  <2>1. CASE Hits(t, m, page)
    BY <1>5, <2>1 DEF Hits, slot
  <2>2. CASE ~Hits(t, m, page) /\ page \in Image[i].damaged
    <3>1. e = [probe[t][slot] EXCEPT !.database = NoTable, !.data = <<"damaged", page>>]
      BY <2>2 DEF Load
    <3>2. e = [database |-> NoTable, page |-> probe[t][slot].page, data |-> <<"damaged", page>>]
      BY <1>5, <3>1 DEF EntryIsRight
    <3> HIDE DEF e
    <3> QED BY <3>2 DEF EntryIsRight
  <2>3. CASE ~Hits(t, m, page) /\ page \notin Image[i].damaged
    <3>1. e = [database |-> compressed[m], page |-> page, data |-> <<i, page>>]
      BY <2>3 DEF Load
    <3> HIDE DEF e, i
    <3> QED BY <1>6, <2>3, <3>1 DEF EntryIsRight
  <2> QED BY <2>1, <2>2, <2>3
<1> HIDE DEF e
<1>8. HandlesInv'
  BY <1>2 DEF RegistryInv, HandlesInv
<1>9. LookupIsRight'
  <2>1. CASE e.database = NoTable
    BY <1>2, <2>1 DEF LookupIsRight, NoAnswer
  <2>2. CASE e.database # NoTable
    <3>1. /\ answer' = [tier |-> "compressed", thread |-> t, material |-> m, page |-> page,
                        data |-> e.data]
          /\ UNCHANGED <<compressed, heap, held, attached>>
      BY <1>2, <2>2
    <3>2. \E j \in ImagesAt(compressed[m], held[t]) :
            page \notin Image[j].damaged /\ e.data = <<j, page>>
      BY <1>7, <2>2 DEF EntryIsRight
    <3>3. ASSUME attached[t] < 2 PROVE e.data = <<i, page>>
      <4>1. \A g, h \in held[t] : g.at = h.at => g = h
        BY <1>1, <3>3 DEF RegistryInv, HistoryInv
      <4>2. \A j, n \in ImagesAt(compressed[m], held[t]) : j = n
        BY <4>1 DEF ImagesAt
      <4> QED BY <1>6, <3>2, <4>2
    <3> QED BY <1>6, <3>1, <3>2, <3>3 DEF LookupIsRight
  <2> QED BY <2>1, <2>2
<1>10. Handles' = Handles
  BY <1>2 DEF Handles
<1>11. ASSUME NEW u \in Thread, probe'[u] # NoProbe
       PROVE  Handles' \subseteq held'[u] /\ EntriesAreRight(probe'[u], held'[u])
  <2>1. CASE u = t
    <3>1. probe'[u] = [probe[t] EXCEPT ![slot] = e]
      BY <1>2, <2>1 DEF RegistryInv, ProbesInv
    <3>2. /\ probe'[u] = [s \in 0 .. k - 1 |-> probe'[u][s]]
          /\ \A s \in 0 .. k - 1 : probe'[u][s] = IF s = slot THEN e ELSE probe[t][s]
      BY <1>3, <3>1
    <3>3. \A s \in 0 .. k - 1 : EntryIsRight(probe'[u][s], held[t])
      BY <1>3, <1>7, <3>2
    <3>4. EntriesAreRight(probe'[u], held[t])
      BY <3>2, <3>3 DEF EntriesAreRight
    <3>5. Handles \subseteq held[t]
      BY <1>1 DEF RegistryInv, ProbesInv
    <3> QED BY <1>2, <1>10, <2>1, <3>4, <3>5
  <2>2. CASE u # t
    <3>1. probe'[u] = probe[u] /\ held'[u] = held[u]
      BY <1>2, <2>2 DEF RegistryInv, ProbesInv
    <3> QED BY <1>10, <1>11, <3>1 DEF RegistryInv, ProbesInv
  <2> QED BY <2>1, <2>2
<1>12. ProbesInv'
  BY <1>2, <1>11 DEF RegistryInv, ProbesInv
<1>13. HistoryInv'
  <2>1. \A u \in Thread : probe'[u] # NoProbe => probe[u] # NoProbe
    BY <1>1, <1>2 DEF RegistryInv, ProbesInv
  <2>2. HistoryInv /\ UNCHANGED <<held, attached>>
    BY <1>2 DEF RegistryInv
  <2> QED BY <1>10, <2>1, <2>2 DEF HistoryInv
<1> QED BY <1>2, <1>8, <1>9, <1>12, <1>13, OthersStay DEF RegistryInv

(* What does not look at compressed images and probes. *)
LEMMA ProbesStay ==
  ASSUME RegistryInv, UNCHANGED probeVars
  PROVE  HandlesInv' /\ ProbesInv' /\ HistoryInv'
<1>1. UNCHANGED <<compressed, heap, probe, held, attached>>
  BY DEF probeVars
<1>2. HandlesInv'
  BY <1>1 DEF RegistryInv, HandlesInv
<1>3. Handles' = Handles
  BY <1>1 DEF Handles
<1> QED BY <1>1, <1>2, <1>3 DEF RegistryInv, ProbesInv, HistoryInv

LEMMA ResidentStep ==
  ASSUME RegistryInv,
         \/ UnloadResident
         \/ \E i \in DOMAIN Image : AttachResident(i)
         \/ \E m \in Material : \E page \in 0 .. PagesOf[m] - 1 : LookupResident(m, page)
  PROVE  RegistryInv'
<1>1. UNCHANGED <<probeVars, dtmVars>>
  BY DEF UnloadResident, AttachResident, LookupResident
<1>2. DtmInv'
  BY <1>1 DEF RegistryInv, DtmInv, dtmVars
<1>3. ResidentInv' /\ LookupIsRight'
  <2>1. CASE UnloadResident
    BY <2>1 DEF UnloadResident, ResidentInv, LookupIsRight, NoAnswer
  <2>2. ASSUME NEW i \in DOMAIN Image, AttachResident(i)
        PROVE  ResidentInv' /\ LookupIsRight'
    <3>1. Image[i].damaged = {} /\ resident' = [resident EXCEPT ![Image[i].material] = i]
      BY <2>2 DEF AttachResident
    <3>2. ResidentInv'
      BY <3>1 DEF RegistryInv, ResidentInv
    <3>3. LookupIsRight'
      BY <2>2 DEF AttachResident, LookupIsRight, NoAnswer
    <3> QED BY <3>2, <3>3
  <2>3. ASSUME NEW m \in Material, NEW page \in 0 .. PagesOf[m] - 1, LookupResident(m, page)
        PROVE  ResidentInv' /\ LookupIsRight'
    <3>1. /\ resident[m] # NoTable /\ UNCHANGED resident
          /\ answer' = [tier |-> "resident", material |-> m, page |-> page,
                        data |-> <<resident[m], page>>]
      BY <2>3 DEF LookupResident
    <3>2. Image[resident[m]].damaged = {} /\ Image[resident[m]].material = m
      BY <3>1 DEF RegistryInv, ResidentInv
    <3>3. ResidentInv'
      BY <3>1 DEF RegistryInv, ResidentInv
    <3> QED BY <3>1, <3>2, <3>3 DEF LookupIsRight
  <2> QED BY <2>1, <2>2, <2>3
<1> QED BY <1>1, <1>2, <1>3, ProbesStay DEF RegistryInv

LEMMA DtmStep ==
  ASSUME RegistryInv,
         CloseAll \/ \E m \in Material : LookupDtm(m) \/ PublishDtm(m)
  PROVE  RegistryInv'
<1>1. UNCHANGED <<probeVars, resident>>
  BY DEF CloseAll, LookupDtm, PublishDtm
<1>2. ResidentInv'
  BY <1>1 DEF RegistryInv, ResidentInv
<1>3. DtmInv' /\ LookupIsRight'
  <2>1. CASE CloseAll
    BY <2>1 DEF CloseAll, RegistryInv, DtmInv, LookupIsRight, NoAnswer
  <2>2. ASSUME NEW m \in Material, PublishDtm(m)
        PROVE  DtmInv' /\ LookupIsRight'
    <3>1. /\ UNCHANGED <<opened, attempted, found>> /\ answer' = NoAnswer
          /\ DOMAIN files' = DOMAIN files
      BY <2>2 DEF PublishDtm
    <3> QED BY <3>1 DEF RegistryInv, DtmInv, LookupIsRight, NoAnswer
  <2>3. ASSUME NEW m \in Material, LookupDtm(m)
        PROVE  DtmInv' /\ LookupIsRight'
    <3>1. DtmInv
      BY DEF RegistryInv
    <3>2. DtmInv' /\ opened'[m] = found'[m]
      <4>1. CASE m \in attempted
        BY <2>3, <3>1, <4>1 DEF LookupDtm, DtmInv
      <4>2. CASE m \notin attempted
        <5>1. /\ opened' = [opened EXCEPT ![m] = files[m]]
              /\ found' = [found EXCEPT ![m] = files[m]]
              /\ attempted' = attempted \cup {m} /\ UNCHANGED files
          BY <2>3, <3>1, <4>2 DEF LookupDtm, DtmInv
        <5> QED BY <3>1, <4>2, <5>1 DEF DtmInv
      <4> QED BY <4>1, <4>2
    <3>3. LookupIsRight'
      BY <2>3, <3>2 DEF LookupDtm, LookupIsRight, NoAnswer
    <3> QED BY <3>2, <3>3
  <2> QED BY <2>1, <2>2, <2>3
<1> QED BY <1>1, <1>2, <1>3, ProbesStay DEF RegistryInv

LEMMA RegistryInitially == RegistryInit => RegistryInv
<1> SUFFICES ASSUME RegistryInit PROVE RegistryInv
  OBVIOUS
<1>1. HandlesInv /\ ResidentInv /\ LookupIsRight
  BY DEF RegistryInit, RegistryFrom, NoAnswer, HandlesInv, ResidentInv, LookupIsRight
<1>2. ProbesInv /\ DtmInv
  BY DEF RegistryInit, RegistryFrom, ProbesInv, DtmInv
<1>3. HistoryInv
  BY DEF RegistryInit, RegistryFrom, HistoryInv
<1> QED BY <1>1, <1>2, <1>3 DEF RegistryInv

LEMMA RegistryStep == RegistryInv /\ [RegistryNext]_registryVars => RegistryInv'
<1> SUFFICES ASSUME RegistryInv, [RegistryNext]_registryVars PROVE RegistryInv'
  OBVIOUS
<1>1. CASE UNCHANGED registryVars
  <2>1. UNCHANGED <<resident, probeVars, dtmVars, answer>>
    BY <1>1 DEF registryVars
  <2>2. LookupIsRight'
    BY <2>1 DEF RegistryInv, LookupIsRight, probeVars, dtmVars
  <2> QED BY <2>1, <2>2, OthersStay, ProbesStay DEF RegistryInv
<1>2. CASE ProbesNext
  BY <1>2, UnloadStep, AttachStep, DestroyStep, CreateStep, LookupStep DEF ProbesNext
<1>3. CASE TablesNext
  BY <1>3, ResidentStep, DtmStep DEF TablesNext
<1> QED BY <1>1, <1>2, <1>3 DEF RegistryNext

(* A probe answers with the undamaged page that was asked for, of the      *)
(* image attached now or, when two images were attached since it was       *)
(* created and the allocator used the address of the handle again, of one  *)
(* that was there before (gwdegtb_wdl_lookup_probe_compact and             *)
(* gwdegtb_wdl_compressed_attach); a distance table answers as it did at   *)
(* the first lookup of its material (find_or_open_disk_dtm).               *)
THEOREM LookupCorrect == RegistrySpec => []LookupIsRight
<1>1. RegistryInv => LookupIsRight
  BY DEF RegistryInv
<1> QED BY <1>1, RegistryInitially, RegistryStep, PTL DEF RegistrySpec
=============================================================================
