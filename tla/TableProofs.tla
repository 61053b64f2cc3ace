---------------------------- MODULE TableProofs ----------------------------
(***************************************************************************)
(* What happens to a compiled table, for every set of positions, every     *)
(* number of workers, every assignment of positions to workers, every game *)
(* and whatever table it starts from: a repair that succeeds ends with the *)
(* consistent table, a verification tells the truth and its examples do    *)
(* not depend on the partition, and only a consistent table is published.  *)
(***************************************************************************)
EXTENDS ConsistencyRepair, CompiledFinish, GameGraphProofs, FiniteSetTheorems

LEMMA FiniteSides == \A S \in SUBSET Sides : IsFiniteSet(S) /\ Cardinality(S) \in Nat
<1>1. IsFiniteSet({"WTM"} \cup {"BTM"})
  BY FS_Singleton, FS_AddElement
<1>2. Sides = {"WTM"} \cup {"BTM"}
  BY DEF Sides
<1> QED BY <1>1, <1>2, FS_Subset, FS_CardinalityType

(* What a position should hold is the best of storable values. *)
LEMMA ExpectedFacts ==
  ASSUME TypeOK, NEW side \in Sides, NEW i \in Index
  PROVE  \E X \in SUBSET Dtm : /\ X = SuccessorValues(game, snapshot, side, i)
                               /\ Expected(side, i) = BestValue(X)
BY SuccessorValuesType DEF TypeOK, Expected, ExpectedDtm

LEMMA CorrectionsAtFacts ==
  ASSUME TypeOK, NEW i \in Index
  PROVE  /\ IsFiniteSet(CorrectionsAt(i))
         /\ Representable(i) => CorrectionsAt(i) \subseteq Corrections
         /\ \A c \in CorrectionsAt(i) :
              /\ c.side \in Sides /\ c.index = i
              /\ c.old = snapshot[c.side][i] /\ c.new = Expected(c.side, i)
              /\ c.new # c.old
         /\ \A side \in Sides : Expected(side, i) # snapshot[side][i] =>
              [side |-> side, index |-> i, old |-> snapshot[side][i],
               new |-> Expected(side, i)] \in CorrectionsAt(i)
<1> DEFINE At(s) == [side |-> s, index |-> i, old |-> snapshot[s][i], new |-> Expected(s, i)]
<1>1. CorrectionsAt(i) = {At(s) : s \in {r \in Sides : Expected(r, i) # snapshot[r][i]}}
  BY DEF CorrectionsAt
<1>2. IsFiniteSet({At("WTM")} \cup {At("BTM")})
  BY FS_Singleton, FS_AddElement
<1>3. CorrectionsAt(i) \in SUBSET ({At("WTM")} \cup {At("BTM")})
  BY <1>1 DEF Sides
<1>4. IsFiniteSet(CorrectionsAt(i))
  BY <1>2, <1>3, FS_Subset
<1>5. \A s \in Sides : snapshot[s][i] \in Dtm
  BY DEF TypeOK, Tables
<1>6. Representable(i) => CorrectionsAt(i) \subseteq Corrections
  BY <1>1, <1>5 DEF Representable, Corrections
<1> QED BY <1>1, <1>4, <1>6

(* The main thread writes the values the workers found to be expected. *)
LEMMA WrittenAt ==
  ASSUME TypeOK, CorrectionsSound, stage \in {"check", "apply"}, NEW t,
         NEW C \in SUBSET Collected, NEW side \in Sides, NEW i \in Index
  PROVE  Written(t, C)[side][i] =
           IF \E c \in C : c.side = side /\ c.index = i THEN Expected(side, i) ELSE t[side][i]
<1>1. \A c \in C : c.index \in Index /\ c.side \in Sides /\ c.new = Expected(c.side, c.index)
  <2> SUFFICES ASSUME NEW c \in C
               PROVE  c.index \in Index /\ c.side \in Sides /\ c.new = Expected(c.side, c.index)
    OBVIOUS
  <2>1. PICK w \in Worker : c \in corrections[w]
    BY DEF Collected
  <2>2. c.index \in Index /\ c \in CorrectionsAt(c.index)
    BY <2>1 DEF CorrectionsSound, TypeOK, Corrections
  <2> QED BY <2>2, CorrectionsAtFacts
<1>2. CASE \E c \in C : c.side = side /\ c.index = i
  <2> DEFINE k == CHOOSE c \in C : c.side = side /\ c.index = i
  <2>1. k \in C /\ k.side = side /\ k.index = i
    BY <1>2
  <2>2. Written(t, C)[side][i] = k.new
    BY <1>2 DEF Written
  <2> QED BY <1>1, <1>2, <2>1, <2>2
<1>3. CASE ~ \E c \in C : c.side = side /\ c.index = i
  BY <1>3 DEF Written
<1> QED BY <1>2, <1>3

(* Every position has been inspected when the corrections are applied. *)
LEMMA AllCollected ==
  ASSUME TypeOK, RepairInv, stage = "apply"
  PROVE  \A side \in Sides, i \in Index :
           /\ Expected(side, i) \in Dtm
           /\ Written(table, Collected)[side][i] = Expected(side, i)
           /\ Expected(side, i) # table[side][i] => i \in Corrected
<1> SUFFICES ASSUME NEW side \in Sides, NEW i \in Index
             PROVE  /\ Expected(side, i) \in Dtm
                    /\ Written(table, Collected)[side][i] = Expected(side, i)
                    /\ Expected(side, i) # table[side][i] => i \in Corrected
  OBVIOUS
<1>1. Inspected(i) /\ snapshot = table /\ CorrectionsSound
  BY DEF RepairInv, InspectedWorklist, SnapshotFresh
<1>2. Expected(side, i) \in Dtm
  BY <1>1 DEF Inspected, Representable
<1>3. ASSUME Expected(side, i) # table[side][i]
      PROVE  \E c \in Collected : c.side = side /\ c.index = i
  <2> DEFINE c == [side |-> side, index |-> i, old |-> snapshot[side][i],
                   new |-> Expected(side, i)]
  <2>1. c \in CorrectionsAt(i)
    BY <1>1, <1>3, CorrectionsAtFacts
  <2>2. c \in Collected
    BY <1>1, <2>1, WorkAssumption DEF Inspected, Collected
  <2> QED BY <2>2
<1>4. Written(table, Collected)[side][i] = Expected(side, i)
  BY <1>1, <1>3, WrittenAt
<1> QED BY <1>2, <1>3, <1>4 DEF Corrected

-----------------------------------------------------------------------------
LEMMA TypeInitially == Init => TypeOK
<1> SUFFICES ASSUME Init PROVE TypeOK
  OBVIOUS
<1>1. table \in Tables /\ game \in GameGraphs
  BY RepairGamesAssumption, StartTablesAssumption DEF Init
<1>2. histogram \in [Worker -> [Dtm -> Int]] /\ corrections \in [Worker -> SUBSET Corrections]
  BY DEF Init
<1> QED BY <1>1, <1>2 DEF Init, TypeOK, Stages

LEMMA TypeStep ==
  ASSUME TypeOK, RepairInv, [Next]_vars
  PROVE  TypeOK'
<1>1. ASSUME NEW i \in Index, InspectPosition(i) PROVE TypeOK'
  <2>1. CorrectionsAt(i) \subseteq Corrections
    BY <1>1, CorrectionsAtFacts DEF InspectPosition
  <2>2. Owner[i] \in Worker
    BY WorkAssumption
  <2>3. corrections' \in [Worker -> SUBSET Corrections]
    BY <1>1, <2>1, <2>2 DEF InspectPosition, TypeOK
  <2>4. \A h \in [Dtm -> Int] : Counted(h, i) \in [Dtm -> Int]
    <3> SUFFICES ASSUME NEW h \in [Dtm -> Int], NEW v \in Dtm
                 PROVE  h[v] + Cardinality({s \in Sides : snapshot[s][i] = v}) \in Int
      BY DEF Counted
    <3>1. Cardinality({s \in Sides : snapshot[s][i] = v}) \in Nat
      BY FiniteSides
    <3> QED BY <3>1
  <2>5. histogram' \in [Worker -> [Dtm -> Int]]
    BY <1>1, <2>2, <2>4 DEF InspectPosition, TypeOK
  <2>6. todo' \subseteq Index /\ verified' \subseteq Index
    BY <1>1 DEF InspectPosition, TypeOK
  <2> QED BY <1>1, <2>3, <2>5, <2>6 DEF InspectPosition, TypeOK
<1>2. ASSUME NEW i \in Index, InspectionFails(i) PROVE TypeOK'
  BY <1>2, WorkAssumption DEF InspectionFails, TypeOK
<1>3. CASE StartPass
  <2>1. corrections' \in [Worker -> SUBSET Corrections]
    BY <1>3 DEF StartPass
  <2>2. todo' \subseteq Index /\ snapshot' \in Tables /\ passes' \in Nat
    BY <1>3 DEF StartPass, TypeOK, Flushed
  <2> QED BY <1>3, <2>1, <2>2 DEF StartPass, TypeOK, Stages
<1>4. CASE EndCheck \/ Converged \/ CoordinatorFault
  BY <1>4 DEF EndCheck, Converged, CoordinatorFault, TypeOK, Stages
<1>5. CASE ApplyCorrections
  <2>1. stage = "apply" /\ CorrectionsSound
    BY <1>5 DEF ApplyCorrections, RepairInv
  <2>2. table' \in Tables
    <3>1. \A side \in Sides, i \in Index : Written(table, Collected)[side][i] \in Dtm
      BY <2>1, AllCollected
    <3> QED BY <1>5, <3>1 DEF ApplyCorrections, Tables, Written
  <2>3. \A w \in Worker : Moved(histogram[w], corrections[w]) \in [Dtm -> Int]
    <3> SUFFICES ASSUME NEW w \in Worker, NEW v \in Dtm
                 PROVE  histogram[w][v] - Cardinality({c \in corrections[w] : c.old = v})
                          + Cardinality({c \in corrections[w] : c.new = v}) \in Int
      BY DEF Moved
    <3>1. IsFiniteSet(corrections[w])
      BY <2>1 DEF CorrectionsSound
    <3>2. \A S \in SUBSET corrections[w] : Cardinality(S) \in Nat
      BY <3>1, FS_Subset, FS_CardinalityType
    <3>3. histogram[w][v] \in Int
      BY DEF TypeOK
    <3>4. /\ Cardinality({c \in corrections[w] : c.old = v}) \in Nat
          /\ Cardinality({c \in corrections[w] : c.new = v}) \in Nat
      BY <3>2
    <3> QED BY <3>3, <3>4
  <2>4. pending' \subseteq Index
    <3>1. \A i \in Corrected : i \in Index
      BY DEF Corrected, Collected, TypeOK, Corrections
    <3>2. \A i \in Corrected : Neighbours(i) \subseteq Index
      BY <3>1 DEF Neighbours, Predecessors, TypeOK, GameGraphs
    <3> QED BY <1>5, <3>2 DEF ApplyCorrections
  <2>5. histogram' \in [Worker -> [Dtm -> Int]] /\ verified' \subseteq Index
    BY <1>5, <2>3 DEF ApplyCorrections, TypeOK
  <2> QED BY <1>5, <2>2, <2>4, <2>5 DEF ApplyCorrections, TypeOK, Stages
<1>6. CASE ApplyFails
  <2>1. stage = "apply" /\ CorrectionsSound
    BY <1>6 DEF ApplyFails, RepairInv
  <2>2. PICK C \in SUBSET Collected : table' = Written(table, C)
    BY <1>6 DEF ApplyFails
  <2>3. \A side \in Sides, i \in Index : Written(table, C)[side][i] \in Dtm
    <3>1. \A side \in Sides, i \in Index : table[side][i] \in Dtm /\ Expected(side, i) \in Dtm
      BY <2>1, AllCollected DEF TypeOK, Tables
    <3> QED BY <2>1, <3>1, WrittenAt
  <2>4. table' \in Tables
    BY <2>2, <2>3 DEF Tables, Written
  <2> QED BY <1>6, <2>4 DEF ApplyFails, TypeOK, Stages
<1>7. CASE UNCHANGED vars
  BY <1>7 DEF vars, TypeOK
<1> QED
  BY <1>1, <1>2, <1>3, <1>4, <1>5, <1>6, <1>7
     DEF Next, Inspect, Coordinate, Terminated

-----------------------------------------------------------------------------
RepairedInv ==
  /\ TypeOK
  /\ RepairInv
  /\ PutAsideIsConsistent
  /\ PassesBounded
  /\ stage = "done" => Consistent(game, table)

LEMMA RepairedInitially == Init => RepairedInv
<1> SUFFICES ASSUME Init PROVE RepairedInv
  OBVIOUS
<1>1. TypeOK
  BY TypeInitially
<1>2. \A w \in Worker : corrections[w] = {} /\ IsFiniteSet(corrections[w])
  BY FS_EmptySet DEF Init
<1>3. RepairInv
  BY <1>2, MaxWinAssumption
     DEF Init, RepairInv, SnapshotFresh, CorrectionsSound, InspectedWorklist,
         WrittenIsExpected, PassesSettle, MaxLoss
<1>4. PutAsideIsConsistent /\ PassesBounded
  BY MaxWinAssumption
     DEF Init, PutAsideIsConsistent, SkippedIsConsistent, VerifiedIsConsistent,
         PassesBounded, MaxLoss
<1> QED BY <1>1, <1>3, <1>4 DEF RepairedInv, Init

(* A position without corrections is consistent in the snapshot. *)
LEMMA NothingToCorrect ==
  ASSUME TypeOK, NEW i \in Index
  PROVE  CorrectionsAt(i) = {} <=> BothConsistent(snapshot, i)
<1>1. CorrectionsAt(i) = {} <=> \A side \in Sides : snapshot[side][i] = Expected(side, i)
  BY DEF CorrectionsAt
<1> QED BY <1>1 DEF BothConsistent, ConsistentAt, Expected

LEMMA RepairedInspect ==
  ASSUME RepairedInv, TypeOK', NEW i \in Index, InspectPosition(i)
  PROVE  RepairedInv'
<1>1. /\ TypeOK /\ stage = "check" /\ Representable(i) /\ i \in todo
      /\ UNCHANGED <<game, table, snapshot, fullPass, pending, stage, failed, passes>>
      /\ RepairInv /\ PutAsideIsConsistent /\ PassesBounded
  BY DEF RepairedInv, InspectPosition, Inspecting
<1>2. snapshot = table /\ CorrectionsSound
  BY <1>1 DEF RepairInv, SnapshotFresh
<1>3. /\ \A w \in Worker : corrections'[w] =
              IF w = Owner[i] THEN corrections[w] \cup CorrectionsAt(i) ELSE corrections[w]
      /\ Owner[i] \in Worker
  BY <1>1, WorkAssumption DEF InspectPosition, TypeOK
<1>4. \A j : CorrectionsAt(j)' = CorrectionsAt(j) /\ (Representable(j)' <=> Representable(j))
  BY <1>1 DEF CorrectionsAt, Representable, Expected
<1>5. CorrectionsSound'
  <2> SUFFICES ASSUME NEW w \in Worker
               PROVE  /\ IsFiniteSet(corrections'[w])
                      /\ \A c \in corrections'[w] :
                           Owner[c.index] = w /\ c \in CorrectionsAt(c.index)
    BY <1>4 DEF CorrectionsSound
  <2>1. IsFiniteSet(corrections[w]) /\ IsFiniteSet(CorrectionsAt(i))
    BY <1>1, <1>2, CorrectionsAtFacts DEF CorrectionsSound
  <2>2. IsFiniteSet(corrections[w] \cup CorrectionsAt(i))
    BY <2>1, FS_Union
  <2>3. \A c \in CorrectionsAt(i) : c.index = i
    BY <1>1, CorrectionsAtFacts
  <2> QED BY <1>1, <1>2, <1>3, <2>1, <2>2, <2>3 DEF CorrectionsSound
<1>6. InspectedWorklist'
  <2>1. \A j \in Index : Inspected(j) => Inspected(j)'
    BY <1>3, <1>4, WorkAssumption DEF Inspected
  <2>2. Inspected(i)'
    BY <1>1, <1>3, <1>4 DEF Inspected
  <2>3. todo' = todo \ {i} /\ Worklist' = Worklist /\ Worklist \subseteq Index
    BY <1>1 DEF InspectPosition, Worklist, TypeOK
  <2> QED BY <1>1, <2>1, <2>2, <2>3 DEF RepairInv, InspectedWorklist
<1>7. SnapshotFresh' /\ WrittenIsExpected' /\ PassesSettle'
  BY <1>1
     DEF RepairInv, SnapshotFresh, WrittenIsExpected, PassesSettle, SettledBelow, Expected
<1>8. SkippedIsConsistent'
  BY <1>1 DEF PutAsideIsConsistent, SkippedIsConsistent, BothConsistent
<1>9. VerifiedIsConsistent'
  <2>1. \A j \in verified' : j \in verified \/ (j = i /\ CorrectionsAt(i) = {})
    BY DEF InspectPosition
  <2>2. \A j \in verified' : BothConsistent(table, j)
    BY <1>1, <1>2, <2>1, NothingToCorrect DEF PutAsideIsConsistent, VerifiedIsConsistent
  <2> QED BY <1>1, <2>2 DEF VerifiedIsConsistent, BothConsistent
<1> QED
  BY <1>1, <1>5, <1>6, <1>7, <1>8, <1>9
     DEF RepairedInv, RepairInv, PutAsideIsConsistent, PassesBounded

(* The value of a position is a number. *)
LEMMA BestValueType ==
  ASSUME NEW X \in SUBSET Dtm
  PROVE  BestValue(X) \in Int /\ Distance(BestValue(X)) \in Nat
<1>1. \A x \in X : x \in Int /\ (IsWin(x) \/ IsLoss(x) \/ x = Draw)
  BY ParityOfDtm
<1>2. CASE \E x \in X : IsLoss(x)
  <2>1. PICK l \in X : BestValue(X) = 1 - l
    BY <1>2, BestValueCases
  <2> QED BY <1>1, <2>1 DEF Distance
<1>3. CASE X # {} /\ \A x \in X : IsWin(x)
  <2>1. PICK m \in X : BestValue(X) = -(m + 1)
    BY <1>3, BestValueCases
  <2> QED BY <1>1, <2>1 DEF Distance
<1>4. CASE X = {}
  BY <1>4, BestValueCases DEF Distance
<1>5. CASE Draw \in X /\ \A x \in X : ~IsLoss(x)
  BY <1>5, BestValueCases DEF Distance, Draw
<1> QED BY <1>1, <1>2, <1>3, <1>4, <1>5

(* A pass settles one more distance: what all passes so far agree on below *)
(* n - 1 decides the values below n.                                       *)
LEMMA RepairedStartPass ==
  ASSUME RepairedInv, TypeOK', StartPass
  PROVE  RepairedInv'
<1>1. /\ TypeOK /\ RepairInv /\ PutAsideIsConsistent /\ PassesBounded
      /\ stage = "flush" /\ stage' = "check" /\ passes' = passes + 1
      /\ snapshot' = table /\ todo' = Worklist /\ passes \in Nat
      /\ corrections' = [w \in Worker |-> {}]
      /\ UNCHANGED <<game, table, verified, fullPass, pending, histogram, failed>>
  BY DEF RepairedInv, StartPass, Flushed, Worklist, TypeOK
<1>2. SnapshotFresh' /\ WrittenIsExpected'
  BY <1>1 DEF SnapshotFresh, WrittenIsExpected
<1>3. CorrectionsSound'
  BY <1>1, FS_EmptySet DEF CorrectionsSound
<1>4. InspectedWorklist'
  BY <1>1 DEF InspectedWorklist, Worklist
<1>5. \A side \in Sides, i \in Index :
        /\ Expected(side, i)' = ExpectedDtm(game, table, side, i)
        /\ Distance(ExpectedDtm(game, table, side, i)) \in Nat
        /\ Distance(table[side][i]) \in Nat
  <2>1. \A side \in Sides, i \in Index : table[side][i] \in Dtm
    BY <1>1 DEF TypeOK, Tables
  <2> QED BY <1>1, <2>1, SuccessorValuesType, BestValueType
          DEF Expected, ExpectedDtm, TypeOK, Dtm, Distance
<1>6. ASSUME NEW side \in Sides, NEW i \in Index,
             \/ table[side][i] # Draw /\ Distance(table[side][i]) < passes
             \/ /\ ExpectedDtm(game, table, side, i) # Draw
                /\ Distance(ExpectedDtm(game, table, side, i)) < passes
      PROVE  table[side][i] = ExpectedDtm(game, table, side, i)
  <2>1. PICK n \in Nat : passes = n + 1
    <3>1. passes # 0
      BY <1>5, <1>6
    <3>2. passes - 1 \in Nat /\ passes = (passes - 1) + 1
      BY <1>1, <3>1
    <3> QED BY <3>2
  <2>2. \A s \in Sides, j \in Index : table[s][j] = Expected(s, j)
    BY <1>1, <2>1 DEF RepairInv, WrittenIsExpected
  <2>3. SettledBelow(n)
    BY <1>1, <2>1 DEF RepairInv, PassesSettle
  <2>4. AgreeBelow(snapshot, table, n) /\ AgreeBelow(table, snapshot, n)
    BY <2>2, <2>3 DEF SettledBelow, AgreeBelow
  <2>5. /\ game \in GameGraphs /\ snapshot \in Tables /\ table \in Tables
        /\ table[side][i] = ExpectedDtm(game, snapshot, side, i)
    BY <1>1, <2>2 DEF TypeOK, Expected
  <2>6. CASE table[side][i] # Draw /\ Distance(table[side][i]) < passes
    <3>1. Distance(table[side][i]) <= n
      BY <1>5, <2>1, <2>6
    <3> QED BY <2>4, <2>5, <2>6, <3>1, ExpectedAgree
  <2>7. CASE /\ ExpectedDtm(game, table, side, i) # Draw
             /\ Distance(ExpectedDtm(game, table, side, i)) < passes
    <3>1. Distance(ExpectedDtm(game, table, side, i)) <= n
      BY <1>5, <2>1, <2>7
    <3> QED BY <2>4, <2>5, <2>7, <3>1, ExpectedAgree
  <2> QED BY <1>6, <2>6, <2>7
<1>7. PICK n \in Nat : n = passes
  BY <1>1
<1>8. SettledBelow(n)'
  <2>1. \A side \in Sides, i \in Index :
          \/ table[side][i] # Draw /\ Distance(table[side][i]) < n
          \/ Expected(side, i)' # Draw /\ Distance(Expected(side, i)') < n
          => table[side][i] = Expected(side, i)'
    BY <1>5, <1>6, <1>7
  <2> QED BY <1>1, <2>1 DEF SettledBelow
<1>9. PassesSettle' /\ PassesBounded'
  <2>1. passes' - 1 = n /\ 0 < passes' /\ passes <= MaxLoss + 1
    BY <1>1, <1>7 DEF RepairInv, PassesSettle
  <2> QED BY <1>1, <1>7, <1>8, <2>1, MaxWinAssumption DEF PassesSettle, PassesBounded, MaxLoss
<1>10. PutAsideIsConsistent'
  BY <1>1 DEF PutAsideIsConsistent, SkippedIsConsistent, VerifiedIsConsistent, BothConsistent
<1> QED
  BY <1>1, <1>2, <1>3, <1>4, <1>9, <1>10 DEF RepairedInv, RepairInv

(* No pass writes a position that the corrections leave alone, and one     *)
(* that none of its neighbours' corrections can disturb stays consistent.  *)
LEMMA RepairedApply ==
  ASSUME RepairedInv, TypeOK', ApplyCorrections
  PROVE  RepairedInv'
<1>1. /\ TypeOK /\ RepairInv /\ PutAsideIsConsistent /\ PassesBounded
      /\ stage = "apply" /\ stage' = "flush" /\ ~Settled /\ fullPass' = FALSE
      /\ table' = Written(table, Collected)
      /\ pending' = UNION {Neighbours(i) : i \in Corrected}
      /\ verified' = verified \ UNION {Unverified(i) : i \in Corrected}
      /\ UNCHANGED <<game, snapshot, todo, corrections, failed, passes>>
  BY DEF RepairedInv, ApplyCorrections
<1>2. snapshot = table /\ CorrectionsSound /\ 0 < passes /\ passes \in Nat
  BY <1>1 DEF RepairInv, SnapshotFresh, PassesSettle, TypeOK
<1>3. \A side \in Sides, i \in Index :
        /\ Expected(side, i) \in Dtm
        /\ table'[side][i] = Expected(side, i)
        /\ table'[side][i] # table[side][i] => i \in Corrected
  BY <1>1, AllCollected
<1>4. SnapshotFresh' /\ InspectedWorklist' /\ CorrectionsSound'
  BY <1>1, <1>2 DEF SnapshotFresh, InspectedWorklist, CorrectionsSound
<1>5. WrittenIsExpected'
  BY <1>1, <1>2, <1>3 DEF WrittenIsExpected, Expected
<1>6. PICK n \in Nat : n = passes - 1
  BY <1>2
<1>7. SettledBelow(n)
  BY <1>1, <1>2, <1>6 DEF RepairInv, PassesSettle
<1>8. passes <= MaxLoss + 1
  <2> SUFFICES ASSUME ~(passes <= MaxLoss + 1) PROVE FALSE
    OBVIOUS
  <2>1. n = MaxLoss + 1
    BY <1>1, <1>2, <1>6, MaxWinAssumption DEF PassesBounded, MaxLoss
  <2>2. PICK w \in Worker : corrections[w] # {}
    BY <1>1 DEF Settled, Collected
  <2>3. PICK c \in corrections[w] : c.index \in Index /\ c \in CorrectionsAt(c.index)
    BY <1>1, <1>2, <2>2 DEF CorrectionsSound, TypeOK, Corrections
  <2>4. PICK side \in Sides, i \in Index : Expected(side, i) # snapshot[side][i]
    BY <1>1, <2>3, CorrectionsAtFacts
  <2>5. snapshot[side][i] \in Dtm /\ Expected(side, i) \in Dtm
    BY <1>1, <1>3 DEF TypeOK, Tables
  <2>6. \A x \in Dtm : Distance(x) < n
    BY <2>1, MaxWinAssumption DEF Dtm, Distance, MaxLoss
  <2> QED BY <1>7, <2>4, <2>5, <2>6 DEF SettledBelow
<1>9. PassesSettle' /\ PassesBounded'
  <2>1. SettledBelow(n)'
    BY <1>1, <1>7 DEF SettledBelow, Expected
  <2> QED BY <1>1, <1>2, <1>6, <1>8, <2>1 DEF PassesSettle, PassesBounded
<1>10. ASSUME NEW i \in Index, \A side \in Sides : \A j \in game.succ[side][i] : j \notin Corrected
       PROVE  \A side \in Sides :
                ExpectedDtm(game, table', side, i) = ExpectedDtm(game, table, side, i)
  <2> SUFFICES ASSUME NEW side \in Sides
               PROVE  SuccessorValues(game, table', side, i) = SuccessorValues(game, table, side, i)
    BY DEF ExpectedDtm
  <2>1. game.succ[side][i] \subseteq Index /\ Opposite(side) \in Sides
    BY <1>1, SidesAndOpposite DEF TypeOK, GameGraphs
  <2>2. \A j \in game.succ[side][i] : table'[Opposite(side)][j] = table[Opposite(side)][j]
    BY <1>3, <1>10, <2>1
  <2> QED BY <2>2 DEF SuccessorValues
<1>11. ASSUME NEW i \in Index, NEW side \in Sides, NEW j \in game.succ[side][i]
       PROVE  i \in Predecessors(game, Opposite(side), j) /\ Opposite(side) \in Sides
  BY <1>11, SidesAndOpposite DEF Predecessors
<1>12. SkippedIsConsistent'
  <2> SUFFICES ASSUME NEW i \in Index \ pending', NEW side \in Sides
               PROVE  table'[side][i] = ExpectedDtm(game, table', side, i)
    BY <1>1 DEF SkippedIsConsistent, BothConsistent, ConsistentAt
  <2>1. \A s \in Sides : \A j \in game.succ[s][i] : j \notin Corrected
    <3> SUFFICES ASSUME NEW s \in Sides, NEW j \in game.succ[s][i], j \in Corrected
                 PROVE  FALSE
      OBVIOUS
    <3>1. i \in Neighbours(j)
      BY <1>11 DEF Neighbours
    <3> QED BY <1>1, <3>1
  <2> QED BY <1>2, <1>3, <1>10, <2>1 DEF Expected
<1>13. VerifiedIsConsistent'
  <2> SUFFICES ASSUME NEW i \in verified', NEW side \in Sides
               PROVE  table'[side][i] = ExpectedDtm(game, table', side, i)
    BY <1>1 DEF VerifiedIsConsistent, BothConsistent, ConsistentAt
  <2>1. i \in verified /\ i \in Index
    BY <1>1 DEF TypeOK
  <2>2. table[side][i] = ExpectedDtm(game, table, side, i)
    BY <1>1, <2>1
       DEF PutAsideIsConsistent, VerifiedIsConsistent, BothConsistent, ConsistentAt
  <2>3. \A s \in Sides : \A j \in game.succ[s][i] : j \notin Corrected
    <3> SUFFICES ASSUME NEW s \in Sides, NEW j \in game.succ[s][i], j \in Corrected
                 PROVE  FALSE
      OBVIOUS
    <3>1. i \in Unverified(j)
      BY <1>11, <2>1 DEF Unverified
    <3> QED BY <1>1, <3>1
  <2>4. ExpectedDtm(game, table', side, i) = ExpectedDtm(game, table, side, i)
    BY <1>10, <2>1, <2>3
  <2> QED BY <1>2, <1>3, <2>1, <2>2, <2>4 DEF Expected
<1> QED
  BY <1>1, <1>4, <1>5, <1>9, <1>12, <1>13
     DEF RepairedInv, RepairInv, PutAsideIsConsistent

(* A pass whose workers all succeeded has inspected every position, or has *)
(* left it out because it is consistent.                                   *)
LEMMA RepairedEndCheck ==
  ASSUME RepairedInv, TypeOK', EndCheck
  PROVE  RepairedInv'
<1>1. /\ TypeOK /\ RepairInv /\ PutAsideIsConsistent /\ PassesBounded
      /\ stage = "check" /\ Joined
      /\ stage' = IF failed = {} THEN "apply" ELSE "failed"
      /\ UNCHANGED <<game, table, snapshot, verified, fullPass, pending, todo,
                     corrections, histogram, failed, passes>>
  BY DEF RepairedInv, EndCheck, Joined
<1>2. snapshot = table /\ CorrectionsSound
  BY <1>1 DEF RepairInv, SnapshotFresh
<1>3. ASSUME failed = {}, NEW i \in Index PROVE Inspected(i)
  <2>1. todo = {}
    BY <1>1, <1>3 DEF Joined, TypeOK
  <2>2. CASE i \in Worklist
    BY <1>1, <2>1, <2>2 DEF RepairInv, InspectedWorklist
  <2>3. CASE i \notin Worklist
    <3>1. BothConsistent(table, i)
      BY <1>1, <1>3, <2>3 DEF Worklist, PutAsideIsConsistent, SkippedIsConsistent
    <3>2. CorrectionsAt(i) = {}
      BY <1>1, <1>2, <3>1, NothingToCorrect
    <3>3. Representable(i)
      <4>1. \A side \in Sides : Expected(side, i) = table[side][i]
        BY <1>2, <3>1 DEF BothConsistent, ConsistentAt, Expected
      <4> QED BY <1>1, <4>1 DEF Representable, TypeOK, Tables
    <3> QED BY <3>2, <3>3 DEF Inspected
  <2> QED BY <2>2, <2>3
<1>4. \A i \in Index : Inspected(i) <=> Inspected(i)'
  BY <1>1 DEF Inspected, CorrectionsAt, Representable, Expected
<1>5. InspectedWorklist'
  BY <1>1, <1>3, <1>4 DEF InspectedWorklist
<1>6. \A i : CorrectionsAt(i)' = CorrectionsAt(i)
  BY <1>1 DEF CorrectionsAt, Expected
<1>7. CorrectionsSound' /\ SnapshotFresh'
  BY <1>1, <1>2, <1>6 DEF CorrectionsSound, SnapshotFresh
<1>8. WrittenIsExpected' /\ PassesSettle' /\ PassesBounded'
  BY <1>1
     DEF RepairInv, WrittenIsExpected, PassesSettle, SettledBelow, Expected, PassesBounded
<1>9. PutAsideIsConsistent'
  BY <1>1 DEF PutAsideIsConsistent, SkippedIsConsistent, VerifiedIsConsistent, BothConsistent
<1> QED BY <1>1, <1>5, <1>7, <1>8, <1>9 DEF RepairedInv, RepairInv

(* A pass without corrections ends the repair: the table is consistent.    *)
LEMMA RepairedConverged ==
  ASSUME RepairedInv, TypeOK', Converged
  PROVE  RepairedInv'
<1>1. /\ TypeOK /\ RepairInv /\ PutAsideIsConsistent /\ PassesBounded
      /\ stage = "apply" /\ stage' = "done" /\ Settled
      /\ UNCHANGED <<game, table, snapshot, verified, fullPass, pending, todo,
                     corrections, histogram, failed, passes>>
  BY DEF RepairedInv, Converged
<1>2. snapshot = table
  BY <1>1 DEF RepairInv, SnapshotFresh
<1>3. \A side \in Sides, i \in Index : Expected(side, i) = table[side][i]
  BY <1>1, AllCollected DEF Settled, Corrected
<1>4. Consistent(game, table)
  BY <1>2, <1>3 DEF Consistent, ConsistentAt, Expected
<1>5. /\ SnapshotFresh' /\ CorrectionsSound' /\ InspectedWorklist'
      /\ WrittenIsExpected' /\ PassesSettle' /\ PassesBounded'
  BY <1>1
     DEF RepairInv, SnapshotFresh, CorrectionsSound, InspectedWorklist,
         WrittenIsExpected, PassesSettle, PassesBounded
<1>6. PutAsideIsConsistent'
  BY <1>1 DEF PutAsideIsConsistent, SkippedIsConsistent, VerifiedIsConsistent, BothConsistent
<1> QED BY <1>1, <1>4, <1>5, <1>6 DEF RepairedInv, RepairInv

LEMMA RepairedFailure ==
  ASSUME RepairedInv, TypeOK', CoordinatorFault \/ ApplyFails
  PROVE  RepairedInv'
<1>1. /\ stage' = "failed" /\ UNCHANGED <<corrections, passes>>
  BY DEF CoordinatorFault, ApplyFails
<1> QED
  BY <1>1
     DEF RepairedInv, RepairInv, SnapshotFresh, CorrectionsSound, InspectedWorklist,
         WrittenIsExpected, PassesSettle, PassesBounded, PutAsideIsConsistent,
         SkippedIsConsistent, VerifiedIsConsistent

(* A worker that fails, or nothing at all.                                 *)
LEMMA RepairedUnmoved ==
  ASSUME RepairedInv, TypeOK', UNCHANGED vars \/ \E i \in Index : InspectionFails(i)
  PROVE  RepairedInv'
<1>1. /\ UNCHANGED <<game, table, snapshot, verified, fullPass, pending, stage,
                     todo, corrections, histogram, passes>>
      /\ stage = "apply" => failed' = failed
  BY DEF InspectionFails, Inspecting, vars
<1>2. /\ SnapshotFresh' /\ WrittenIsExpected' /\ PassesSettle' /\ PassesBounded'
  BY <1>1
     DEF RepairedInv, RepairInv, SnapshotFresh, WrittenIsExpected, PassesSettle,
         SettledBelow, Expected, PassesBounded
<1>3. \A i : CorrectionsAt(i)' = CorrectionsAt(i) /\ (Representable(i)' <=> Representable(i))
  BY <1>1 DEF CorrectionsAt, Representable, Expected
<1>4. CorrectionsSound'
  BY <1>1, <1>3 DEF RepairedInv, RepairInv, CorrectionsSound
<1>5. InspectedWorklist'
  <2>1. \A i \in Index : Inspected(i)' <=> Inspected(i)
    BY <1>1, <1>3 DEF Inspected
  <2>2. Worklist' = Worklist /\ Worklist \subseteq Index
    BY <1>1 DEF Worklist, RepairedInv, TypeOK
  <2> QED BY <1>1, <2>1, <2>2 DEF RepairedInv, RepairInv, InspectedWorklist
<1>6. PutAsideIsConsistent' /\ (stage = "done" => Consistent(game, table))'
  BY <1>1 DEF RepairedInv, PutAsideIsConsistent, SkippedIsConsistent,
              VerifiedIsConsistent, BothConsistent, Consistent
<1> QED BY <1>2, <1>4, <1>5, <1>6 DEF RepairedInv, RepairInv

LEMMA RepairedStep == RepairedInv /\ [Next]_vars => RepairedInv'
<1> SUFFICES ASSUME RepairedInv, [Next]_vars PROVE RepairedInv'
  OBVIOUS
<1>1. TypeOK'
  BY TypeStep DEF RepairedInv
<1> QED
  BY <1>1, RepairedInspect, RepairedStartPass, RepairedApply, RepairedEndCheck,
     RepairedConverged, RepairedFailure, RepairedUnmoved
     DEF Next, Inspect, Coordinate, Terminated

(* The repair ends with a fixed point of the whole table, whatever its     *)
(* passes skipped, and within as many passes as there are distances; what  *)
(* it puts aside for the final verification is right at every step.        *)
THEOREM RepairCorrect == Spec => []RepairedIsConsistent
<1>1. RepairedInv => RepairedIsConsistent
  BY DEF RepairedInv, RepairedIsConsistent
<1> QED BY <1>1, RepairedInitially, RepairedStep, PTL DEF Spec

(* So a completed repair has solved the game: what it leaves does not      *)
(* depend on the damaged table it started from.                            *)
RepairedIsTheSolution ==
  stage = "done" => \A t \in Tables : Consistent(game, t) => t = table

THEOREM RepairSolves == Spec => []RepairedIsTheSolution
<1>1. RepairedInv => RepairedIsTheSolution
  BY UniqueTable DEF RepairedInv, RepairedIsTheSolution, TypeOK
<1> QED BY <1>1, RepairedInitially, RepairedStep, PTL DEF Spec

-----------------------------------------------------------------------------
(* The histogram.                                                          *)
LEMMA SameSize ==
  ASSUME NEW S, NEW T, IsFiniteSet(S), NEW f \in [S -> T],
         \A x, y \in S : f[x] = f[y] => x = y,
         \A z \in T : \E x \in S : f[x] = z
  PROVE  IsFiniteSet(T) /\ Cardinality(T) = Cardinality(S)
<1>1. f \in Bijection(S, T)
  BY DEF Bijection, Injection, IsInjective, Surjection
<1> QED BY <1>1, FS_Bijection DEF ExistsBijection

(* What leaves a set and what comes to it. *)
LEMMA ExchangedSize ==
  ASSUME NEW S, IsFiniteSet(S), NEW A \in SUBSET S, NEW B, IsFiniteSet(B), B \cap S = {}
  PROVE  /\ IsFiniteSet((S \ A) \cup B)
         /\ Cardinality((S \ A) \cup B) = Cardinality(S) - Cardinality(A) + Cardinality(B)
         /\ {Cardinality(S), Cardinality(A), Cardinality(B)} \subseteq Nat
<1>1. IsFiniteSet(A) /\ IsFiniteSet(S \ A)
  <2>1. S \ A \in SUBSET S
    OBVIOUS
  <2> QED BY <2>1, FS_Subset
<1>2. A \cup (S \ A) = S /\ A \cap (S \ A) = {} /\ (S \ A) \cap B = {}
  OBVIOUS
<1>3. Cardinality(S) = Cardinality(A) + Cardinality(S \ A) - 0
  BY <1>1, <1>2, FS_Union, FS_EmptySet
<1>4. /\ IsFiniteSet((S \ A) \cup B)
      /\ Cardinality((S \ A) \cup B) = Cardinality(S \ A) + Cardinality(B) - 0
  BY <1>1, <1>2, FS_Union, FS_EmptySet
<1>5. {Cardinality(S), Cardinality(A), Cardinality(B), Cardinality(S \ A)} \subseteq Nat
  BY <1>1, FS_CardinalityType
<1> QED BY <1>3, <1>4, <1>5

LEMMA FinitePlaces == \A P \in SUBSET (Sides \X Index) : IsFiniteSet(P)
<1>1. IsFiniteSet(Sides \X Index)
  BY FiniteSides, PositionsAssumption, FS_Product
<1> QED BY <1>1, FS_Subset

LEMMA HistogramInitially == Init => HistogramInv
<1> SUFFICES ASSUME Init PROVE HistogramInv
  OBVIOUS
<1>1. Uncounted = Index
  BY DEF Init, Uncounted
<1>2. \A w \in Worker, v \in Dtm : Places(w, v) = {}
  BY <1>1 DEF Places
<1> QED BY <1>2, FS_EmptySet DEF Init, HistogramInv

(* The first pass counts the two values of the position it has come to.    *)
LEMMA HistogramInspect ==
  ASSUME RepairedInv, HistogramInv, NEW i \in Index, InspectPosition(i)
  PROVE  HistogramInv'
<1>1. /\ TypeOK /\ stage = "check" /\ i \in todo /\ todo' = todo \ {i}
      /\ snapshot = table
      /\ histogram' = [histogram EXCEPT ![Owner[i]] = Counted(@, i)]
      /\ UNCHANGED <<table, fullPass, stage>>
  BY DEF RepairedInv, RepairInv, SnapshotFresh, InspectPosition, Inspecting
<1> SUFFICES ASSUME NEW w \in Worker, NEW v \in Dtm
             PROVE  histogram'[w][v] = Cardinality(Places(w, v)')
  BY <1>1 DEF HistogramInv
<1>2. histogram[w][v] = Cardinality(Places(w, v)) /\ histogram[w] \in [Dtm -> Int]
  BY <1>1 DEF HistogramInv, TypeOK
<1>3. CASE ~fullPass \/ w # Owner[i]
  <2>1. histogram'[w] = histogram[w]
    BY <1>1, <1>3, WorkAssumption DEF Counted, TypeOK
  <2>2. Places(w, v)' = Places(w, v)
    BY <1>1, <1>3 DEF Places, Uncounted
  <2> QED BY <1>2, <2>1, <2>2
<1>4. CASE fullPass /\ w = Owner[i]
  <2> DEFINE S == {s \in Sides : table[s][i] = v}
             B == S \X {i}
  <2>1. IsFiniteSet(B) /\ Cardinality(B) = Cardinality(S)
    <3>1. IsFiniteSet(S)
      BY FiniteSides
    <3> DEFINE f == [s \in S |-> <<s, i>>]
    <3>2. f \in [S -> B] /\ \A x, y \in S : f[x] = f[y] => x = y
      OBVIOUS
    <3>3. \A z \in B : \E x \in S : f[x] = z
      OBVIOUS
    <3> HIDE DEF f, S, B
    <3> QED BY <3>1, <3>2, <3>3, SameSize
  <2>2. Places(w, v)' = (Places(w, v) \ {}) \cup B
    BY <1>1, <1>4 DEF Places, Uncounted, TypeOK
  <2>3. B \cap Places(w, v) = {}
    BY <1>1, <1>4 DEF Places, Uncounted
  <2>4. IsFiniteSet(Places(w, v))
    BY FinitePlaces DEF Places
  <2>5. Cardinality(Places(w, v)') = Cardinality(Places(w, v)) + Cardinality(S)
        /\ Cardinality(S) \in Nat
    <3> HIDE DEF B, S
    <3>1. {} \in SUBSET Places(w, v)
      OBVIOUS
    <3>2. Cardinality({}) = 0
      BY FS_EmptySet
    <3>3. /\ Cardinality((Places(w, v) \ {}) \cup B)
               = Cardinality(Places(w, v)) - Cardinality({}) + Cardinality(B)
          /\ {Cardinality(Places(w, v)), Cardinality(B)} \subseteq Nat
      BY <2>1, <2>3, <2>4, <3>1, ExchangedSize
    <3> QED BY <2>1, <2>2, <3>2, <3>3
  <2>6. histogram'[w][v] = histogram[w][v] + Cardinality(S)
    BY <1>1, <1>4, WorkAssumption DEF Counted, TypeOK
  <2> QED BY <1>2, <2>5, <2>6
<1> QED BY <1>3, <1>4

(* Each correction moves the count of one value at one place.              *)
LEMMA MovedSize ==
  ASSUME RepairedInv, stage = "apply", NEW w \in Worker, NEW P,
         NEW M \in SUBSET corrections[w],
         P = {e \in Sides \X Index : \E c \in M : c.side = e[1] /\ c.index = e[2]}
  PROVE  IsFiniteSet(P) /\ Cardinality(P) = Cardinality(M)
<1>1. TypeOK /\ CorrectionsSound
  BY DEF RepairedInv, RepairInv
<1>2. IsFiniteSet(M)
  BY <1>1, FS_Subset DEF CorrectionsSound
<1>3. \A c \in M : /\ c \in Corrections /\ c.old = snapshot[c.side][c.index]
                   /\ c.new = Expected(c.side, c.index)
  <2> SUFFICES ASSUME NEW c \in M
               PROVE  /\ c \in Corrections /\ c.old = snapshot[c.side][c.index]
                      /\ c.new = Expected(c.side, c.index)
    OBVIOUS
  <2>1. c \in Corrections /\ c.index \in Index /\ c \in CorrectionsAt(c.index)
    BY <1>1 DEF CorrectionsSound, TypeOK, Corrections
  <2> QED BY <1>1, <2>1, CorrectionsAtFacts
<1> DEFINE f == [c \in M |-> <<c.side, c.index>>]
<1>4. \A x, y \in M : f[x] = f[y] => x = y
  <2> SUFFICES ASSUME NEW x \in M, NEW y \in M, f[x] = f[y] PROVE x = y
    OBVIOUS
  <2>1. x.side = y.side /\ x.index = y.index
    OBVIOUS
  <2>2. x.old = y.old /\ x.new = y.new
    BY <1>3, <2>1
  <2> QED BY <1>3, <2>1, <2>2 DEF Corrections
<1>5. f \in [M -> P]
  <2>1. \A c \in M : <<c.side, c.index>> \in P
    BY <1>3 DEF Corrections
  <2> QED BY <2>1
<1>6. \A z \in P : \E x \in M : f[x] = z
  OBVIOUS
<1> HIDE DEF f
<1> QED BY <1>2, <1>4, <1>5, <1>6, SameSize

LEMMA HistogramApply ==
  ASSUME RepairedInv, HistogramInv, ApplyCorrections
  PROVE  HistogramInv'
<1>1. /\ TypeOK /\ RepairInv /\ CorrectionsSound /\ snapshot = table
      /\ stage = "apply" /\ stage' = "flush" /\ fullPass' = FALSE
      /\ table' = Written(table, Collected)
      /\ histogram' = [w \in Worker |-> Moved(histogram[w], corrections[w])]
  BY DEF RepairedInv, RepairInv, SnapshotFresh, ApplyCorrections
<1>2. Uncounted = {} /\ Uncounted' = {}
  BY <1>1 DEF HistogramInv, Uncounted
<1> SUFFICES ASSUME NEW w \in Worker, NEW v \in Dtm
             PROVE  histogram'[w][v] = Cardinality(Places(w, v)')
  BY <1>1, <1>2 DEF HistogramInv
<1> DEFINE Moves(M) == {e \in Sides \X Index : \E c \in M : c.side = e[1] /\ c.index = e[2]}
           Old == {c \in corrections[w] : c.old = v}
           New == {c \in corrections[w] : c.new = v}
           A == Moves(Old)
           B == Moves(New)
<1>3. IsFiniteSet(A) /\ Cardinality(A) = Cardinality(Old)
      /\ IsFiniteSet(B) /\ Cardinality(B) = Cardinality(New)
  <2>1. \A M \in SUBSET corrections[w] :
          IsFiniteSet(Moves(M)) /\ Cardinality(Moves(M)) = Cardinality(M)
    BY <1>1, MovedSize
  <2>2. Old \in SUBSET corrections[w] /\ New \in SUBSET corrections[w]
    OBVIOUS
  <2> HIDE DEF Moves, Old, New
  <2> QED BY <2>1, <2>2
<1>4. \A c \in corrections[w] :
        /\ c.side \in Sides /\ c.index \in Index /\ Owner[c.index] = w
        /\ c.old = table[c.side][c.index] /\ c.new = Expected(c.side, c.index)
        /\ c.new # c.old
  <2> SUFFICES ASSUME NEW c \in corrections[w]
               PROVE  /\ c.side \in Sides /\ c.index \in Index /\ Owner[c.index] = w
                      /\ c.old = table[c.side][c.index] /\ c.new = Expected(c.side, c.index)
                      /\ c.new # c.old
    OBVIOUS
  <2>1. c.index \in Index /\ c \in CorrectionsAt(c.index) /\ Owner[c.index] = w
    BY <1>1 DEF CorrectionsSound, TypeOK, Corrections
  <2> QED BY <1>1, <2>1, CorrectionsAtFacts
<1>5. ASSUME NEW side \in Sides, NEW i \in Index, Owner[i] = w,
             Expected(side, i) # table[side][i]
      PROVE  \E c \in corrections[w] : c.side = side /\ c.index = i
  <2>1. [side |-> side, index |-> i, old |-> snapshot[side][i],
         new |-> Expected(side, i)] \in CorrectionsAt(i)
    BY <1>1, <1>5, CorrectionsAtFacts
  <2>2. CorrectionsAt(i) \subseteq corrections[w]
    BY <1>1, <1>5 DEF RepairInv, InspectedWorklist, Inspected
  <2> QED BY <2>1, <2>2
<1>6. A \in SUBSET Places(w, v) /\ B \cap Places(w, v) = {}
  BY <1>2, <1>4 DEF Places
<1>7. Places(w, v)' = (Places(w, v) \ A) \cup B
  <2>1. \A side \in Sides, i \in Index : table'[side][i] = Expected(side, i)
    BY <1>1, AllCollected
  <2> SUFFICES ASSUME NEW side \in Sides, NEW i \in Index, Owner[i] = w
               PROVE  Expected(side, i) = v <=>
                        \/ table[side][i] = v /\ <<side, i>> \notin A
                        \/ <<side, i>> \in B
    BY <1>2, <1>4, <2>1 DEF Places
  <2>2. \A c \in corrections[w] : c.side = side /\ c.index = i =>
          c.old = table[side][i] /\ c.new = Expected(side, i) /\ c.new # c.old
    BY <1>4
  <2>3. CASE Expected(side, i) = table[side][i]
    BY <2>2, <2>3
  <2>4. CASE Expected(side, i) # table[side][i]
    <3>1. PICK c \in corrections[w] : c.side = side /\ c.index = i
      BY <1>5, <2>4
    <3> QED BY <2>2, <2>4, <3>1
  <2> QED BY <2>3, <2>4
<1>8. IsFiniteSet(Places(w, v))
  BY FinitePlaces DEF Places
<1>9. histogram'[w][v] = histogram[w][v] - Cardinality(Old) + Cardinality(New)
  BY <1>1 DEF Moved
<1>10. histogram[w][v] = Cardinality(Places(w, v))
  BY <1>1 DEF HistogramInv
<1> HIDE DEF A, B, Old, New
<1> QED BY <1>3, <1>6, <1>7, <1>8, <1>9, <1>10, ExchangedSize

LEMMA HistogramStep ==
  ASSUME RepairedInv, HistogramInv, [Next]_vars
  PROVE  HistogramInv'
<1>1. ASSUME UNCHANGED <<table, histogram>>,
             stage' # "failed" => /\ stage # "failed" /\ Uncounted' = Uncounted
                                  /\ stage' \in {"apply", "done"} => Uncounted = {}
      PROVE  HistogramInv'
  <2>1. CASE stage' = "failed"
    BY <2>1 DEF HistogramInv
  <2>2. CASE stage' # "failed"
    BY <1>1, <2>2 DEF HistogramInv, Places
  <2> QED BY <2>1, <2>2
<1>2. CASE StartPass
  BY <1>1, <1>2 DEF StartPass, Uncounted
<1>3. CASE EndCheck
  <2>1. failed = {} => todo = {}
    BY <1>3 DEF EndCheck, Joined, RepairedInv, TypeOK
  <2> QED BY <1>1, <1>3, <2>1 DEF EndCheck, Joined, Uncounted
<1>4. CASE Converged
  BY <1>1, <1>4 DEF Converged, Uncounted, HistogramInv
<1>5. CASE CoordinatorFault \/ ApplyFails
  BY <1>5 DEF CoordinatorFault, ApplyFails, HistogramInv
<1>6. CASE UNCHANGED vars \/ \E i \in Index : InspectionFails(i)
  <2>1. UNCHANGED <<table, histogram, stage, fullPass, todo>>
    BY <1>6 DEF vars, InspectionFails
  <2> QED BY <1>1, <2>1 DEF Uncounted, HistogramInv
<1> QED
  BY <1>2, <1>3, <1>4, <1>5, <1>6, HistogramInspect, HistogramApply
     DEF Next, Inspect, Coordinate, Terminated

(* The histogram the repair reports its maximum from is exact, although a  *)
(* later pass counts nothing: the corrections keep it so.                  *)
THEOREM HistogramCorrect == Spec => []HistogramExact
<1>1. RepairedInv /\ HistogramInv => HistogramExact
  <2> SUFFICES ASSUME HistogramInv, stage = "done" \/ (stage = "flush" /\ ~fullPass),
                      NEW w \in Worker, NEW v \in Dtm
               PROVE  histogram[w][v] =
                        Cardinality({e \in Sides \X Index :
                                       Owner[e[2]] = w /\ table[e[1]][e[2]] = v})
    BY DEF HistogramExact
  <2>1. Uncounted = {}
    BY DEF HistogramInv, Uncounted
  <2>2. Places(w, v) = {e \in Sides \X Index : Owner[e[2]] = w /\ table[e[1]][e[2]] = v}
    BY <2>1 DEF Places
  <2> QED BY <2>2 DEF HistogramInv
<1>2. RepairedInv /\ HistogramInv /\ [Next]_vars => RepairedInv' /\ HistogramInv'
  BY RepairedStep, HistogramStep
<1>3. Init => RepairedInv /\ HistogramInv
  BY RepairedInitially, HistogramInitially
<1> QED BY <1>1, <1>2, <1>3, PTL DEF Spec

-----------------------------------------------------------------------------
(***************************************************************************)
(* Verification and publication.                                           *)
(***************************************************************************)
(* The verification is about the same games and values.                    *)
LEMMA SameGame ==
  /\ V!Sides = Sides /\ V!Dtm = Dtm
  /\ \A g, t, side, i : /\ V!ExpectedDtm(g, t, side, i) = ExpectedDtm(g, t, side, i)
                        /\ V!ConsistentAt(g, t, side, i) <=> ConsistentAt(g, t, side, i)
  /\ \A g, t : V!Consistent(g, t) <=> Consistent(g, t)
<1>1. V!Sides = Sides /\ V!Dtm = Dtm
  BY DEF Sides, V!Sides, Dtm, V!Dtm, MaxLoss, V!MaxLoss, Draw, V!Draw
<1>2. \A S : V!BestValue(S) = BestValue(S)
  BY DEF BestValue, V!BestValue, IsLoss, V!IsLoss, Draw, V!Draw, Max, V!Max
<1>3. \A g, t, side, i : V!SuccessorValues(g, t, side, i) = SuccessorValues(g, t, side, i)
  BY DEF SuccessorValues, V!SuccessorValues, Opposite, V!Opposite
<1>4. \A g, t, side, i : V!ExpectedDtm(g, t, side, i) = ExpectedDtm(g, t, side, i)
  BY <1>2, <1>3 DEF ExpectedDtm, V!ExpectedDtm
<1>5. \A g, t, side, i : V!ConsistentAt(g, t, side, i) <=> ConsistentAt(g, t, side, i)
  BY <1>4 DEF ConsistentAt, V!ConsistentAt
<1> QED BY <1>1, <1>4, <1>5 DEF Consistent, V!Consistent

(* A worker reports a mismatch only of a value that is wrong.              *)
LEMMA PositionResultFacts ==
  ASSUME NEW i \in Index
  PROVE  /\ V!PositionResult(i) \in V!Results
         /\ V!PositionResult(i) = "ok" =>
              \A side \in Sides : ConsistentAt(fileGame, Source, side, i)
         /\ V!PositionResult(i) = "mismatch" => ~Consistent(fileGame, Source)
<1>1. ASSUME NEW side \in Sides
      PROVE  /\ V!SideResult(side, i) \in V!Results
             /\ V!SideResult(side, i) = "ok" => ConsistentAt(fileGame, Source, side, i)
             /\ V!SideResult(side, i) = "mismatch" => ~ConsistentAt(fileGame, Source, side, i)
  BY SameGame DEF V!SideResult, V!Results, V!Matches, ConsistentAt
<1>2. "WTM" \in Sides /\ "BTM" \in Sides /\ \A side \in Sides : side \in {"WTM", "BTM"}
  BY DEF Sides
<1>3. /\ V!PositionResult(i) \in {V!SideResult("WTM", i), V!SideResult("BTM", i)}
      /\ V!PositionResult(i) = "ok" =>
           V!SideResult("WTM", i) = "ok" /\ V!SideResult("BTM", i) = "ok"
  BY DEF V!PositionResult
<1> QED BY <1>1, <1>2, <1>3 DEF Consistent

(* The state of a verification that has just started. *)
LEMMA VerdictStarts ==
  ASSUME NEW l, NEW t, NEW r, NEW e, NEW v, V!Started(l, t, r, e, v)
  PROVE  /\ t \subseteq Index /\ l \subseteq Index /\ t \cup l = Index
         /\ r \in [Worker -> V!Results] /\ \A w \in Worker : r[w] = "ok"
         /\ v = "none"
<1>1. V!Round(Index) \subseteq Index
  BY DEF V!Round
<1> QED BY <1>1 DEF V!Started, V!Results

LEMMA VerdictInitially ==
  ASSUME V!Started(left, scanned, result, examples, verdict)
  PROVE  V!VerdictInv
BY VerdictStarts DEF V!VerdictInv, V!Done

(* The verification's steps: what they leave of the work, and what the     *)
(* workers say.                                                            *)
LEMMA VerdictStep ==
  ASSUME V!VerdictInv, V!Next, UNCHANGED <<file, resident>>
  PROVE  /\ V!VerdictInv'
         /\ UNCHANGED <<fileGame, skip>>
         /\ verdict = "none"
<1>1. /\ UNCHANGED <<fileGame, skip, file, resident>> /\ verdict = "none" /\ Source' = Source
  BY DEF V!Next, V!Work, V!SkipPosition, V!CheckPosition, V!ReadFails, V!Working,
         V!NextRound, V!Conclude, V!CoordinatorFault, V!RoundJoined, Source
<1>2. /\ scanned \subseteq Index /\ left \subseteq Index /\ result \in [Worker -> V!Results]
      /\ \A i \in Index : V!Done(i)
      /\ \A w \in Worker : result[w] = "mismatch" => ~Consistent(fileGame, Source)
      /\ Owner \in [Index -> Worker]
  BY SameGame, WorkAssumption DEF V!VerdictInv
<1>4. CASE \E i \in Index : V!SkipPosition(i)
  BY <1>1, <1>2, <1>4 DEF V!SkipPosition, V!VerdictInv, V!Done
<1>5. ASSUME NEW i \in Index, V!CheckPosition(i) PROVE V!VerdictInv'
  <2>1. /\ scanned' = scanned \ {i} /\ result[Owner[i]] = "ok" /\ UNCHANGED <<left, verdict>>
        /\ result' = [result EXCEPT ![Owner[i]] = V!PositionResult(i)]
    BY <1>5 DEF V!CheckPosition, V!Working
  <2>2. /\ V!PositionResult(i) \in V!Results
        /\ V!PositionResult(i) = "ok" => \A side \in Sides : ConsistentAt(fileGame, Source, side, i)
        /\ V!PositionResult(i) = "mismatch" => ~Consistent(fileGame, Source)
    BY PositionResultFacts
  <2>3. result' \in [Worker -> V!Results]
    BY <1>2, <2>1, <2>2
  <2>4. \A j \in Index : V!Done(j)'
    <3> SUFFICES ASSUME NEW j \in Index PROVE V!Done(j)'
      OBVIOUS
    <3>1. CASE j = i
      BY <1>1, <1>2, <2>1, <2>2, <3>1, SameGame DEF V!Done
    <3>2. CASE j # i
      BY <1>1, <1>2, <2>1, <3>2 DEF V!Done
    <3> QED BY <3>1, <3>2
  <2>5. \A w \in Worker : result'[w] = "mismatch" => ~Consistent(fileGame, Source)
    BY <1>2, <2>1, <2>2
  <2> QED BY <1>1, <1>2, <2>1, <2>3, <2>4, <2>5, SameGame DEF V!VerdictInv
<1>6. ASSUME NEW i \in Index, V!ReadFails(i) PROVE V!VerdictInv'
  <2>1. /\ result' = [result EXCEPT ![Owner[i]] = "failed"] /\ UNCHANGED <<scanned, left, verdict>>
    BY <1>6 DEF V!ReadFails
  <2>2. result' \in [Worker -> V!Results]
    BY <1>2, <2>1 DEF V!Results
  <2>3. \A j \in Index : V!Done(j)'
    BY <1>1, <1>2, <2>1 DEF V!Done
  <2> QED BY <1>1, <1>2, <2>1, <2>2, <2>3, SameGame DEF V!VerdictInv
<1>7. CASE V!NextRound
  <2>1. V!Round(left) \subseteq left
    BY DEF V!Round
  <2>2. /\ scanned' = V!Round(left) /\ left' = left \ V!Round(left)
        /\ UNCHANGED <<result, verdict>> /\ V!RoundJoined /\ V!AllOk
    BY <1>7 DEF V!NextRound
  <2>3. scanned = {}
    BY <1>2, <2>2 DEF V!RoundJoined, V!AllOk
  <2>4. scanned' \cup left' = left
    BY <2>1, <2>2
  <2>5. \A j \in Index : V!Done(j)'
    BY <1>1, <1>2, <2>2, <2>3, <2>4 DEF V!Done
  <2> QED BY <1>1, <1>2, <2>1, <2>2, <2>5, SameGame DEF V!VerdictInv
<1>8. CASE V!Conclude
  <2>1. /\ verdict' = V!Verdict /\ UNCHANGED <<left, scanned, result>>
        /\ V!RoundJoined /\ (left = {} \/ ~V!AllOk)
    BY <1>8 DEF V!Conclude
  <2>2. \A w \in Worker : result[w] \in {"ok", "failed", "mismatch"}
    BY <1>2 DEF V!Results
  <2>3. verdict' = "ok" => V!AllOk /\ scanned = {} /\ left = {}
    BY <1>2, <2>1, <2>2 DEF V!Verdict, V!AllOk, V!RoundJoined
  <2>4. verdict' = "mismatch" =>
          (\E w \in Worker : result[w] = "mismatch") /\ \A w \in Worker : result[w] # "failed"
    BY <2>1 DEF V!Verdict
  <2>5. \A j \in Index : V!Done(j)'
    BY <1>1, <1>2, <2>1 DEF V!Done
  <2> QED BY <1>1, <1>2, <2>1, <2>3, <2>4, <2>5, SameGame DEF V!VerdictInv, V!AllOk
<1>9. CASE V!CoordinatorFault
  BY <1>1, <1>2, <1>9, SameGame DEF V!CoordinatorFault, V!VerdictInv, V!Done
<1> QED
  BY <1>1, <1>4, <1>5, <1>6, <1>7, <1>8, <1>9 DEF V!Next, V!Work

(* What is accepted was all looked at, or put aside. *)
LEMMA VerdictRight ==
  ASSUME V!VerdictInv
  PROVE  V!AcceptedIsConsistent /\ V!MismatchIsReal
<1>1. V!MismatchIsReal
  BY DEF V!VerdictInv, V!MismatchIsReal
<1>2. V!AcceptedIsConsistent
  <2> SUFFICES ASSUME verdict = "ok", V!SkippedConsistent, NEW side \in Sides, NEW i \in Index
               PROVE  ConsistentAt(fileGame, Source, side, i)
    BY SameGame DEF V!AcceptedIsConsistent, Consistent
  <2>1. V!AllOk /\ scanned = {} /\ left = {} /\ V!Done(i)
    BY DEF V!VerdictInv
  <2>2. Owner[i] \in Worker
    BY WorkAssumption
  <2> QED BY <2>1, <2>2, SameGame DEF V!Done, V!AllOk, V!SkippedConsistent
<1> QED BY <1>1, <1>2

-----------------------------------------------------------------------------
LEMMA FinishInitially ==
  ASSUME FinishInit \/ InitElsewhere
  PROVE  FinishInv
<1>1. V!Started(left, scanned, result, examples, verdict) /\ resident = NotLoaded
  BY DEF FinishInit, InitElsewhere
<1>2. V!VerdictInv /\ verdict = "none"
  BY <1>1, VerdictInitially, VerdictStarts
<1> QED BY <1>1, <1>2 DEF FinishInit, InitElsewhere, FinishInv

(* A verification is set up for the copy its workers are going to read.    *)
LEMMA FinishOpen ==
  ASSUME FinishInv, NEW fits \in BOOLEAN, Open(fits)
  PROVE  FinishInv'
<1>1. /\ phase = "open" /\ phase' = "verify"
      /\ resident = NotLoaded /\ resident' \in {NotLoaded, file} /\ file' = file
      /\ skip = {} /\ skip' = skip
      /\ V!Started(left', scanned', result', examples', verdict')
  BY DEF Open, FinishInv
<1>2. /\ scanned' \subseteq Index /\ left' \subseteq Index /\ scanned' \cup left' = Index
      /\ result' \in [Worker -> V!Results] /\ \A w \in Worker : result'[w] = "ok"
      /\ verdict' = "none"
  BY <1>1, VerdictStarts
<1>3. V!VerdictInv'
  BY <1>2 DEF V!VerdictInv, V!Done
<1> QED BY <1>1, <1>3 DEF FinishInv

(* A table is accepted on a verdict about what its workers read, which is  *)
(* the file or was loaded from it.                                         *)
LEMMA FinishAccept ==
  ASSUME FinishInv, Accept
  PROVE  FinishInv'
<1>1. /\ phase = "verify" /\ phase' = "true" /\ verdict = "ok"
      /\ UNCHANGED <<fileGame, file, resident, verification>>
  BY DEF Accept
<1>2. V!VerdictInv /\ Source = file /\ skip = {}
  BY <1>1 DEF FinishInv, Source
<1>3. V!AcceptedIsConsistent
  BY <1>2, VerdictRight
<1>4. Consistent(fileGame, file)
  BY <1>1, <1>2, <1>3, SameGame DEF V!AcceptedIsConsistent, V!SkippedConsistent
<1>5. Consistent(fileGame, file)'
  BY <1>1, <1>4
<1> QED BY <1>1, <1>2, <1>5 DEF FinishInv

LEMMA FinishPreserves ==
  ASSUME FinishInv, [FinishNext]_finishVars
  PROVE  FinishInv'
<1>1. ASSUME NEW fits \in BOOLEAN, Open(fits) PROVE FinishInv'
  BY <1>1, FinishOpen
<1>2. CASE Verify
  <2>1. /\ phase = "verify" /\ UNCHANGED <<file, resident, attempt, phase>>
        /\ V!Next /\ V!VerdictInv
    BY <1>2 DEF Verify, FinishInv
  <2>2. V!VerdictInv' /\ UNCHANGED <<fileGame, skip>>
    BY <2>1, VerdictStep
  <2> QED BY <2>1, <2>2 DEF FinishInv
<1>3. CASE Accept
  BY <1>3, FinishAccept
<1>4. CASE StartRepair
  BY <1>4 DEF StartRepair, Repairable, FinishInv, verification
<1>5. CASE Refuse
  BY <1>5 DEF Refuse, FinishInv, verification
<1>6. ASSUME NEW succeeds \in BOOLEAN, Repair(succeeds) PROVE FinishInv'
  BY <1>6 DEF Repair, FinishInv, verification
<1>7. CASE StorageFault
  BY <1>7 DEF StorageFault, FinishInv, verification
<1>8. CASE UNCHANGED finishVars
  <2>1. /\ UNCHANGED <<fileGame, file, resident, phase, verification>>
        /\ UNCHANGED <<skip, left, scanned, result, verdict>>
    BY <1>8 DEF finishVars, verification
  <2>2. Source' = Source
    BY <2>1 DEF Source
  <2>3. V!VerdictInv => V!VerdictInv'
    BY <2>1, <2>2, SameGame DEF V!VerdictInv, V!Done, V!AllOk
  <2>4. Consistent(fileGame, file) => Consistent(fileGame, file)'
    BY <2>1
  <2> QED BY <2>1, <2>3, <2>4 DEF FinishInv
<1> QED
  BY <1>1, <1>2, <1>3, <1>4, <1>5, <1>6, <1>7, <1>8 DEF FinishNext, FinishStep, FinishEnded

(* A verification that someone else calls. *)
LEMMA ElsewhereStep ==
  ASSUME FinishInv, phase = "elsewhere", [VerifyElsewhere]_finishVars
  PROVE  FinishInv' /\ phase' = "elsewhere"
<1>1. CASE VerifyElsewhere
  <2>1. UNCHANGED <<file, resident, phase>> /\ V!Next /\ V!VerdictInv
    BY <1>1 DEF VerifyElsewhere, FinishInv
  <2>2. V!VerdictInv'
    BY <2>1, VerdictStep
  <2> QED BY <2>1, <2>2 DEF FinishInv
<1>2. CASE UNCHANGED finishVars
  BY <1>2, FinishPreserves DEF finishVars
<1> QED BY <1>1, <1>2

(* A verdict is about the table its workers read, also after it was used.  *)
LEMMA FinishRight ==
  ASSUME FinishInv, phase \in Phases
  PROVE  VerdictIsRight
<1>1. CASE phase \in {"verify", "elsewhere"}
  BY <1>1, VerdictRight DEF FinishInv, VerdictIsRight
<1>2. CASE phase = "true"
  <2>1. Consistent(fileGame, Source)
    BY <1>2 DEF FinishInv, Source
  <2> QED BY <1>2, <2>1, SameGame DEF VerdictIsRight, V!AcceptedIsConsistent
<1>3. CASE phase \in {"open", "repair", "false"}
  BY <1>3 DEF FinishInv, VerdictIsRight, V!AcceptedIsConsistent
<1> QED BY <1>1, <1>2, <1>3 DEF Phases

LEMMA PhaseStep ==
  ASSUME phase \in Phases, [FinishNext]_finishVars
  PROVE  phase' \in Phases
BY DEF Phases, FinishNext, FinishStep, Open, Verify, Accept, StartRepair, Refuse, Repair,
       StorageFault, FinishEnded, finishVars

-----------------------------------------------------------------------------
(* Whatever the compilation leaves behind and the repair makes of it, and  *)
(* whichever reads, loads and threads fail, only a consistent table is     *)
(* published (egtb_finish_compiled).                                       *)
THEOREM PublishedCorrect == FinishSpec => []PublishedIsConsistent
<1>1. FinishInit => FinishInv
  BY FinishInitially
<1>2. FinishInv /\ [FinishNext]_finishVars => FinishInv'
  BY FinishPreserves
<1>3. FinishInv => PublishedIsConsistent
  BY DEF FinishInv, PublishedIsConsistent
<1> QED BY <1>1, <1>2, <1>3, PTL DEF FinishSpec

(* The verdict of a finalisation's verification is true: what it accepts   *)
(* is consistent, and what it reports as a mismatch, which has the file    *)
(* rewritten, is one (verify_consistent_impl).                             *)
THEOREM VerdictCorrect == FinishSpec => []VerdictIsRight
<1>1. FinishInit => FinishInv /\ phase \in Phases
  BY FinishInitially DEF FinishInit, Phases
<1>2. FinishInv /\ phase \in Phases /\ [FinishNext]_finishVars => (FinishInv /\ phase \in Phases)'
  BY FinishPreserves, PhaseStep DEF Phases
<1>3. FinishInv /\ phase \in Phases => VerdictIsRight
  BY FinishRight
<1> QED BY <1>1, <1>2, <1>3, PTL DEF FinishSpec

(* So is the verdict of a verification that someone else calls, with any   *)
(* positions put aside.                                                    *)
THEOREM VerdictElsewhere ==
  SpecElsewhere => []VerdictIsRight
<1>1. InitElsewhere => FinishInv /\ phase = "elsewhere"
  BY FinishInitially DEF InitElsewhere
<1>2. FinishInv /\ phase = "elsewhere" /\ [VerifyElsewhere]_finishVars
        => (FinishInv /\ phase = "elsewhere")'
  BY ElsewhereStep
<1>3. FinishInv /\ phase = "elsewhere" => VerdictIsRight
  BY FinishRight DEF Phases
<1> QED BY <1>1, <1>2, <1>3, PTL DEF SpecElsewhere

-----------------------------------------------------------------------------
(***************************************************************************)
(* The examples of a verification.  Merging one is a step of a fold over a *)
(* finite set, which is reasoned about by least counterexample.            *)
(***************************************************************************)
LEMMA EntryFacts ==
  ASSUME NEW k \in V!Entries
  PROVE  /\ k.side \in {"WTM", "BTM"} /\ k.index \in Int /\ k.value \in Int
         /\ V!SameKind(k, k) /\ ~V!Beats(k, k)
<1>1. k.side \in {"WTM", "BTM"} /\ k.index \in Int /\ k.value \in Int
  <2>1. k.side \in V!Sides /\ k.index \in Index /\ k.value \in V!Dtm
    BY DEF V!Entries
  <2>2. k.value \in Int
    <3>1. k.value \in -V!MaxLoss .. MaxWin
      BY <2>1 DEF V!Dtm
    <3> QED BY <3>1
  <2>3. k.index \in Int
    <3>1. Index \subseteq Nat
      BY FinishAssumption
    <3>2. k.index \in Nat
      BY <2>1, <3>1
    <3> QED BY <3>2
  <2>4. k.side \in {"WTM", "BTM"}
    BY <2>1 DEF V!Sides
  <2> QED BY <2>2, <2>3, <2>4
<1>2. V!Distance(k.value) \in Int
  BY <1>1 DEF V!Distance
<1>3. V!SameKind(k, k)
  BY <1>1 DEF V!SameKind, V!IsWin, V!IsLoss, V!Draw
<1>4. ~V!Beats(k, k)
  BY <1>1, <1>2 DEF V!Beats
<1> QED BY <1>1, <1>3, <1>4

(* Kinds are disjoint, and within a kind the entries are in order.         *)
LEMMA BeatsOrder ==
  ASSUME NEW k \in V!Entries, NEW x \in V!Entries, NEW e \in V!Entries,
         V!SameKind(k, x), V!SameKind(x, e), ~V!Beats(k, x), ~V!Beats(x, e)
  PROVE  V!SameKind(k, e) /\ ~V!Beats(k, e)
<1>1. /\ k.side \in {"WTM", "BTM"} /\ k.index \in Int /\ k.value \in Int
      /\ x.side \in {"WTM", "BTM"} /\ x.index \in Int /\ x.value \in Int
      /\ e.side \in {"WTM", "BTM"} /\ e.index \in Int /\ e.value \in Int
  BY EntryFacts
<1>2. V!SameKind(k, e)
  BY <1>1 DEF V!SameKind, V!IsWin, V!IsLoss, V!Draw
<1>3. CASE k.value = V!Draw
  <2>1. x.value = V!Draw /\ e.value = V!Draw
    BY <1>1, <1>3 DEF V!SameKind, V!IsWin, V!IsLoss, V!Draw
  <2> QED BY <1>1, <1>2, <1>3, <2>1 DEF V!Beats
<1>4. CASE k.value # V!Draw
  <2>1. x.value # V!Draw /\ e.value # V!Draw
    BY <1>1, <1>4 DEF V!SameKind, V!IsWin, V!IsLoss, V!Draw
  <2>2. V!Distance(k.value) \in Int /\ V!Distance(x.value) \in Int /\ V!Distance(e.value) \in Int
    BY <1>1 DEF V!Distance
  <2>3. V!Distance(k.value) = V!Distance(x.value) => k.value = x.value
    BY <1>1, <1>4 DEF V!SameKind, V!IsWin, V!IsLoss, V!Distance, V!Draw
  <2>4. /\ k.value = e.value => V!Distance(k.value) = V!Distance(e.value)
        /\ x.value = e.value => V!Distance(x.value) = V!Distance(e.value)
    OBVIOUS
  <2> QED BY <1>1, <1>2, <1>4, <2>1, <2>2, <2>3, <2>4 DEF V!Beats
<1> QED BY <1>2, <1>3, <1>4

LEMMA BeatsOnce ==
  ASSUME NEW k \in V!Entries, NEW e \in V!Entries, V!SameKind(k, e), V!Beats(e, k)
  PROVE  ~V!Beats(k, e)
<1>1. /\ k.side \in {"WTM", "BTM"} /\ k.index \in Int /\ k.value \in Int
      /\ e.side \in {"WTM", "BTM"} /\ e.index \in Int /\ e.value \in Int
  BY EntryFacts
<1>2. V!Distance(k.value) \in Int /\ V!Distance(e.value) \in Int
  BY <1>1 DEF V!Distance
<1>3. k.value = V!Draw <=> e.value = V!Draw
  BY <1>1 DEF V!SameKind, V!IsWin, V!IsLoss, V!Draw
<1> QED BY <1>1, <1>2, <1>3 DEF V!Beats

(* Merging an example loses nothing that was kept, and keeps the new one.  *)
LEMMA MergedFacts ==
  ASSUME NEW E \in SUBSET V!Entries, NEW e \in V!Entries
  PROVE  /\ V!Merged(E, e) \subseteq E \cup {e}
         /\ V!Kept(V!Merged(E, e), e)
         /\ \A k \in V!Entries : V!Kept(E, k) => V!Kept(V!Merged(E, e), k)
<1> DEFINE Rivals == {k \in E : V!SameKind(k, e)}
<1>1. V!Merged(E, e) = IF \E k \in Rivals : ~V!Beats(e, k) THEN E ELSE (E \ Rivals) \cup {e}
  BY DEF V!Merged
<1>2. \A a, b \in V!Entries : V!SameKind(a, b) => V!SameKind(b, a)
  BY DEF V!SameKind
<1>3. V!SameKind(e, e) /\ ~V!Beats(e, e)
  BY EntryFacts
<1>4. V!Kept(V!Merged(E, e), e)
  BY <1>1, <1>2, <1>3 DEF V!Kept
<1>5. ASSUME NEW k \in V!Entries, V!Kept(E, k) PROVE V!Kept(V!Merged(E, e), k)
  <2>1. PICK x \in E : V!SameKind(k, x) /\ ~V!Beats(k, x)
    BY <1>5 DEF V!Kept
  <2>2. CASE \E r \in Rivals : ~V!Beats(e, r)
    BY <1>1, <1>5, <2>2
  <2>3. CASE \A r \in Rivals : V!Beats(e, r)
    <3>1. V!Merged(E, e) = (E \ Rivals) \cup {e}
      BY <1>1, <2>3
    <3>2. CASE x \notin Rivals
      BY <2>1, <3>1, <3>2 DEF V!Kept
    <3>3. CASE x \in Rivals
      <4>1. V!SameKind(x, e) /\ ~V!Beats(x, e)
        BY <2>3, <3>3, BeatsOnce
      <4>2. V!SameKind(k, e) /\ ~V!Beats(k, e)
        BY <1>5, <2>1, <4>1, BeatsOrder
      <4> QED BY <3>1, <4>2 DEF V!Kept
    <3> QED BY <3>2, <3>3
  <2> QED BY <2>2, <2>3
<1> QED BY <1>1, <1>4, <1>5

-----------------------------------------------------------------------------
Picked(s) == CHOOSE x \in s : TRUE

Folded(S) ==
  LET fold[s \in SUBSET S] == IF s = {} THEN {} ELSE V!Merged(fold[s \ {Picked(s)}], Picked(s))
  IN  fold

LEMMA FoldIs ==
  ASSUME NEW S, S = UNION {examples[w] : w \in Worker}
  PROVE  V!MergedExamples = Folded(S)[S]
BY DEF V!MergedExamples, V!FoldSet, V!MapThenFoldSet, Folded, Picked

LEMMA PickedFacts ==
  ASSUME NEW S, IsFiniteSet(S), NEW s \in SUBSET S
  PROVE  /\ Cardinality(s) \in Nat
         /\ s # {} => /\ Picked(s) \in s /\ s \ {Picked(s)} \in SUBSET S
                      /\ Cardinality(s \ {Picked(s)}) = Cardinality(s) - 1
                      /\ Cardinality(s) # 0
<1>1. IsFiniteSet(s)
  BY FS_Subset
<1>2. Cardinality(s) \in Nat
  BY <1>1, FS_CardinalityType
<1>3. ASSUME s # {} PROVE Picked(s) \in s
  BY <1>3 DEF Picked
<1>4. ASSUME s # {} PROVE Cardinality(s \ {Picked(s)}) = Cardinality(s) - 1
  BY <1>1, <1>3, <1>4, FS_RemoveElement
<1>5. ASSUME s # {} PROVE Cardinality(s) # 0
  BY <1>1, <1>5, FS_EmptySet
<1> QED BY <1>2, <1>3, <1>4, <1>5

(* A number that no smaller one shares a fault with does not exist.        *)
LEMMA LeastFault ==
  ASSUME NEW T \in SUBSET Nat, T # {}
  PROVE  \E n \in T : n # 0 => n - 1 \in Nat /\ n - 1 \notin T
<1> DEFINE R == {ss \in Nat \X Nat : ss[1] < ss[2]}
<1>1. IsWellFoundedOn(R, Nat)
  BY NatLessThanWellFounded DEF OpToRel
<1>2. PICK n \in T : \A y \in T : ~(<<y, n>> \in R)
  BY <1>1, WFMin
<1>3. n # 0 => n - 1 \in Nat /\ n - 1 < n
  OBVIOUS
<1>4. n # 0 => n - 1 \notin T
  BY <1>2, <1>3
<1> QED BY <1>3, <1>4

(* The fold of the subsets of up to n elements. *)
FoldsTo(S, n, g) ==
  \A s \in SUBSET S : Cardinality(s) <= n =>
    g[s] = IF s = {} THEN {} ELSE V!Merged(g[s \ {Picked(s)}], Picked(s))

LEMMA FoldExtends ==
  ASSUME NEW S, IsFiniteSet(S), NEW n \in Nat, NEW g, n # 0 => FoldsTo(S, n - 1, g)
  PROVE  \E h : FoldsTo(S, n, h)
<1> DEFINE h == [s \in SUBSET S |->
                  IF s = {} THEN {}
                  ELSE IF Cardinality(s) < n THEN g[s]
                  ELSE V!Merged(g[s \ {Picked(s)}], Picked(s))]
<1>1. ASSUME NEW s \in SUBSET S, Cardinality(s) <= n, s # {}
      PROVE  h[s] = V!Merged(h[s \ {Picked(s)}], Picked(s))
  <2>1. PICK r \in SUBSET S : r = s \ {Picked(s)}
    BY <1>1, PickedFacts
  <2>2. /\ Cardinality(s) \in Nat \ {0} /\ Cardinality(r) = Cardinality(s) - 1 /\ Cardinality(r) \in Nat
    BY <1>1, <2>1, PickedFacts
  <2>3. n - 1 \in Nat /\ n # 0 /\ Cardinality(r) <= n - 1 /\ Cardinality(r) < n
    BY <1>1, <2>2
  <2>4. Cardinality(s) < n => g[s] = V!Merged(g[r], Picked(s))
    <3>1. Cardinality(s) < n => Cardinality(s) <= n - 1
      BY <2>2
    <3> QED BY <1>1, <2>1, <2>3, <3>1 DEF FoldsTo
  <2>5. h[s] = V!Merged(g[r], Picked(s))
    BY <1>1, <2>1, <2>4
  <2>6. h[r] = g[r]
    <3>1. CASE r = {}
      <4>1. g[r] = {}
        BY <2>3, <3>1 DEF FoldsTo
      <4> QED BY <3>1, <4>1
    <3>2. CASE r # {}
      BY <2>3, <3>2
    <3> QED BY <3>1, <3>2
  <2> HIDE DEF h
  <2> QED BY <2>1, <2>5, <2>6
<1>2. \A s \in SUBSET S : s = {} => h[s] = {}
  OBVIOUS
<1> HIDE DEF h
<1>3. FoldsTo(S, n, h)
  BY <1>1, <1>2 DEF FoldsTo
<1> QED BY <1>3

LEMMA FoldedFacts ==
  ASSUME NEW S, IsFiniteSet(S), NEW s \in SUBSET S
  PROVE  Folded(S)[s] = IF s = {} THEN {} ELSE V!Merged(Folded(S)[s \ {Picked(s)}], Picked(s))
<1> DEFINE Without == {n \in Nat : ~\E g : FoldsTo(S, n, g)}
<1>1. Without = {}
  <2> SUFFICES ASSUME Without # {} PROVE FALSE
    OBVIOUS
  <2>1. PICK m \in Without : m # 0 => m - 1 \in Nat /\ m - 1 \notin Without
    <3>1. Without \in SUBSET Nat
      OBVIOUS
    <3> HIDE DEF Without
    <3> QED BY <3>1, LeastFault
  <2>2. \E g : m # 0 => FoldsTo(S, m - 1, g)
    BY <2>1
  <2>3. \E h : FoldsTo(S, m, h)
    BY <2>2, FoldExtends
  <2> QED BY <2>3
<1>2. S \in SUBSET S /\ Cardinality(S) \in Nat
  BY PickedFacts
<1>3. PICK g : FoldsTo(S, Cardinality(S), g)
  BY <1>1, <1>2
<1>4. \A x \in SUBSET S : Cardinality(x) <= Cardinality(S)
  BY FS_Subset
<1> DEFINE R(q) == [x \in SUBSET S |-> IF x = {} THEN {} ELSE V!Merged(q[x \ {Picked(x)}], Picked(x))]
<1>5. \E q : q = R(q)
  <2>1. PICK e : e = [x \in SUBSET S |-> g[x]]
    OBVIOUS
  <2>2. \A x \in SUBSET S : x # {} => x \ {Picked(x)} \in SUBSET S
    BY PickedFacts
  <2>3. \A x \in SUBSET S : e[x] = IF x = {} THEN {} ELSE V!Merged(e[x \ {Picked(x)}], Picked(x))
    BY <1>3, <1>4, <2>1, <2>2 DEF FoldsTo
  <2>4. e = R(e)
    BY <2>1, <2>3
  <2> HIDE DEF R
  <2> QED BY <2>4
<1>6. Folded(S) = CHOOSE q : q = R(q)
  BY DEF Folded
<1>7. Folded(S) = R(Folded(S))
  <2> HIDE DEF R
  <2> QED BY <1>5, <1>6
<1> QED BY <1>7

(* What was merged is kept, whatever was merged after it and in any order. *)
LEMMA FoldKeeps ==
  ASSUME NEW S \in SUBSET V!Entries, IsFiniteSet(S)
  PROVE  Folded(S)[S] \subseteq S /\ \A k \in S : V!Kept(Folded(S)[S], k)
<1> DEFINE Fine(s) == Folded(S)[s] \subseteq s /\ \A k \in s : V!Kept(Folded(S)[s], k)
           Wrong == {n \in Nat : \E s \in SUBSET S : Cardinality(s) = n /\ ~Fine(s)}
<1>1. Wrong = {}
  <2> SUFFICES ASSUME Wrong # {} PROVE FALSE
    OBVIOUS
  <2>1. PICK m \in Wrong : m # 0 => m - 1 \in Nat /\ m - 1 \notin Wrong
    <3>1. Wrong \in SUBSET Nat
      OBVIOUS
    <3> HIDE DEF Wrong
    <3> QED BY <3>1, LeastFault
  <2>2. PICK s \in SUBSET S : Cardinality(s) = m /\ ~Fine(s)
    OBVIOUS
  <2>3. s # {}
    <3>1. Folded(S)[{}] = {}
      BY FoldedFacts
    <3> QED BY <2>2, <3>1
  <2>4. PICK r \in SUBSET S : r = s \ {Picked(s)}
    BY <2>3, PickedFacts
  <2>5. PICK p \in S : p = Picked(s) /\ p \in s
    BY <2>3, PickedFacts
  <2>6. m # 0 /\ Cardinality(r) = m - 1
    BY <2>2, <2>3, <2>4, PickedFacts
  <2>7. Fine(r)
    BY <2>1, <2>6
  <2>8. Folded(S)[s] = V!Merged(Folded(S)[r], p)
    BY <2>3, <2>4, <2>5, FoldedFacts
  <2>9. PICK E \in SUBSET V!Entries : E = Folded(S)[r]
    BY <2>7
  <2>10. /\ V!Merged(E, p) \subseteq E \cup {p}
         /\ V!Kept(V!Merged(E, p), p)
         /\ \A k \in V!Entries : V!Kept(E, k) => V!Kept(V!Merged(E, p), k)
    BY MergedFacts
  <2>11. \A k \in s : k = p \/ k \in r
    BY <2>4, <2>5
  <2>12. \A k \in r : V!Kept(E, k) /\ k \in V!Entries
    BY <2>7, <2>9
  <2>13. \A k \in s : V!Kept(V!Merged(E, p), k)
    BY <2>10, <2>11, <2>12
  <2>14. V!Merged(E, p) \subseteq s
    BY <2>4, <2>5, <2>7, <2>9, <2>10
  <2> QED BY <2>2, <2>8, <2>9, <2>13, <2>14
<1>2. S \in SUBSET S /\ Cardinality(S) \in Nat
  BY PickedFacts
<1> QED BY <1>1, <1>2

-----------------------------------------------------------------------------
LEMMA SameTables == V!Tables = Tables
BY SameGame DEF Tables, V!Tables

(* What is there to show, of which there are finitely many.                *)
LEMMA ShownFacts ==
  ASSUME Source \in Tables
  PROVE  /\ V!Shown \subseteq V!Entries /\ IsFiniteSet(V!Shown)
         /\ \A side \in Sides, i \in Index : V!Entry(side, i) \in V!Shown
<1>1. ASSUME NEW side \in Sides, NEW i \in Index
      PROVE  V!Entry(side, i) \in V!Shown /\ V!Entry(side, i) \in V!Entries
  <2>1. Source[side][i] \in V!Dtm
    BY SameGame DEF Tables
  <2>2. V!Entry(side, i) \in V!Entries
    BY <2>1, SameGame DEF V!Entry, V!Entries
  <2> QED BY <2>2, SameGame DEF V!Shown
<1>2. V!Shown \subseteq V!Entries
  BY <1>1, SameGame DEF V!Shown
<1>3. IsFiniteSet(V!Shown)
  <2> DEFINE f == [p \in Sides \X Index |-> V!Entry(p[1], p[2])]
  <2>1. IsFiniteSet(Sides \X Index)
    BY FinitePlaces
  <2>2. f \in [Sides \X Index -> V!Shown]
    <3>1. \A p \in Sides \X Index : V!Entry(p[1], p[2]) \in V!Shown
      BY <1>1
    <3> QED BY <3>1
  <2>3. \A e \in V!Shown : \E p \in Sides \X Index : f[p] = e
    <3> SUFFICES ASSUME NEW side \in Sides, NEW i \in Index
                 PROVE  \E p \in Sides \X Index : f[p] = V!Entry(side, i)
      BY SameGame DEF V!Shown
    <3>1. <<side, i>> \in Sides \X Index /\ f[<<side, i>>] = V!Entry(side, i)
      OBVIOUS
    <3> HIDE DEF f
    <3> QED BY <3>1
  <2> HIDE DEF f
  <2>4. f \in Surjection(Sides \X Index, V!Shown)
    BY <2>2, <2>3 DEF Surjection
  <2> QED BY <2>1, <2>4, FS_Surjection
<1> QED BY <1>1, <1>2, <1>3

(* The examples of a worker after it looked at one more position. *)
LEMMA CountedFacts ==
  ASSUME Source \in Tables, NEW E \in SUBSET V!Shown, NEW i \in Index
  PROVE  /\ V!Counted(E, i) \in SUBSET V!Shown
         /\ V!PositionResult(i) = "ok" =>
              /\ \A side \in Sides : V!Kept(V!Counted(E, i), V!Entry(side, i))
              /\ \A k \in V!Entries : V!Kept(E, k) => V!Kept(V!Counted(E, i), k)
<1>1. PICK a \in V!Shown, b \in V!Shown : a = V!Entry("WTM", i) /\ b = V!Entry("BTM", i)
  BY ShownFacts DEF Sides
<1>2. V!Shown \subseteq V!Entries
  BY ShownFacts
<1>3. PICK M \in SUBSET V!Shown : M = V!Merged(E, a)
  BY <1>1, <1>2, MergedFacts
<1>4. PICK N \in SUBSET V!Shown : N = V!Merged(M, b)
  BY <1>1, <1>2, <1>3, MergedFacts
<1>5. V!Counted(E, i) \in {E, M, N}
  BY <1>1, <1>3, <1>4 DEF V!Counted
<1>6. ASSUME V!PositionResult(i) = "ok"
      PROVE  V!Counted(E, i) = N
  <2>1. V!SideResult("WTM", i) = "ok" /\ V!SideResult("BTM", i) = "ok"
    BY <1>6 DEF V!PositionResult
  <2> QED BY <1>1, <1>3, <1>4, <2>1 DEF V!Counted
<1>7. V!Kept(M, a) /\ \A k \in V!Entries : V!Kept(E, k) => V!Kept(M, k)
  BY <1>1, <1>2, <1>3, MergedFacts
<1>8. V!Kept(N, b) /\ \A k \in V!Entries : V!Kept(M, k) => V!Kept(N, k)
  BY <1>1, <1>2, <1>3, <1>4, MergedFacts
<1>9. V!Kept(N, a)
  BY <1>1, <1>2, <1>7, <1>8
<1>10. \A side \in Sides : V!Entry(side, i) \in {a, b}
  BY <1>1 DEF Sides
<1> QED BY <1>5, <1>6, <1>7, <1>8, <1>9, <1>10

LEMMA ExamplesStart ==
  ASSUME V!Started(left, scanned, result, examples, verdict), Source \in Tables
  PROVE  V!ExamplesInv
<1>1. /\ scanned \cup left = Index /\ examples = [w \in Worker |-> {}]
  BY VerdictStarts DEF V!Started
<1> QED BY <1>1, SameTables DEF V!ExamplesInv

LEMMA ExamplesStep ==
  ASSUME V!ExamplesInv, V!VerdictInv, V!Next, UNCHANGED <<file, resident>>
  PROVE  V!ExamplesInv'
<1>1. /\ UNCHANGED <<fileGame, skip, file, resident>> /\ verdict = "none" /\ Source' = Source
  BY DEF V!Next, V!Work, V!SkipPosition, V!CheckPosition, V!ReadFails, V!Working,
         V!NextRound, V!Conclude, V!CoordinatorFault, V!RoundJoined, Source
<1>2. /\ Source \in Tables /\ examples \in [Worker -> SUBSET V!Shown]
      /\ V!Shown \subseteq V!Entries
      /\ \A side \in Sides, i \in Index : V!Entry(side, i) \in V!Entries
      /\ Owner \in [Index -> Worker] /\ result \in [Worker -> V!Results]
  BY ShownFacts, SameTables, WorkAssumption DEF V!ExamplesInv, V!VerdictInv
<1>3. /\ V!Tables' = V!Tables /\ V!Tables = Tables /\ V!Shown' = V!Shown
      /\ \A side, i : V!Entry(side, i)' = V!Entry(side, i)
      /\ \A E, k : V!Kept(E, k)' = V!Kept(E, k)
  BY <1>1, SameTables DEF V!Shown, V!Entry, V!Tables, V!Kept
<1> DEFINE Covered(i) == \A side \in Sides : V!Kept(examples[Owner[i]], V!Entry(side, i))
           Fine(i) == i \in scanned \cup left \/ result[Owner[i]] # "ok" \/ Covered(i)
<1>4. skip = {} => \A i \in Index : Fine(i)
  BY SameGame DEF V!ExamplesInv
<1> HIDE DEF Fine, Covered
<1>5. ASSUME examples' \in [Worker -> SUBSET V!Shown], skip = {} => \A i \in Index : Fine(i)'
      PROVE  V!ExamplesInv'
  BY <1>1, <1>2, <1>3, <1>5, SameGame DEF V!ExamplesInv, Fine, Covered
<1>6. ASSUME UNCHANGED examples PROVE \A i \in Index : Covered(i)' = Covered(i)
  BY <1>3, <1>6 DEF Covered
<1>7. CASE \E i \in Index : V!SkipPosition(i)
  <2>1. UNCHANGED <<examples, result, left>> /\ skip # {}
    BY <1>7 DEF V!SkipPosition
  <2> QED BY <1>2, <1>5, <2>1
<1>8. ASSUME NEW i \in Index, V!CheckPosition(i) PROVE V!ExamplesInv'
  <2>1. /\ scanned' = scanned \ {i} /\ UNCHANGED left
        /\ examples' = [examples EXCEPT ![Owner[i]] = V!Counted(examples[Owner[i]], i)]
        /\ result' = [result EXCEPT ![Owner[i]] = V!PositionResult(i)]
        /\ result[Owner[i]] = "ok"
    BY <1>8 DEF V!CheckPosition, V!Working
  <2>2. Owner[i] \in Worker
    BY <1>2
  <2>3. PICK E \in SUBSET V!Shown : E = examples[Owner[i]]
    BY <1>2, <2>2
  <2>4. PICK N \in SUBSET V!Shown : N = V!Counted(E, i)
    BY <1>2, CountedFacts
  <2>5. /\ examples' \in [Worker -> SUBSET V!Shown] /\ examples'[Owner[i]] = N
        /\ \A w \in Worker : w # Owner[i] => examples'[w] = examples[w]
    BY <1>2, <2>1, <2>2, <2>3, <2>4
  <2>6. /\ result'[Owner[i]] = V!PositionResult(i)
        /\ \A w \in Worker : w # Owner[i] => result'[w] = result[w]
    BY <1>2, <2>1, <2>2
  <2>7. ASSUME V!PositionResult(i) = "ok"
        PROVE  /\ \A side \in Sides : V!Kept(N, V!Entry(side, i))
               /\ \A k \in V!Entries : V!Kept(E, k) => V!Kept(N, k)
    BY <1>2, <2>4, <2>7, CountedFacts
  <2>8. ASSUME skip = {}, NEW j \in Index PROVE Fine(j)'
    <3>1. Fine(j) /\ Owner[j] \in Worker
      BY <1>2, <1>4, <2>8
    <3>2. CASE Owner[j] # Owner[i]
      <4>1. Covered(j)' = Covered(j)
        BY <1>3, <2>5, <3>1, <3>2 DEF Covered
      <4>2. j # i /\ result'[Owner[j]] = result[Owner[j]]
        BY <2>6, <3>1, <3>2
      <4> QED BY <2>1, <3>1, <4>1, <4>2 DEF Fine
    <3>3. CASE Owner[j] = Owner[i]
      <4>1. CASE V!PositionResult(i) # "ok"
        BY <2>6, <3>3, <4>1 DEF Fine
      <4>2. CASE V!PositionResult(i) = "ok"
        <5>1. j = i => Covered(j)'
          BY <1>3, <2>5, <2>7, <4>2 DEF Covered
        <5>2. Covered(j) => Covered(j)'
          BY <1>2, <1>3, <2>3, <2>5, <2>7, <3>3, <4>2 DEF Covered
        <5> QED BY <2>1, <3>1, <3>3, <5>1, <5>2 DEF Fine
      <4> QED BY <4>1, <4>2
    <3> QED BY <3>2, <3>3
  <2> QED BY <1>5, <2>5, <2>8
<1>9. ASSUME NEW i \in Index, V!ReadFails(i) PROVE V!ExamplesInv'
  <2>1. /\ result' = [result EXCEPT ![Owner[i]] = "failed"] /\ UNCHANGED <<scanned, left, examples>>
    BY <1>9 DEF V!ReadFails
  <2>2. \A w \in Worker : result'[w] # "ok" \/ result'[w] = result[w]
    BY <1>2, <2>1
  <2>3. skip = {} => \A j \in Index : Fine(j)'
    BY <1>2, <1>4, <1>6, <2>1, <2>2 DEF Fine
  <2> QED BY <1>2, <1>5, <2>1, <2>3
<1>10. CASE V!NextRound
  <2>1. V!Round(left) \subseteq left
    BY DEF V!Round
  <2>2. /\ scanned' = V!Round(left) /\ left' = left \ V!Round(left)
        /\ UNCHANGED <<result, examples>> /\ V!RoundJoined /\ V!AllOk
    BY <1>10 DEF V!NextRound
  <2>3. scanned = {}
    BY <1>2, <2>2 DEF V!RoundJoined, V!AllOk, V!VerdictInv
  <2>4. scanned' \cup left' = scanned \cup left
    BY <2>1, <2>2, <2>3
  <2>5. skip = {} => \A j \in Index : Fine(j)'
    BY <1>4, <1>6, <2>2, <2>4 DEF Fine
  <2> QED BY <1>2, <1>5, <2>2, <2>5
<1>11. CASE V!Conclude \/ V!CoordinatorFault
  <2>1. UNCHANGED <<left, scanned, result, examples>>
    BY <1>11 DEF V!Conclude, V!CoordinatorFault
  <2>2. skip = {} => \A j \in Index : Fine(j)'
    BY <1>4, <1>6, <2>1 DEF Fine
  <2> QED BY <1>2, <1>5, <2>1, <2>2
<1> QED BY <1>7, <1>8, <1>9, <1>10, <1>11 DEF V!Next, V!Work

LEMMA SameExamples ==
  ASSUME V!ExamplesInv, UNCHANGED <<fileGame, file, resident>>,
         UNCHANGED <<skip, left, scanned, result, examples>>
  PROVE  V!ExamplesInv'
<1>1. Source' = Source
  BY DEF Source
<1> QED BY <1>1 DEF V!ExamplesInv, V!Shown, V!Entry, V!Tables, V!Kept

LEMMA SameVerdict ==
  ASSUME V!VerdictInv, UNCHANGED <<fileGame, file, resident>>,
         UNCHANGED <<skip, left, scanned, result, verdict>>
  PROVE  V!VerdictInv'
<1>1. Source' = Source
  BY DEF Source
<1> QED BY <1>1, SameGame DEF V!VerdictInv, V!Done, V!AllOk

(* Merging all workers' examples keeps what each of them keeps. *)
LEMMA ExamplesRight ==
  ASSUME V!ExamplesInv, V!VerdictInv
  PROVE  V!ExamplesExact
<1> SUFFICES ASSUME verdict = "ok", skip = {}, NEW side \in Sides, NEW i \in Index,
                    NEW k, k = V!Entry(side, i)
             PROVE  \E e \in V!MergedExamples :
                      /\ V!SameKind(k, e)
                      /\ V!Distance(k.value) <= V!Distance(e.value)
                      /\ k.value = e.value =>
                           IF k.side = e.side THEN e.index <= i ELSE e.side = "WTM"
  BY SameGame DEF V!ExamplesExact
<1> DEFINE S == UNION {examples[w] : w \in Worker}
<1>1. /\ Source \in Tables /\ V!Shown \subseteq V!Entries /\ IsFiniteSet(V!Shown) /\ k \in V!Entries
  BY ShownFacts, SameTables DEF V!ExamplesInv
<1>2. S \in SUBSET V!Shown /\ Owner[i] \in Worker
  BY WorkAssumption DEF V!ExamplesInv
<1>3. PICK x \in S : V!SameKind(k, x) /\ ~V!Beats(k, x)
  <2>1. V!AllOk /\ scanned = {} /\ left = {}
    BY DEF V!VerdictInv
  <2>2. V!Kept(examples[Owner[i]], k)
    BY <1>2, <2>1, SameGame DEF V!ExamplesInv, V!AllOk
  <2> QED BY <1>2, <2>2 DEF V!Kept
<1>4. PICK T \in SUBSET V!Entries : T = S /\ IsFiniteSet(T)
  <2> HIDE DEF S
  <2>1. IsFiniteSet(S) /\ S \in SUBSET V!Entries
    BY <1>1, <1>2, FS_Subset
  <2> QED BY <2>1
<1>5. V!MergedExamples = Folded(T)[T] /\ V!MergedExamples \subseteq T /\ V!Kept(V!MergedExamples, x)
  BY <1>3, <1>4, FoldIs, FoldKeeps
<1>6. PICK e \in V!MergedExamples : V!SameKind(x, e) /\ ~V!Beats(x, e)
  BY <1>5 DEF V!Kept
<1>7. x \in V!Entries /\ e \in V!Entries
  BY <1>1, <1>2, <1>5, <1>4
<1>8. V!SameKind(k, e) /\ ~V!Beats(k, e)
  BY <1>1, <1>3, <1>6, <1>7, BeatsOrder
<1>9. k.index = i /\ k.side \in {"WTM", "BTM"} /\ e.side \in {"WTM", "BTM"}
      /\ k.index \in Int /\ e.index \in Int /\ k.value \in Int /\ e.value \in Int
  BY <1>1, <1>7, EntryFacts DEF V!Entry
<1>10. V!Distance(k.value) \in Int /\ V!Distance(e.value) \in Int
  BY <1>9 DEF V!Distance
<1>11. CASE k.value = V!Draw
  <2>1. e.value = V!Draw
    BY <1>8, <1>9, <1>11 DEF V!SameKind, V!IsWin, V!IsLoss, V!Draw
  <2> QED BY <1>8, <1>9, <1>10, <1>11, <2>1 DEF V!Beats
<1>12. CASE k.value # V!Draw
  <2>1. k.side = e.side
    BY <1>8, <1>12 DEF V!SameKind
  <2> QED BY <1>8, <1>9, <1>10, <1>12, <2>1 DEF V!Beats
<1> QED BY <1>11, <1>12

-----------------------------------------------------------------------------
LEMMA KeptPreserves ==
  ASSUME FinishInv, KeptInv, [FinishNext]_finishVars
  PROVE  KeptInv'
<1>1. ASSUME NEW fits \in BOOLEAN, Open(fits) PROVE KeptInv'
  <2>1. /\ phase = "open" /\ phase' = "verify" /\ file' = file
        /\ resident = NotLoaded /\ resident' \in {NotLoaded, file}
        /\ V!Started(left', scanned', result', examples', verdict')
    BY <1>1 DEF Open, FinishInv
  <2>2. Source' \in Tables /\ file' \in Tables
    BY <2>1 DEF KeptInv, Source
  <2>3. /\ scanned' \cup left' = Index /\ examples' = [w \in Worker |-> {}]
    BY <2>1, VerdictStarts DEF V!Started
  <2>4. V!ExamplesInv'
    BY <2>2, <2>3, SameTables DEF V!ExamplesInv
  <2>5. FinishInv'
    BY <1>1, FinishOpen
  <2> QED BY <2>1, <2>2, <2>4, <2>5 DEF KeptInv, FinishInv
<1>2. CASE Verify
  <2>1. /\ phase = "verify" /\ UNCHANGED <<file, resident, phase>>
        /\ V!Next /\ V!VerdictInv /\ V!ExamplesInv
    BY <1>2 DEF Verify, KeptInv
  <2>2. V!VerdictInv' /\ V!ExamplesInv'
    BY <2>1, VerdictStep, ExamplesStep
  <2> QED BY <2>1, <2>2 DEF KeptInv
<1>3. CASE Accept \/ UNCHANGED finishVars
  <2>1. /\ UNCHANGED <<fileGame, file, resident, verification>>
        /\ UNCHANGED <<skip, left, scanned, result, examples, verdict>>
        /\ phase' = phase \/ (phase = "verify" /\ phase' = "true")
    BY <1>3 DEF Accept, finishVars, verification
  <2>2. V!ExamplesInv => V!ExamplesInv'
    BY <2>1, SameExamples
  <2>3. V!VerdictInv => V!VerdictInv'
    BY <2>1, SameVerdict
  <2> QED BY <2>1, <2>2, <2>3 DEF KeptInv
<1>4. CASE StartRepair \/ Refuse \/ StorageFault
  BY <1>4 DEF StartRepair, Refuse, StorageFault, KeptInv
<1>5. ASSUME NEW succeeds \in BOOLEAN, Repair(succeeds) PROVE KeptInv'
  BY <1>5, FinishAssumption DEF Repair, KeptInv
<1> QED
  BY <1>1, <1>2, <1>3, <1>4, <1>5 DEF FinishNext, FinishStep, FinishEnded

LEMMA KeptRight ==
  ASSUME FinishInv, KeptInv, phase \in Phases
  PROVE  ExamplesExact
<1>1. CASE phase \in {"verify", "true", "elsewhere"}
  BY <1>1, ExamplesRight DEF KeptInv, ExamplesExact
<1>2. CASE phase \in {"open", "repair", "false"}
  BY <1>2 DEF FinishInv, ExamplesExact, V!ExamplesExact
<1> QED BY <1>1, <1>2 DEF Phases

LEMMA KeptInitially ==
  ASSUME FinishInit \/ InitElsewhere
  PROVE  KeptInv
<1>1. /\ V!Started(left, scanned, result, examples, verdict) /\ resident = NotLoaded
      /\ file \in Tables
  BY FinishAssumption DEF FinishInit, InitElsewhere
<1>2. V!VerdictInv /\ V!ExamplesInv
  BY <1>1, VerdictInitially, ExamplesStart DEF Source
<1> QED BY <1>1, <1>2 DEF KeptInv

LEMMA KeptElsewhere ==
  ASSUME KeptInv, phase = "elsewhere", [VerifyElsewhere]_finishVars
  PROVE  KeptInv'
<1>1. CASE VerifyElsewhere
  <2>1. UNCHANGED <<file, resident, phase>> /\ V!Next /\ V!VerdictInv /\ V!ExamplesInv
    BY <1>1 DEF VerifyElsewhere, KeptInv
  <2>2. V!VerdictInv' /\ V!ExamplesInv'
    BY <2>1, VerdictStep, ExamplesStep
  <2> QED BY <2>1, <2>2 DEF KeptInv
<1>2. CASE UNCHANGED finishVars
  <2>1. /\ UNCHANGED <<fileGame, file, resident, phase>>
        /\ UNCHANGED <<skip, left, scanned, result, examples, verdict>>
    BY <1>2 DEF finishVars, verification
  <2>2. V!VerdictInv' /\ V!ExamplesInv'
    BY <2>1, SameVerdict, SameExamples DEF KeptInv
  <2> QED BY <2>1, <2>2 DEF KeptInv
<1> QED BY <1>1, <1>2

(* Whatever the number of workers and the size of the rounds, the examples *)
(* reported with an accepted table have, of every kind of value, the       *)
(* longest distance, and the first of equals (merge_example).              *)
THEOREM ExamplesCorrect == FinishSpec => []ExamplesExact
<1>1. FinishInit => FinishInv /\ KeptInv /\ phase \in Phases
  BY FinishInitially, KeptInitially DEF FinishInit, Phases
<1>2. FinishInv /\ KeptInv /\ phase \in Phases /\ [FinishNext]_finishVars
        => (FinishInv /\ KeptInv /\ phase \in Phases)'
  BY FinishPreserves, KeptPreserves, PhaseStep DEF Phases
<1>3. FinishInv /\ KeptInv /\ phase \in Phases => ExamplesExact
  BY KeptRight
<1> QED BY <1>1, <1>2, <1>3, PTL DEF FinishSpec

(* So have those of a verification that someone else calls and that puts   *)
(* no position aside.                                                      *)
THEOREM ExamplesElsewhere == SpecElsewhere => []ExamplesExact
<1>1. InitElsewhere => FinishInv /\ KeptInv /\ phase = "elsewhere"
  BY FinishInitially, KeptInitially DEF InitElsewhere
<1>2. FinishInv /\ KeptInv /\ phase = "elsewhere" /\ [VerifyElsewhere]_finishVars
        => (FinishInv /\ KeptInv /\ phase = "elsewhere")'
  BY ElsewhereStep, KeptElsewhere
<1>3. FinishInv /\ KeptInv /\ phase = "elsewhere" => ExamplesExact
  BY KeptRight DEF Phases
<1> QED BY <1>1, <1>2, <1>3, PTL DEF SpecElsewhere
=============================================================================
