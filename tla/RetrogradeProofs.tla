-------------------------- MODULE RetrogradeProofs --------------------------
(***************************************************************************)
(* Proofs about the frontier generator, for every set of positions, every  *)
(* number of workers, every assignment of positions to workers, every game *)
(* and every range of distances, whatever the workers' interleaving.       *)
(***************************************************************************)
EXTENDS RetrogradeSolution, GameGraphProofs

LEMMA DtmParity ==
  ASSUME NEW v \in Dtm
  PROVE  /\ v \in Int
         /\ Draw \in Dtm /\ 0 \in Dtm
         /\ ~(IsWin(v) /\ IsLoss(v))
BY MaxWinAssumption DEF Dtm, IsWin, IsLoss, Draw, MaxLoss

LEMMA DeferralType ==
  ASSUME game \in GameGraphs, NEW side \in Sides, NEW i \in Index
  PROVE  DeferralDistances(side, i) \subseteq Dtm
<1>1. game.ext[side][i] \in SUBSET Dtm
  BY DEF GameGraphs
<1> QED BY <1>1, MaxOfValues DEF DeferralDistances

(* The shortest record of a position is one of its records. *)
LEMMA ReplayedType ==
  ASSUME NEW R \in SUBSET Dtm
  PROVE  /\ Replayed(R) \in Dtm
         /\ R # {} => /\ Replayed(R) \in R
                      /\ \A u \in R : Distance(Replayed(R)) <= Distance(u)
<1>1. CASE R = {}
  <2>1. Draw \in Dtm
    BY MaxWinAssumption DEF Dtm, MaxLoss, Draw
  <2> QED BY <1>1, <2>1 DEF Replayed
<1>2. CASE R # {}
  <2> DEFINE T == {Distance(u) : u \in R}
  <2>1. \A u \in R : Distance(u) \in Nat
    BY DEF Dtm, Distance
  <2>2. T \subseteq Nat /\ T # {}
    BY <1>2, <2>1
  <2>3. PICK x \in T : \A y \in T : x <= y
    BY <2>2, LeastNatural
  <2>4. \E v \in R : \A u \in R : Distance(v) <= Distance(u)
    BY <2>3
  <2>5. /\ Replayed(R) \in R
        /\ \A u \in R : Distance(Replayed(R)) <= Distance(u)
    BY <1>2, <2>4 DEF Replayed
  <2> QED BY <2>5
<1> QED BY <1>1, <1>2

LEMMA AppendRecordType ==
  ASSUME NEW S \in [Sides -> [Index -> SUBSET Dtm]],
         NEW side \in Sides, NEW i \in Index, NEW v \in Dtm
  PROVE  AppendRecord(S, side, i, v) \in [Sides -> [Index -> SUBSET Dtm]]
<1> DEFINE U == [S[side] EXCEPT ![i] = S[side][i] \cup {v}]
<1>1. U \in [Index -> SUBSET Dtm]
  OBVIOUS
<1>2. AppendRecord(S, side, i, v) = [S EXCEPT ![side] = U]
  BY DEF AppendRecord
<1> HIDE DEF U
<1> QED BY <1>1, <1>2

LEMMA AppendRecordAt ==
  ASSUME NEW S \in [Sides -> [Index -> SUBSET Dtm]],
         NEW side \in Sides, NEW i \in Index, NEW v \in Dtm,
         NEW r \in Sides, NEW j \in Index
  PROVE  /\ r = side /\ j = i => AppendRecord(S, side, i, v)[r][j] = S[r][j] \cup {v}
         /\ ~(r = side /\ j = i) => AppendRecord(S, side, i, v)[r][j] = S[r][j]
<1> DEFINE U == [S[side] EXCEPT ![i] = S[side][i] \cup {v}]
<1>1. U[j] = IF j = i THEN S[side][j] \cup {v} ELSE S[side][j]
  OBVIOUS
<1>2. AppendRecord(S, side, i, v) = [S EXCEPT ![side] = U]
  BY DEF AppendRecord
<1> HIDE DEF U
<1> QED BY <1>1, <1>2

-----------------------------------------------------------------------------
(* Type correctness, with the parity of the layers it needs. *)
TypeInv == TypeOK /\ LayerParity

LEMMA LayerValues ==
  ASSUME TypeInv
  PROVE  /\ layer.side \in Sides /\ Mover \in Sides
         /\ layer.distance \in Nat
         /\ layer.kind = "won" => -(layer.distance + 1) \in Dtm
         /\ layer.kind = "lost" => layer.distance + 1 \in Dtm
<1>1. layer.side \in Sides /\ layer.distance \in 0 .. MaxLoss /\ layer.kind \in Kinds
  BY DEF TypeInv, TypeOK, Layers
<1>2. MaxLoss \in Nat
  BY MaxWinAssumption DEF MaxLoss
<1>3. layer.kind = "won" => -(layer.distance + 1) \in Dtm
  BY <1>1, <1>2, MaxWinAssumption DEF TypeInv, LayerParity, Dtm, MaxLoss, Draw
<1>4. layer.kind = "lost" => layer.distance + 1 \in Dtm
  BY <1>1, <1>2, MaxWinAssumption DEF TypeInv, LayerParity, Dtm, MaxLoss, Draw
<1> QED BY <1>1, <1>2, <1>3, <1>4, SidesAndOpposite DEF Mover

LEMMA StartLayerType ==
  ASSUME TypeInv, NEW l \in Layers, StartLayer(l),
         l.kind = "won"  => l.distance % 2 = 1 /\ l.distance <= MaxWin,
         l.kind = "lost" => l.distance % 2 = 0 /\ l.distance < MaxWin
  PROVE  /\ LayerParity' /\ layer' \in Layers /\ stage' \in Running
         /\ todo' \subseteq Index /\ activations' \subseteq Index
BY DEF StartLayer, LayerParity, Running

LEMMA TypeInitially == Init => TypeInv
<1> SUFFICES ASSUME Init PROVE TypeInv
  OBVIOUS
<1>1. layer \in Layers /\ LayerParity
  BY MaxWinAssumption DEF Init, Layers, Kinds, Sides, LayerParity, MaxLoss
<1>2. Draw \in Dtm
  BY MaxWinAssumption DEF Dtm, MaxLoss, Draw
<1>3. TypeOK
  BY <1>1, <1>2, GamesAssumption
     DEF Init, TypeOK, Nothing, BitSets, Running, Errors, Tables
<1> QED BY <1>1, <1>3 DEF TypeInv

LEMMA TypeStep == TypeInv /\ [Next]_vars => TypeInv'
<1> SUFFICES ASSUME TypeInv, [Next]_vars PROVE TypeInv'
  OBVIOUS
<1>0. TypeOK /\ LayerParity
  BY DEF TypeInv
<1>1. ASSUME NEW i \in Index, InitializePosition(i) PROVE TypeInv'
  <2>1. CASE \E side \in Sides : InitialTooLong(side, i)
    BY <1>0, <1>1, <2>1, OwnerAssumption
       DEF InitializePosition, Fail, TypeInv, TypeOK, LayerParity, Errors
  <2>2. CASE ~\E side \in Sides : InitialTooLong(side, i)
    <3>0. \A side \in Sides : InitialValues(side, i) \subseteq Dtm
      BY <2>2 DEF InitialTooLong
    <3>1. records' \in [Sides -> [Index -> SUBSET Dtm]]
      BY <1>0, <1>1, <2>2, <3>0 DEF InitializePosition, TypeOK
    <3>2. \A side \in Sides : DeferralDistances(Opposite(side), i) \subseteq Dtm
      BY <1>0, DeferralType, SidesAndOpposite DEF TypeOK
    <3>3. deferred' \in [Sides -> [Index -> SUBSET Dtm]]
      <4>1. deferred' = [side \in Sides |->
                 [deferred[side] EXCEPT
                    ![i] = @ \cup DeferralDistances(Opposite(side), i)]]
        BY <1>1, <2>2 DEF InitializePosition
      <4> QED BY <1>0, <3>2, <4>1 DEF TypeOK
    <3> QED BY <1>0, <1>1, <2>2, <3>1, <3>3
            DEF InitializePosition, TypeInv, TypeOK, LayerParity
  <2> QED BY <2>1, <2>2
<1>2. ASSUME NEW i \in Index, ProcessSource(i) PROVE TypeInv'
  <2>a. Predecessors(game, layer.side, i) \subseteq Index
    BY DEF Predecessors
  <2>b. layer.side \in Sides
    BY LayerValues
  <2>c. /\ won' = won \/ won' = [won EXCEPT ![layer.side] = @ \cup {i}]
        /\ lost' = lost \/ lost' = [lost EXCEPT ![layer.side] = @ \cup {i}]
        /\ \/ candidates' = candidates
           \/ candidates' = candidates \cup Predecessors(game, layer.side, i)
    BY <1>2 DEF ProcessSource
  <2>d. won' \in BitSets
    BY <1>0, <2>b, <2>c DEF TypeOK, BitSets
  <2>e. lost' \in BitSets
    BY <1>0, <2>b, <2>c DEF TypeOK, BitSets
  <2>1. won' \in BitSets /\ lost' \in BitSets /\ candidates' \subseteq Index
    BY <1>0, <2>a, <2>c, <2>d, <2>e DEF TypeOK
  <2>2. error' \in [Worker -> Errors] /\ todo' \subseteq Index
    BY <1>0, <1>2, OwnerAssumption DEF ProcessSource, Fail, TypeOK, Errors
  <2> QED BY <1>0, <1>2, <2>1, <2>2
          DEF ProcessSource, TypeInv, TypeOK, LayerParity
<1>3. ASSUME NEW i \in Index, ActivateDeferred(i) PROVE TypeInv'
  BY <1>0, <1>3 DEF ActivateDeferred, TypeInv, TypeOK, LayerParity
<1>4. ASSUME NEW i \in Index, CheckLossCandidate(i) PROVE TypeInv'
  <2>1. records' \in [Sides -> [Index -> SUBSET Dtm]] /\ updated' \in BOOLEAN
    <3>1. layer.kind = "won"
      BY <1>4 DEF CheckLossCandidate
    <3>2. Mover \in Sides /\ -(layer.distance + 1) \in Dtm
      BY <3>1, LayerValues
    <3>3. AppendRecord(records, Mover, i, -(layer.distance + 1))
            \in [Sides -> [Index -> SUBSET Dtm]]
      BY <1>0, <3>2, AppendRecordType DEF TypeOK
    <3> QED BY <1>0, <1>4, <3>3 DEF CheckLossCandidate, TypeOK
  <2> QED BY <1>0, <1>4, <2>1 DEF CheckLossCandidate, TypeInv, TypeOK, LayerParity
<1>5. ASSUME NEW i \in Index, CheckWinCandidate(i) PROVE TypeInv'
  <2>1. records' \in [Sides -> [Index -> SUBSET Dtm]] /\ updated' \in BOOLEAN
    <3>1. layer.kind = "lost"
      BY <1>5 DEF CheckWinCandidate
    <3>2. Mover \in Sides /\ layer.distance + 1 \in Dtm
      BY <3>1, LayerValues
    <3>3. AppendRecord(records, Mover, i, layer.distance + 1)
            \in [Sides -> [Index -> SUBSET Dtm]]
      BY <1>0, <3>2, AppendRecordType DEF TypeOK
    <3> QED BY <1>0, <1>5, <3>3 DEF CheckWinCandidate, TypeOK
  <2>2. error' \in [Worker -> Errors] /\ todo' \subseteq Index
    BY <1>0, <1>5, OwnerAssumption DEF CheckWinCandidate, Fail, TypeOK, Errors
  <2> QED BY <1>0, <1>5, <2>1, <2>2
          DEF CheckWinCandidate, TypeInv, TypeOK, LayerParity
<1>6. ASSUME NEW i \in Index, CompilePosition(i) PROVE TypeInv'
  <2>1. \A side \in Sides : Replayed(records[side][i]) \in Dtm
    BY <1>0, ReplayedType DEF TypeOK
  <2>2. table' \in Tables
    BY <1>0, <1>6, <2>1 DEF CompilePosition, TypeOK, Tables
  <2> QED BY <1>0, <1>6, <2>2 DEF CompilePosition, TypeInv, TypeOK, LayerParity
<1>7. ASSUME NEW i \in Index, WorkerFault(i) PROVE TypeInv'
  BY <1>0, <1>7, OwnerAssumption
     DEF WorkerFault, Fail, TypeInv, TypeOK, LayerParity, Errors
<1>8. CASE EndInitialize
  <2> DEFINE l == [kind |-> "lost", side |-> "WTM", distance |-> 0]
  <2>1. l \in Layers /\ l.distance % 2 = 0 /\ l.distance < MaxWin /\ l.kind = "lost"
    BY MaxWinAssumption DEF Layers, Kinds, Sides, MaxLoss
  <2>2. StartLayer(l)
    BY <1>8 DEF EndInitialize
  <2>3. /\ LayerParity' /\ layer' \in Layers /\ stage' \in Running
        /\ todo' \subseteq Index /\ activations' \subseteq Index
    BY <2>1, <2>2, StartLayerType
  <2> QED BY <1>0, <1>8, <2>3 DEF EndInitialize, TypeInv, TypeOK
<1>9. CASE EndSources
  BY <1>0, <1>9 DEF EndSources, TypeInv, TypeOK, LayerParity, Running
<1>10. CASE EndLayer
  <2> DEFINE d == layer.distance
             Goal == /\ LayerParity' /\ layer' \in Layers
                     /\ stage' \in Running \cup Ended
                     /\ todo' \subseteq Index /\ activations' \subseteq Index
                     /\ updated' \in BOOLEAN
  <2> SUFFICES Goal
    BY <1>0, <1>10 DEF EndLayer, ClearCandidates, TypeInv, TypeOK
  <2>1. /\ layer \in Layers /\ d \in Nat /\ d <= MaxLoss /\ MaxWin \in Nat
        /\ layer.kind \in Kinds /\ MaxLoss = MaxWin + 1 /\ MaxWin % 2 = 1
    BY <1>0, MaxWinAssumption DEF TypeOK, Layers, MaxLoss
  <2>2. ASSUME Stop("beyond") PROVE Goal
    BY <1>0, <2>2 DEF Stop, Ended, TypeOK, LayerParity
  <2>3. ASSUME StartCompile PROVE Goal
    BY <1>0, <2>3 DEF StartCompile, TypeOK, LayerParity, Running
  <2>4. ASSUME NEW e \in Nat, e % 2 = 1, e <= MaxWin, NextWonLayer(e) PROVE Goal
    <3> DEFINE l == [kind |-> "won", side |-> "WTM", distance |-> e]
    <3>1. l \in Layers /\ l.distance % 2 = 1 /\ l.distance <= MaxWin /\ l.kind = "won"
      BY <2>1, <2>4 DEF Layers, Kinds, Sides
    <3>2. StartLayer(l) /\ updated' = FALSE
      BY <2>4 DEF NextWonLayer
    <3> HIDE DEF l
    <3>3. /\ LayerParity' /\ layer' \in Layers /\ stage' \in Running
          /\ todo' \subseteq Index /\ activations' \subseteq Index
      BY <3>1, <3>2, StartLayerType
    <3> QED BY <3>2, <3>3
  <2>5. ASSUME NEW e \in Nat, e % 2 = 1, EndIteration(e) PROVE Goal
    <3>1. CASE Finished(e)
      BY <2>3, <2>5, <3>1 DEF EndIteration
    <3>2. CASE ~Finished(e) /\ e > MaxWin - 2
      BY <2>2, <2>5, <3>2 DEF EndIteration
    <3>3. CASE ~Finished(e) /\ ~(e > MaxWin - 2)
      <4>1. NextWonLayer(e + 2) /\ e + 2 \in Nat /\ (e + 2) % 2 = 1 /\ e + 2 <= MaxWin
        BY <2>1, <2>5, <3>3 DEF EndIteration
      <4> QED BY <2>4, <4>1
    <3> QED BY <3>1, <3>2, <3>3
  <2>6. CASE layer.side = "WTM"
    <3> DEFINE l == [layer EXCEPT !.side = "BTM"]
    <3>1. /\ l \in Layers /\ l.kind = layer.kind /\ l.distance = layer.distance
      BY <2>1 DEF Layers, Sides
    <3>2. StartLayer(l) /\ UNCHANGED updated
      BY <1>10, <2>6 DEF EndLayer
    <3> HIDE DEF l
    <3>3. /\ LayerParity' /\ layer' \in Layers /\ stage' \in Running
          /\ todo' \subseteq Index /\ activations' \subseteq Index
      BY <1>0, <3>1, <3>2, StartLayerType DEF LayerParity
    <3> QED BY <1>0, <3>2, <3>3 DEF TypeOK
  <2>7. CASE layer.side # "WTM" /\ layer.kind = "won" /\ HasRecord(records, d + 1)
    <3>1. CASE LossLayerTooLong(d + 1)
      BY <1>10, <2>2, <2>7, <3>1 DEF EndLayer
    <3>2. CASE ~LossLayerTooLong(d + 1)
      <4> DEFINE l == [kind |-> "lost", side |-> "WTM", distance |-> d + 1]
      <4>1. /\ l \in Layers /\ l.kind = "lost" /\ l.distance % 2 = 0
            /\ l.distance < MaxWin
        BY <1>0, <2>1, <2>7, <3>2 DEF LayerParity, Layers, Kinds, Sides, LossLayerTooLong
      <4>2. StartLayer(l) /\ UNCHANGED updated
        BY <1>10, <2>7, <3>2 DEF EndLayer
      <4> HIDE DEF l
      <4>3. /\ LayerParity' /\ layer' \in Layers /\ stage' \in Running
            /\ todo' \subseteq Index /\ activations' \subseteq Index
        BY <4>1, <4>2, StartLayerType
      <4> QED BY <1>0, <4>2, <4>3 DEF TypeOK
    <3> QED BY <3>1, <3>2
  <2>8. CASE layer.side # "WTM" /\ layer.kind = "won" /\ ~HasRecord(records, d + 1)
    <3>1. EndIteration(d) /\ d % 2 = 1
      BY <1>0, <1>10, <2>8 DEF EndLayer, LayerParity
    <3> QED BY <2>1, <2>5, <3>1
  <2>9. CASE layer.side # "WTM" /\ layer.kind = "lost" /\ d = 0
    <3>1. NextWonLayer(1)
      BY <1>10, <2>9 DEF EndLayer
    <3> QED BY <2>1, <2>4, <3>1
  <2>10. CASE layer.side # "WTM" /\ layer.kind = "lost" /\ d # 0
    <3>1. EndIteration(d - 1)
      BY <1>10, <2>10 DEF EndLayer
    <3>2. d - 1 \in Nat /\ (d - 1) % 2 = 1
      BY <1>0, <2>1, <2>10 DEF LayerParity
    <3> QED BY <2>5, <3>1, <3>2
  <2> QED BY <2>1, <2>6, <2>7, <2>8, <2>9, <2>10 DEF Kinds
<1>11. CASE EndCompile
  BY <1>0, <1>11 DEF EndCompile, Ended, TypeInv, TypeOK, LayerParity
<1>12. CASE JoinFailure
  BY <1>0, <1>12 DEF JoinFailure, Stop, Ended, TypeInv, TypeOK, LayerParity
<1>13. CASE CoordinatorFault
  BY <1>0, <1>13 DEF CoordinatorFault, Stop, Ended, TypeInv, TypeOK, LayerParity
<1>14. CASE UNCHANGED vars
  BY <1>0, <1>14 DEF vars, TypeInv, TypeOK, LayerParity
<1> QED
  BY <1>1, <1>2, <1>3, <1>4, <1>5, <1>6, <1>7, <1>8, <1>9, <1>10, <1>11, <1>12,
     <1>13, <1>14
     DEF Next, WorkerStep, Coordinate, Terminated

(* Every variable keeps its type, and every appended record is a value the *)
(* database can store: the range checks of the layer loop suffice.         *)
THEOREM TypeCorrect == Spec => []TypeOK
<1>1. TypeInv => TypeOK
  BY DEF TypeInv
<1> QED BY <1>1, TypeInitially, TypeStep, PTL DEF Spec

-----------------------------------------------------------------------------
(* The two outcomes of a position exclude each other. *)
LEMMA InitialValueKinds ==
  ASSUME game \in GameGraphs, NEW side \in Sides, NEW i \in Index,
         NEW v \in InitialValues(side, i)
  PROVE  /\ IsLoss(v) => /\ game.succ[side][i] = {}
                         /\ \A x \in game.ext[side][i] : IsWin(x)
         /\ IsWin(v) => \E x \in game.ext[side][i] : IsLoss(x)
<1> DEFINE V == game.ext[side][i]
<1>1. V \in SUBSET Dtm
  BY DEF GameGraphs
<1>2. v = BestValue(V) /\ v # Draw
      /\ (game.succ[side][i] = {} \/ \E x \in V : IsLoss(x))
  BY DEF InitialValues
<1>3. \A x \in V : x \in Int /\ (IsWin(x) \/ IsLoss(x) \/ x = Draw)
  BY <1>1 DEF Dtm, IsWin, IsLoss
<1> HIDE DEF V
<1>4. CASE \E x \in V : IsLoss(x)
  <2>1. PICK l \in V : IsLoss(l) /\ v = 1 - l
    BY <1>1, <1>2, <1>4, BestValueCases
  <2>2. ~IsLoss(v)
    BY <1>3, <2>1 DEF IsLoss
  <2> QED BY <1>4, <2>2 DEF V
<1>5. CASE V = {}
  <2>1. v = 0
    BY <1>1, <1>2, <1>5, BestValueCases
  <2> QED BY <1>2, <1>5, <2>1 DEF IsWin, V
<1>6. CASE V # {} /\ ~ \E x \in V : IsLoss(x)
  <2>1. Draw \notin V
    BY <1>1, <1>2, <1>6, BestValueCases
  <2>2. \A x \in V : IsWin(x)
    BY <1>3, <1>6, <2>1
  <2>3. PICK m \in V : v = -(m + 1)
    BY <1>1, <1>2, <1>6, <2>2, BestValueCases
  <2>4. ~IsWin(v)
    BY <1>3, <2>2, <2>3 DEF IsWin
  <2> QED BY <1>2, <1>6, <2>2, <2>4 DEF V
<1> QED BY <1>4, <1>5, <1>6

RecordInv == LossJustified /\ WinJustified /\ Exclusive

LEMMA RecordFrame ==
  ASSUME RecordInv, UNCHANGED <<game, records>>
  PROVE  RecordInv'
BY DEF RecordInv, LossJustified, WinJustified, Exclusive, HasWin, HasLoss

LEMMA BitFrame ==
  ASSUME TypeOK, BitsRecorded, UNCHANGED <<won, lost>>,
         \A side \in Sides, i \in Index : records[side][i] \subseteq records'[side][i]
  PROVE  BitsRecorded'
<1> USE DEF BitsRecorded, HasWin, HasLoss
<1>1. \A side \in Sides : won[side] \subseteq Index /\ lost[side] \subseteq Index
  BY DEF TypeOK, BitSets
<1> QED BY <1>1

LEMMA ConflictInitially == Init => ConflictInv
<1> SUFFICES ASSUME Init PROVE ConflictInv
  OBVIOUS
<1>1. TypeOK /\ LayerParity
  BY TypeInitially DEF TypeInv
<1>2. \A side \in Sides, i \in Index : ~HasWin(side, i) /\ ~HasLoss(side, i)
  BY DEF Init, Nothing, HasWin, HasLoss
<1>3. LossJustified /\ WinJustified /\ Exclusive
  BY <1>2 DEF LossJustified, WinJustified, Exclusive
<1>4. BitsRecorded /\ InitialRecords /\ WorkOfLayer /\ WinCandidates /\ NoConflict
  BY DEF Init, Nothing, BitsRecorded, InitialRecords, WorkOfLayer, WinCandidates,
         NoConflict
<1> QED BY <1>1, <1>3, <1>4 DEF ConflictInv

LEMMA ConflictInitialize ==
  ASSUME ConflictInv, TypeInv', NEW i \in Index, InitializePosition(i)
  PROVE  ConflictInv'
<1>1. /\ TypeOK /\ stage = "initialize" /\ game \in GameGraphs
      /\ UNCHANGED <<game, won, lost, candidates, stage, layer, activations>>
      /\ BitsRecorded /\ InitialRecords /\ NoConflict /\ RecordInv
  BY DEF ConflictInv, InitializePosition, Working, TypeOK, RecordInv
<1>2. \A side \in Sides, j \in Index :
        /\ records[side][j] \subseteq records'[side][j]
        /\ records'[side][j] \subseteq InitialValues(side, j)
  <2>1. UNCHANGED records
        \/ records' = [side \in Sides |->
             [records[side] EXCEPT ![i] = @ \cup InitialValues(side, i)]]
    BY DEF InitializePosition
  <2>2. \A side \in Sides : records[side] \in [Index -> SUBSET Dtm]
    BY <1>1 DEF TypeOK
  <2>3. \A side \in Sides, j \in Index :
          \/ records'[side][j] = records[side][j]
          \/ records'[side][j] = records[side][j] \cup InitialValues(side, j)
    BY <2>1, <2>2
  <2>4. game' = game
    BY <1>1
  <2>5. \A side \in Sides, j \in Index : records[side][j] \subseteq InitialValues(side, j)
    BY <1>1 DEF InitialRecords
  <2> QED BY <2>3, <2>5
<1>3. InitialRecords'
  BY <1>1, <1>2 DEF InitialRecords, InitialValues
<1>4. RecordInv'
  <2>1. \A side \in Sides, j \in Index : \A v \in records'[side][j] :
          /\ IsLoss(v) => /\ game'.succ[side][j] = {}
                          /\ \A x \in game'.ext[side][j] : IsWin(x)
          /\ IsWin(v) => \E x \in game'.ext[side][j] : IsLoss(x)
    BY <1>1, <1>2, InitialValueKinds
  <2>2. \A side \in Sides, j \in Index : \A x \in game'.ext[side][j] :
          ~(IsWin(x) /\ IsLoss(x))
    BY <1>1, DtmParity DEF GameGraphs
  <2> QED BY <2>1, <2>2
          DEF RecordInv, LossJustified, WinJustified, Exclusive, HasWin, HasLoss
<1>5. BitsRecorded'
  BY <1>1, <1>2, BitFrame
<1>6. NoConflict'
  BY <1>1, OwnerAssumption DEF NoConflict, InitializePosition, Fail, TypeOK
<1>7. WorkOfLayer' /\ WinCandidates'
  BY <1>1 DEF ConflictInv, WorkOfLayer, WinCandidates
<1> QED BY <1>3, <1>4, <1>5, <1>6, <1>7 DEF ConflictInv, TypeInv, RecordInv

(* Marking: a source of a lost layer has a record of a loss, so the bit it *)
(* sets justifies the candidates it marks, and the opposite bit is clear.  *)
LEMMA ConflictSource ==
  ASSUME ConflictInv, TypeInv', NEW i \in Index, ProcessSource(i)
  PROVE  ConflictInv'
<1> DEFINE side == layer.side
<1>1. /\ TypeOK /\ TypeInv /\ stage = "sources" /\ i \in todo
      /\ UNCHANGED <<game, records, stage, layer, activations>>
      /\ todo' = todo \ {i}
      /\ BitsRecorded /\ NoConflict /\ RecordInv /\ WorkOfLayer /\ WinCandidates
  BY DEF ConflictInv, ProcessSource, Working, RecordInv, TypeInv
<1>2. side \in Sides /\ layer.kind \in Kinds /\ layer.distance \in Nat
  BY <1>1, LayerValues DEF TypeOK, Layers
<1>3. LayerValue(layer) \in records[side][i]
  BY <1>1 DEF WorkOfLayer
<1>4. /\ layer.kind = "won" => HasWin(side, i)
      /\ layer.kind = "lost" => HasLoss(side, i)
  <2>1. CASE layer.kind = "won"
    <3>1. layer.distance > 0
      BY <1>1, <1>2, <2>1 DEF TypeInv, LayerParity
    <3> QED BY <1>3, <2>1, <3>1 DEF LayerValue, HasWin, IsWin
  <2>2. CASE layer.kind = "lost"
    <3>1. -layer.distance <= 0 /\ -layer.distance # Draw
      BY <1>1, <1>2, <2>2 DEF TypeInv, LayerParity, Draw
    <3> QED BY <1>3, <2>2, <3>1 DEF LayerValue, HasLoss, IsLoss
  <2> QED BY <2>1, <2>2
<1>5. ~(i \in won[side] /\ layer.kind = "lost") /\ ~(i \in lost[side] /\ layer.kind = "won")
  BY <1>1, <1>2, <1>4 DEF BitsRecorded, RecordInv, Exclusive
<1>6. NoConflict'
  <2>1. error' = error
    BY <1>2, <1>5 DEF ProcessSource, Outcome, Kinds
  <2> QED BY <1>1, <2>1 DEF NoConflict
<1>7. /\ won' = won \/ (layer.kind = "won" /\ won' = [won EXCEPT ![side] = @ \cup {i}])
      /\ lost' = lost \/ (layer.kind = "lost" /\ lost' = [lost EXCEPT ![side] = @ \cup {i}])
  BY <1>2 DEF ProcessSource, Kinds
<1>8. BitsRecorded'
  <2>1. \A s \in Sides : \A j \in won'[s] : HasWin(s, j)
    BY <1>1, <1>2, <1>4, <1>7 DEF BitsRecorded, TypeOK, BitSets
  <2>2. \A s \in Sides : \A j \in lost'[s] : HasLoss(s, j)
    BY <1>1, <1>2, <1>4, <1>7 DEF BitsRecorded, TypeOK, BitSets
  <2> QED BY <1>1, <2>1, <2>2 DEF BitsRecorded, HasWin, HasLoss
<1>9. WinCandidates'
  <2> SUFFICES ASSUME layer.kind = "lost", NEW c \in candidates'
               PROVE  \E j \in game.succ[Mover][c] : j \in lost'[side]
    BY <1>1 DEF WinCandidates, Mover
  <2>1. lost[side] \subseteq lost'[side]
    BY <1>1, <1>2, <1>7 DEF TypeOK, BitSets
  <2>2. CASE c \in candidates
    BY <1>1, <2>1, <2>2 DEF WinCandidates
  <2>3. CASE c \notin candidates
    <3>1. i \notin lost[side] /\ c \in Predecessors(game, side, i)
      BY <2>3 DEF ProcessSource, Outcome
    <3>2. lost' = [lost EXCEPT ![side] = @ \cup {i}]
      BY <1>5, <2>3, <3>1 DEF ProcessSource, Outcome
    <3>3. i \in lost'[side]
      BY <1>1, <1>2, <3>2 DEF TypeOK, BitSets
    <3> QED BY <3>1, <3>3 DEF Predecessors, Mover
  <2> QED BY <2>2, <2>3
<1>10. RecordInv' /\ InitialRecords' /\ WorkOfLayer'
  BY <1>1, RecordFrame DEF InitialRecords, WorkOfLayer
<1> QED BY <1>6, <1>8, <1>9, <1>10 DEF ConflictInv, TypeInv, RecordInv

LEMMA ConflictActivate ==
  ASSUME ConflictInv, TypeInv', NEW i \in Index, ActivateDeferred(i)
  PROVE  ConflictInv'
<1>1. /\ TypeOK /\ stage = "sources" /\ i \in activations
      /\ UNCHANGED <<game, records, won, lost, stage, layer, todo, error>>
      /\ activations' = activations \ {i}
      /\ BitsRecorded /\ NoConflict /\ RecordInv /\ WorkOfLayer /\ WinCandidates
  BY DEF ConflictInv, ActivateDeferred, RecordInv
<1>2. layer.kind # "lost"
  BY <1>1 DEF WorkOfLayer
<1>3. RecordInv' /\ BitsRecorded' /\ NoConflict'
  BY <1>1, RecordFrame, BitFrame DEF NoConflict
<1>4. WorkOfLayer' /\ InitialRecords' /\ WinCandidates'
  BY <1>1, <1>2 DEF WorkOfLayer, InitialRecords, WinCandidates
<1> QED BY <1>3, <1>4 DEF ConflictInv, TypeInv, RecordInv

(* A new record at a candidate.  It is justified by its successors; and if *)
(* the position already had the other outcome, one of its successors would *)
(* have both.                                                              *)
LEMMA RecordAppended ==
  ASSUME TypeOK, RecordInv, NEW s \in Sides, NEW i \in Index, NEW v \in Dtm,
         UNCHANGED game, records' = AppendRecord(records, s, i, v),
         IsLoss(v) => /\ \A x \in game.ext[s][i] : IsWin(x)
                      /\ \A j \in game.succ[s][i] : HasWin(Opposite(s), j),
         IsWin(v) => \E j \in game.succ[s][i] : HasLoss(Opposite(s), j)
  PROVE  RecordInv'
<1> DEFINE o == Opposite(s)
<1>1. o \in Sides /\ game.succ[s][i] \in SUBSET Index /\ game.ext[s][i] \in SUBSET Dtm
  BY SidesAndOpposite DEF TypeOK, GameGraphs
<1>2. \A r \in Sides, j \in Index :
        /\ r = s /\ j = i => records'[r][j] = records[r][j] \cup {v}
        /\ ~(r = s /\ j = i) => records'[r][j] = records[r][j]
  <2>1. records \in [Sides -> [Index -> SUBSET Dtm]]
    BY DEF TypeOK
  <2> QED BY <2>1, AppendRecordAt
<1>3. \A r \in Sides, j \in Index :
        /\ HasWin(r, j) => HasWin(r, j)'
        /\ HasLoss(r, j) => HasLoss(r, j)'
        /\ ~(r = s /\ j = i) => /\ HasWin(r, j)' => HasWin(r, j)
                                /\ HasLoss(r, j)' => HasLoss(r, j)
        /\ r = s /\ j = i => /\ HasWin(r, j)' => HasWin(r, j) \/ IsWin(v)
                             /\ HasLoss(r, j)' => HasLoss(r, j) \/ IsLoss(v)
  <2> SUFFICES ASSUME NEW r \in Sides, NEW j \in Index
               PROVE  /\ HasWin(r, j) => HasWin(r, j)'
                      /\ HasLoss(r, j) => HasLoss(r, j)'
                      /\ ~(r = s /\ j = i) => /\ HasWin(r, j)' => HasWin(r, j)
                                              /\ HasLoss(r, j)' => HasLoss(r, j)
                      /\ r = s /\ j = i => /\ HasWin(r, j)' => HasWin(r, j) \/ IsWin(v)
                                           /\ HasLoss(r, j)' => HasLoss(r, j) \/ IsLoss(v)
    OBVIOUS
  <2>1. CASE r = s /\ j = i
    <3>1. records'[r][j] = records[r][j] \cup {v}
      BY <1>2, <2>1
    <3> QED BY <2>1, <3>1 DEF HasWin, HasLoss
  <2>2. CASE ~(r = s /\ j = i)
    <3>1. records'[r][j] = records[r][j]
      BY <1>2, <2>2
    <3> QED BY <2>2, <3>1 DEF HasWin, HasLoss
  <2> QED BY <2>1, <2>2
<1>4. \A r \in Sides, j \in Index :
        Opposite(r) \in Sides /\ game.succ[r][j] \subseteq Index
  BY SidesAndOpposite DEF TypeOK, GameGraphs
<1>5. LossJustified'
  <2> SUFFICES ASSUME NEW r \in Sides, NEW j \in Index, HasLoss(r, j)'
               PROVE  /\ \A x \in game.ext[r][j] : IsWin(x)
                      /\ \A k \in game.succ[r][j] : HasWin(Opposite(r), k)'
    BY DEF LossJustified
  <2>1. CASE HasLoss(r, j)
    BY <1>3, <1>4, <2>1 DEF RecordInv, LossJustified
  <2>2. CASE ~HasLoss(r, j)
    <3>1. r = s /\ j = i /\ IsLoss(v)
      BY <1>3, <2>2
    <3> QED BY <1>1, <1>3, <3>1
  <2> QED BY <2>1, <2>2
<1>6. WinJustified'
  <2> SUFFICES ASSUME NEW r \in Sides, NEW j \in Index, HasWin(r, j)'
               PROVE  \/ \E x \in game.ext[r][j] : IsLoss(x)
                      \/ \E k \in game.succ[r][j] : HasLoss(Opposite(r), k)'
    BY DEF WinJustified
  <2>1. CASE HasWin(r, j)
    BY <1>3, <1>4, <2>1 DEF RecordInv, WinJustified
  <2>2. CASE ~HasWin(r, j)
    <3>1. r = s /\ j = i /\ IsWin(v)
      BY <1>3, <2>2
    <3> QED BY <1>1, <1>3, <3>1
  <2> QED BY <2>1, <2>2
<1>7. Exclusive'
  <2> SUFFICES ASSUME HasWin(s, i)', HasLoss(s, i)' PROVE FALSE
    BY <1>3 DEF Exclusive, RecordInv
  <2>1. ~(IsWin(v) /\ IsLoss(v)) /\ \A x \in game.ext[s][i] : ~(IsWin(x) /\ IsLoss(x))
    BY <1>1, DtmParity
  <2>2. \A j \in game.succ[s][i] : ~(HasWin(o, j) /\ HasLoss(o, j))
    BY <1>1 DEF RecordInv, Exclusive
  <2>3. CASE HasLoss(s, i) /\ IsWin(v)
    BY <2>2, <2>3 DEF RecordInv, LossJustified
  <2>4. CASE HasWin(s, i) /\ IsLoss(v)
    BY <2>1, <2>2, <2>4 DEF RecordInv, WinJustified
  <2>5. ~(HasWin(s, i) /\ HasLoss(s, i))
    BY DEF RecordInv, Exclusive
  <2> QED BY <1>3, <2>1, <2>3, <2>4, <2>5
<1> QED BY <1>5, <1>6, <1>7 DEF RecordInv

LEMMA ConflictLossCandidate ==
  ASSUME ConflictInv, TypeInv', NEW i \in Index, CheckLossCandidate(i)
  PROVE  ConflictInv'
<1>1. /\ TypeOK /\ TypeInv /\ stage = "candidates" /\ layer.kind = "won"
      /\ UNCHANGED <<game, won, lost, candidates, stage, layer, activations, error>>
      /\ todo' \subseteq todo
      /\ BitsRecorded /\ NoConflict /\ RecordInv /\ WorkOfLayer
  BY DEF ConflictInv, CheckLossCandidate, Working, RecordInv, TypeInv
<1>2. InitialRecords' /\ WorkOfLayer' /\ WinCandidates' /\ NoConflict'
  BY <1>1 DEF InitialRecords, WorkOfLayer, WinCandidates, NoConflict
<1>3. CASE UNCHANGED records
  BY <1>1, <1>2, <1>3, RecordFrame, BitFrame DEF ConflictInv, TypeInv, RecordInv
<1>4. CASE AllWinning(i) /\ records' = AppendRecord(records, Mover, i, -(layer.distance + 1))
  <2> DEFINE v == -(layer.distance + 1)
  <2>1. Mover \in Sides /\ v \in Dtm /\ layer.side \in Sides
        /\ layer.distance \in Nat /\ layer.distance > 0
        /\ Opposite(Mover) = layer.side
    BY <1>1, LayerValues, SidesAndOpposite DEF Mover, TypeInv, LayerParity
  <2>2. ~IsWin(v)
    BY <2>1 DEF IsWin
  <2>3. \A x \in game.ext[Mover][i] : IsWin(x)
    BY <1>4 DEF AllWinning, IsWin
  <2>4. \A j \in game.succ[Mover][i] : HasWin(Opposite(Mover), j)
    BY <1>1, <1>4, <2>1 DEF AllWinning, BitsRecorded
  <2>5. RecordInv'
    BY <1>1, <1>4, <2>1, <2>2, <2>3, <2>4, RecordAppended
  <2>6. ASSUME NEW s \in Sides, NEW k \in Index
        PROVE  records[s][k] \subseteq records'[s][k]
    <3>1. records \in [Sides -> [Index -> SUBSET Dtm]]
      BY <1>1 DEF TypeOK
    <3>2. /\ s = Mover /\ k = i =>
               records'[s][k] = records[s][k] \cup {-(layer.distance + 1)}
          /\ ~(s = Mover /\ k = i) => records'[s][k] = records[s][k]
      BY <1>4, <2>1, <3>1, AppendRecordAt
    <3> QED BY <3>2
  <2> QED BY <1>1, <1>2, <2>5, <2>6, BitFrame DEF ConflictInv, TypeInv, RecordInv
<1> QED BY <1>3, <1>4 DEF CheckLossCandidate

LEMMA ConflictWinCandidate ==
  ASSUME ConflictInv, TypeInv', NEW i \in Index, CheckWinCandidate(i)
  PROVE  ConflictInv'
<1>1. /\ TypeOK /\ TypeInv /\ stage = "candidates" /\ layer.kind = "lost"
      /\ UNCHANGED <<game, won, lost, candidates, stage, layer, activations>>
      /\ i \in todo /\ todo' \subseteq todo
      /\ BitsRecorded /\ NoConflict /\ RecordInv /\ WorkOfLayer /\ WinCandidates
  BY DEF ConflictInv, CheckWinCandidate, Working, RecordInv, TypeInv
<1>2. /\ Mover \in Sides /\ layer.distance + 1 \in Dtm /\ layer.side \in Sides
      /\ layer.distance \in Nat /\ Opposite(Mover) = layer.side
  BY <1>1, LayerValues, SidesAndOpposite DEF Mover
<1>3. PICK j \in game.succ[Mover][i] : HasLoss(layer.side, j) /\ j \in Index
  BY <1>1, <1>2 DEF WorkOfLayer, WinCandidates, BitsRecorded, TypeOK, GameGraphs
<1>4. i \notin lost[Mover]
  <2>1. ~HasWin(layer.side, j)
    BY <1>1, <1>2, <1>3 DEF RecordInv, Exclusive
  <2> QED BY <1>1, <1>2, <1>3, <2>1 DEF BitsRecorded, RecordInv, LossJustified
<1>5. InitialRecords' /\ WorkOfLayer' /\ WinCandidates'
  BY <1>1 DEF InitialRecords, WorkOfLayer, WinCandidates, Mover
<1>6. NoConflict'
  BY <1>1, <1>4 DEF CheckWinCandidate, NoConflict
<1>7. CASE UNCHANGED records
  BY <1>1, <1>5, <1>6, <1>7, RecordFrame, BitFrame DEF ConflictInv, TypeInv, RecordInv
<1>8. CASE records' = AppendRecord(records, Mover, i, layer.distance + 1)
  <2>1. ~IsLoss(layer.distance + 1)
    BY <1>2 DEF IsLoss
  <2>2. RecordInv'
    BY <1>1, <1>2, <1>3, <1>8, <2>1, RecordAppended
  <2>3. ASSUME NEW s \in Sides, NEW k \in Index
        PROVE  records[s][k] \subseteq records'[s][k]
    <3>1. records \in [Sides -> [Index -> SUBSET Dtm]]
      BY <1>1 DEF TypeOK
    <3>2. /\ s = Mover /\ k = i =>
               records'[s][k] = records[s][k] \cup {layer.distance + 1}
          /\ ~(s = Mover /\ k = i) => records'[s][k] = records[s][k]
      BY <1>2, <1>8, <3>1, AppendRecordAt
    <3> QED BY <3>2
  <2> QED BY <1>1, <1>5, <1>6, <2>2, <2>3, BitFrame DEF ConflictInv, TypeInv, RecordInv
<1> QED BY <1>7, <1>8 DEF CheckWinCandidate

(* The other steps move the layers on: bits and records stay as they are,  *)
(* and a new layer starts with an empty candidate bitmap.                  *)
LEMMA ConflictCoordinator ==
  ASSUME ConflictInv, TypeInv',
         \/ Coordinate \/ CoordinatorFault \/ UNCHANGED vars
         \/ \E i \in Index : CompilePosition(i) \/ WorkerFault(i)
  PROVE  ConflictInv'
<1>1. /\ TypeOK /\ TypeInv /\ BitsRecorded /\ NoConflict /\ RecordInv
      /\ WorkOfLayer /\ WinCandidates /\ InitialRecords
  BY DEF ConflictInv, RecordInv, TypeInv
<1>2. UNCHANGED <<game, records, won, lost>>
  BY DEF Coordinate, EndInitialize, EndSources, EndLayer, EndCompile, JoinFailure,
         CoordinatorFault, CompilePosition, WorkerFault, vars
<1>3. RecordInv' /\ BitsRecorded'
  BY <1>1, <1>2, RecordFrame, BitFrame
<1>4. NoConflict'
  BY <1>1, OwnerAssumption
     DEF Coordinate, EndInitialize, EndSources, EndLayer, EndCompile, JoinFailure,
         CoordinatorFault, CompilePosition, WorkerFault, vars, Fail, NoConflict, TypeOK
<1>5. ASSUME NEW l, StartLayer(l), candidates' = {}
      PROVE  InitialRecords' /\ WorkOfLayer' /\ WinCandidates'
  BY <1>2, <1>5 DEF StartLayer, InitialRecords, WorkOfLayer, WinCandidates
<1>6. CASE EndInitialize
  <2>1. candidates' = {}
    BY <1>1, <1>6 DEF EndInitialize, Joined, InitialRecords
  <2>2. InitialRecords' /\ WorkOfLayer' /\ WinCandidates'
    BY <1>5, <1>6, <2>1 DEF EndInitialize
  <2> QED BY <1>3, <1>4, <2>2 DEF ConflictInv, TypeInv, RecordInv
<1>7. CASE EndSources
  <2>1. WinCandidates'
    BY <1>1, <1>7 DEF EndSources, Joined, WinCandidates, Mover
  <2>2. InitialRecords' /\ WorkOfLayer'
    BY <1>1, <1>7 DEF EndSources, InitialRecords, WorkOfLayer
  <2> QED BY <1>3, <1>4, <2>1, <2>2 DEF ConflictInv, TypeInv, RecordInv
<1>8. CASE EndLayer
  <2>1. candidates' = {}
    BY <1>8 DEF EndLayer, ClearCandidates
  <2>2. \/ Stop("beyond") \/ StartCompile \/ \E l : StartLayer(l)
    BY <1>8 DEF EndLayer, EndIteration, NextWonLayer
  <2>3. ASSUME Stop("beyond") \/ StartCompile
        PROVE  InitialRecords' /\ WorkOfLayer' /\ WinCandidates'
    BY <1>1, <2>3 DEF Stop, StartCompile, InitialRecords, WorkOfLayer, WinCandidates
  <2>4. InitialRecords' /\ WorkOfLayer' /\ WinCandidates'
    BY <1>5, <2>1, <2>2, <2>3
  <2> QED BY <1>3, <1>4, <2>4 DEF ConflictInv, TypeInv, RecordInv
<1>9. CASE \/ EndCompile \/ JoinFailure \/ CoordinatorFault
           \/ \E i \in Index : CompilePosition(i)
  <2>1. UNCHANGED <<candidates, layer, activations>>
        /\ stage' \notin {"initialize", "sources", "candidates"}
    BY <1>9 DEF EndCompile, JoinFailure, CoordinatorFault, CompilePosition, Working, Stop
  <2>2. InitialRecords' /\ WorkOfLayer' /\ WinCandidates'
    BY <1>1, <2>1 DEF InitialRecords, WorkOfLayer, WinCandidates
  <2> QED BY <1>3, <1>4, <2>2 DEF ConflictInv, TypeInv, RecordInv
<1>10. CASE UNCHANGED vars \/ \E i \in Index : WorkerFault(i)
  <2>1. UNCHANGED <<candidates, layer, activations, stage, todo>>
    BY <1>10 DEF WorkerFault, vars
  <2>2. InitialRecords' /\ WorkOfLayer' /\ WinCandidates'
    BY <1>1, <1>2, <2>1
       DEF InitialRecords, InitialValues, WorkOfLayer, WinCandidates, Mover
  <2> QED BY <1>3, <1>4, <2>2 DEF ConflictInv, TypeInv, RecordInv
<1> QED BY <1>6, <1>7, <1>8, <1>9, <1>10 DEF Coordinate

LEMMA ConflictStep == ConflictInv /\ [Next]_vars => ConflictInv'
<1> SUFFICES ASSUME ConflictInv, [Next]_vars PROVE ConflictInv'
  OBVIOUS
<1>1. TypeInv'
  BY TypeStep DEF ConflictInv, TypeInv
<1> QED
  BY <1>1, ConflictInitialize, ConflictSource, ConflictActivate, ConflictLossCandidate,
     ConflictWinCandidate, ConflictCoordinator
     DEF Next, WorkerStep, Terminated

(* No worker ever finds a position with both outcomes: the run-time checks *)
(* for conflicting frontier outcomes can only report corruption.           *)
THEOREM NeverConflict == Spec => []NoConflict
<1>1. ConflictInv => NoConflict
  BY DEF ConflictInv
<1> QED BY <1>1, ConflictInitially, ConflictStep, PTL DEF Spec

-----------------------------------------------------------------------------
(***************************************************************************)
(* The generator solves the game: what it compiles is the consistent       *)
(* table.                                                                  *)
(***************************************************************************)

(* A record is a win or a loss, of the parity of its kind. *)
LEMMA RecordFacts ==
  ASSUME TypeOK, RecordsSound, NEW side \in Sides, NEW i \in Index,
         NEW v \in records[side][i]
  PROVE  /\ v \in Dtm /\ v \in Int
         /\ IsWin(v) \/ IsLoss(v)
         /\ ~(IsWin(v) /\ IsLoss(v))
         /\ IsWin(v)  => v \in Nat /\ 0 < v /\ v <= MaxWin /\ v % 2 = 1
         /\ IsLoss(v) => -v \in Nat /\ (-v) % 2 = 0 /\ v <= 0 /\ v # Draw
<1>1. v \in Dtm
  BY DEF TypeOK
<1>2. v # Draw
  <2>1. v \in InitialValues(side, i) => v # Draw
    BY DEF InitialValues
  <2> QED BY <2>1, <1>1, ParityOfDtm DEF RecordsSound, IsLoss, IsWin, Draw
<1> QED BY <1>1, <1>2, ParityOfDtm

LEMMA GameFacts ==
  ASSUME game \in GameGraphs, NEW side \in Sides, NEW i \in Index
  PROVE  /\ game.succ[side][i] \in SUBSET Index
         /\ game.ext[side][i] \in SUBSET Dtm
         /\ Opposite(side) \in Sides
BY SidesAndOpposite DEF GameGraphs

(* The values a position gets at once, by its moves out of the table. *)
LEMMA InitialCases ==
  ASSUME game \in GameGraphs, NEW side \in Sides, NEW i \in Index
  PROVE  /\ (\E x \in game.ext[side][i] : IsLoss(x)) =>
              \E l \in game.ext[side][i] :
                 /\ IsLoss(l) /\ InitialValues(side, i) = {1 - l}
                 /\ \A x \in game.ext[side][i] : IsLoss(x) => x <= l
         /\ game.succ[side][i] = {} =>
              InitialValues(side, i) = {BestValue(game.ext[side][i])} \ {Draw}
         /\ game.succ[side][i] # {} /\ (\A x \in game.ext[side][i] : ~IsLoss(x)) =>
              InitialValues(side, i) = {}
<1> DEFINE V == game.ext[side][i]
<1>1. V \in SUBSET Dtm
  BY GameFacts
<1>2. CASE \E x \in V : IsLoss(x)
  <2>1. PICK l \in V : /\ IsLoss(l) /\ BestValue(V) = 1 - l
                       /\ \A x \in V : IsLoss(x) => x <= l
    BY <1>1, <1>2, BestValueCases
  <2>2. 1 - l # Draw
    BY <1>1, <2>1, ParityOfDtm DEF Draw
  <2>3. InitialValues(side, i) = {1 - l}
    BY <1>2, <2>1, <2>2 DEF InitialValues
  <2> QED BY <1>2, <2>1, <2>3 DEF InitialValues
<1>3. CASE \A x \in V : ~IsLoss(x)
  BY <1>3 DEF InitialValues
<1> QED BY <1>2, <1>3

(* The entry compiled from the records of a position. *)
LEMMA ReplayedCases ==
  ASSUME TypeOK, RecordsSound, Exclusive, NEW side \in Sides, NEW i \in Index,
         NEW t, t = Replayed(records[side][i])
  PROVE  /\ t \in Dtm
         /\ records[side][i] = {} => t = Draw
         /\ HasWin(side, i) => /\ t \in records[side][i] /\ IsWin(t)
                               /\ \A v \in records[side][i] : IsWin(v) /\ t <= v
         /\ HasLoss(side, i) => /\ t \in records[side][i] /\ IsLoss(t)
                                /\ \A v \in records[side][i] : IsLoss(v) /\ v <= t
         /\ records[side][i] # {} => HasWin(side, i) \/ HasLoss(side, i)
<1> DEFINE R == records[side][i]
<1>1. R \in SUBSET Dtm
  BY DEF TypeOK
<1>2. t \in Dtm /\ (R # {} => t \in R /\ \A u \in R : Distance(t) <= Distance(u))
  BY <1>1, ReplayedType
<1>3. R = {} => t = Draw
  BY DEF Replayed
<1>4. \A v \in R : /\ v \in Int
                   /\ IsWin(v) \/ IsLoss(v)
                   /\ ~(IsWin(v) /\ IsLoss(v))
                   /\ IsWin(v) => 0 < v
                   /\ IsLoss(v) => v <= 0
  BY RecordFacts
<1>5. ~(HasWin(side, i) /\ HasLoss(side, i))
  BY DEF Exclusive
<1>6. ASSUME HasWin(side, i)
      PROVE  t \in R /\ IsWin(t) /\ \A v \in R : IsWin(v) /\ t <= v
  <2>1. R # {} /\ \A v \in R : IsWin(v)
    BY <1>4, <1>5, <1>6 DEF HasWin, HasLoss
  <2> QED BY <1>2, <1>4, <2>1 DEF Distance
<1>7. ASSUME HasLoss(side, i)
      PROVE  t \in R /\ IsLoss(t) /\ \A v \in R : IsLoss(v) /\ v <= t
  <2>1. R # {} /\ \A v \in R : IsLoss(v)
    BY <1>4, <1>5, <1>7 DEF HasWin, HasLoss
  <2> QED BY <1>2, <1>4, <2>1 DEF Distance
<1>8. R # {} => HasWin(side, i) \/ HasLoss(side, i)
  BY <1>4 DEF HasWin, HasLoss
<1> QED BY <1>2, <1>3, <1>6, <1>7, <1>8

-----------------------------------------------------------------------------
(* A table replayed from sound and complete records is consistent.         *)
Solved == TypeOK /\ Exclusive /\ RecordsSound /\ SolvedRecords

LEMMA SolvedSuccessors ==
  ASSUME Solved, NEW t,
         \A r \in Sides, k \in Index : t[r][k] = Replayed(records[r][k]),
         NEW side \in Sides, NEW i \in Index,
         NEW V, V = SuccessorValues(game, t, side, i)
  PROVE  /\ V \in SUBSET Dtm
         /\ V = {t[Opposite(side)][j] : j \in game.succ[side][i]} \cup game.ext[side][i]
         /\ \A l \in V : IsLoss(l) /\ -l <= MaxWin => WinWithin(side, i, 1 - l)
         /\ \A l \in game.ext[side][i] : IsLoss(l) => WinWithin(side, i, 1 - l)
<1> DEFINE o == Opposite(side)
<1>1. /\ o \in Sides /\ game.succ[side][i] \in SUBSET Index
      /\ game.ext[side][i] \in SUBSET Dtm /\ game \in GameGraphs
      /\ Opposite(o) = side
  BY GameFacts, SidesAndOpposite DEF Solved, SolvedRecords, TypeOK
<1>2. V = {t[o][j] : j \in game.succ[side][i]} \cup game.ext[side][i]
  BY DEF SuccessorValues
<1>3. \A j \in game.succ[side][i] :
        /\ t[o][j] \in Dtm
        /\ IsLoss(t[o][j]) => t[o][j] \in records[o][j]
  <2> SUFFICES ASSUME NEW j \in game.succ[side][i]
               PROVE  t[o][j] \in Dtm /\ (IsLoss(t[o][j]) => t[o][j] \in records[o][j])
    OBVIOUS
  <2>1. j \in Index /\ t[o][j] = Replayed(records[o][j])
    BY <1>1
  <2> HIDE DEF o
  <2>2. t[o][j] \in Dtm
    BY <1>1, <2>1, ReplayedType DEF Solved, SolvedRecords, TypeOK
  <2>3. records[o][j] # {} => t[o][j] \in records[o][j]
    BY <1>1, <2>1, ReplayedType DEF Solved, SolvedRecords, TypeOK
  <2>4. records[o][j] = {} => ~IsLoss(t[o][j])
    BY <2>1 DEF Replayed, IsLoss
  <2> QED BY <2>2, <2>3, <2>4
<1>4. ASSUME NEW l \in game.ext[side][i], IsLoss(l) PROVE WinWithin(side, i, 1 - l)
  <2>1. PICK k \in game.ext[side][i] :
           IsLoss(k) /\ InitialValues(side, i) = {1 - k} /\ l <= k
    BY <1>1, <1>4, InitialCases
  <2>2. k \in Int /\ l \in Int /\ k <= 0
    BY <1>1, <2>1, ParityOfDtm DEF IsLoss
  <2>3. 1 - k \in records[side][i]
    BY <2>1 DEF Solved, SolvedRecords
  <2>4. IsWin(1 - k) /\ 1 - k <= 1 - l
    BY <2>1, <2>2 DEF IsWin
  <2> QED BY <2>3, <2>4 DEF WinWithin
<1>5. ASSUME NEW j \in game.succ[side][i], IsLoss(t[o][j]), -t[o][j] <= MaxWin
      PROVE  WinWithin(side, i, 1 - t[o][j])
  <2>1. j \in Index /\ t[o][j] \in records[o][j] /\ i \in Predecessors(game, o, j)
    BY <1>1, <1>3, <1>5 DEF Predecessors
  <2> QED BY <1>1, <1>5, <2>1 DEF Solved, SolvedRecords
<1> QED BY <1>1, <1>2, <1>3, <1>4, <1>5

LEMMA SolvedWin ==
  ASSUME Solved, NEW t,
         \A r \in Sides, k \in Index : t[r][k] = Replayed(records[r][k]),
         NEW side \in Sides, NEW i \in Index, HasWin(side, i)
  PROVE  ConsistentAt(game, t, side, i)
<1> DEFINE o == Opposite(side)
           V == SuccessorValues(game, t, side, i)
           m == t[side][i]
<1>1. /\ o \in Sides /\ game.succ[side][i] \in SUBSET Index
      /\ game.ext[side][i] \in SUBSET Dtm /\ game \in GameGraphs
  BY GameFacts DEF Solved, SolvedRecords, TypeOK
<1>2. /\ V \in SUBSET Dtm
      /\ V = {t[o][j] : j \in game.succ[side][i]} \cup game.ext[side][i]
      /\ \A l \in V : IsLoss(l) /\ -l <= MaxWin => WinWithin(side, i, 1 - l)
  BY SolvedSuccessors
<1>3. /\ m \in records[side][i] /\ IsWin(m) /\ m \in Dtm
      /\ \A v \in records[side][i] : m <= v
  BY ReplayedCases DEF Solved, SolvedRecords
<1>4. \A v \in records[side][i] : v \in Int
  BY RecordFacts DEF Solved, SolvedRecords
<1> HIDE DEF V, m, o
<1>5. \A l \in V : IsLoss(l) => m <= 1 - l
  <2> SUFFICES ASSUME NEW l \in V, IsLoss(l) PROVE m <= 1 - l
    OBVIOUS
  <2>1. l \in Int /\ m \in Int /\ m <= MaxWin
    BY <1>2, <1>3, ParityOfDtm
  <2>2. CASE -l <= MaxWin
    <3>1. PICK w \in records[side][i] : w <= 1 - l
      BY <1>2, <2>2 DEF WinWithin
    <3> QED BY <1>3, <1>4, <2>1, <3>1
  <2> QED BY <2>1, <2>2, MaxWinAssumption
<1>6. \E l \in V : IsLoss(l) /\ 1 - l <= m
  <2>1. CASE m \in InitialValues(side, i)
    <3>1. \E x \in game.ext[side][i] : IsLoss(x)
      BY <1>1, <1>3, <2>1, InitialValueKinds
    <3>2. PICK l \in game.ext[side][i] : IsLoss(l) /\ InitialValues(side, i) = {1 - l}
      BY <1>1, <3>1, InitialCases
    <3> QED BY <1>2, <1>3, <1>4, <2>1, <3>2
  <2>2. CASE \E j \in game.succ[side][i] : 1 - m \in records[o][j]
    <3>1. PICK j \in game.succ[side][i] : 1 - m \in records[o][j]
      BY <2>2
    <3>2. m \in Int /\ 0 < m /\ m % 2 = 1
      BY <1>3, ParityOfDtm
    <3>3. IsLoss(1 - m) /\ j \in Index
      BY <1>1, <3>1, <3>2 DEF IsLoss, Draw
    <3>4. t[o][j] = Replayed(records[o][j]) /\ HasLoss(o, j)
      BY <1>1, <3>1, <3>3 DEF HasLoss
    <3>5. IsLoss(t[o][j]) /\ 1 - m <= t[o][j] /\ t[o][j] \in Dtm
      BY <1>1, <3>1, <3>3, <3>4, ReplayedCases DEF Solved, SolvedRecords
    <3>6. t[o][j] \in V /\ t[o][j] \in Int
      BY <1>2, <3>1, <3>5, ParityOfDtm
    <3> QED BY <3>2, <3>5, <3>6
  <2> QED
    BY <1>3, <2>1, <2>2, ParityOfDtm DEF Solved, SolvedRecords, RecordsSound, o
<1>7. PICK l \in V : /\ IsLoss(l) /\ BestValue(V) = 1 - l
                     /\ \A x \in V : IsLoss(x) => x <= l
  BY <1>2, <1>6, BestValueCases
<1>8. m \in Int /\ \A x \in V : x \in Int
  BY <1>2, <1>3, ParityOfDtm
<1>9. BestValue(V) = m
  BY <1>5, <1>6, <1>7, <1>8
<1> QED BY <1>9 DEF ConsistentAt, ExpectedDtm, V, m

LEMMA SolvedLoss ==
  ASSUME Solved, NEW t,
         \A r \in Sides, k \in Index : t[r][k] = Replayed(records[r][k]),
         NEW side \in Sides, NEW i \in Index, HasLoss(side, i)
  PROVE  ConsistentAt(game, t, side, i)
<1> DEFINE o == Opposite(side)
           V == SuccessorValues(game, t, side, i)
           e == t[side][i]
<1>1. /\ o \in Sides /\ game.succ[side][i] \in SUBSET Index
      /\ game.ext[side][i] \in SUBSET Dtm /\ game \in GameGraphs
  BY GameFacts DEF Solved, SolvedRecords, TypeOK
<1>2. /\ V \in SUBSET Dtm
      /\ V = {t[o][j] : j \in game.succ[side][i]} \cup game.ext[side][i]
  BY SolvedSuccessors
<1>3. /\ e \in records[side][i] /\ IsLoss(e) /\ e \in Dtm /\ e \in Int /\ ~IsWin(e)
  BY ReplayedCases, ParityOfDtm DEF Solved, SolvedRecords
<1> HIDE DEF V, e, o
<1>4. CASE e \in InitialValues(side, i)
  <2>1. game.succ[side][i] = {}
    BY <1>1, <1>3, <1>4, InitialValueKinds
  <2>2. V = game.ext[side][i]
    BY <1>2, <2>1
  <2>3. e = BestValue(V)
    BY <1>1, <1>4, <2>1, <2>2, InitialCases
  <2> QED BY <2>3 DEF ConsistentAt, ExpectedDtm, V, e
<1>5. CASE LostIn(side, i, -e - 1)
  <2> DEFINE m == -e - 1
  <2>1. /\ 0 < m /\ m \in Int /\ game.succ[side][i] # {}
        /\ \A j \in game.succ[side][i] : WinWithin(o, j, m)
        /\ \A x \in game.ext[side][i] : IsWin(x) /\ x <= m
        /\ \/ m \in game.ext[side][i]
           \/ \E j \in game.succ[side][i] : ~WinWithin(o, j, m - 1)
    BY <1>3, <1>5 DEF LostIn, o
  <2> HIDE DEF m
  <2>2. \A j \in game.succ[side][i] :
          /\ t[o][j] \in records[o][j] /\ IsWin(t[o][j]) /\ t[o][j] \in Int
          /\ t[o][j] <= m
    <3> SUFFICES ASSUME NEW j \in game.succ[side][i]
                 PROVE  /\ t[o][j] \in records[o][j] /\ IsWin(t[o][j])
                        /\ t[o][j] \in Int /\ t[o][j] <= m
      OBVIOUS
    <3>1. j \in Index /\ HasWin(o, j) /\ t[o][j] = Replayed(records[o][j])
      BY <1>1, <2>1 DEF WinWithin, HasWin
    <3>2. PICK w \in records[o][j] : w <= m
      BY <2>1 DEF WinWithin
    <3>3. /\ t[o][j] \in records[o][j] /\ IsWin(t[o][j]) /\ t[o][j] <= w
          /\ t[o][j] \in Dtm
      BY <1>1, <3>1, ReplayedCases DEF Solved, SolvedRecords
    <3>4. w \in Int
      BY <1>1, <3>1, <3>2, RecordFacts DEF Solved, SolvedRecords
    <3> QED BY <2>1, <3>2, <3>3, <3>4, ParityOfDtm
  <2>3. V # {} /\ \A x \in V : IsWin(x) /\ x <= m
    BY <1>2, <2>1, <2>2
  <2>4. PICK M \in V : BestValue(V) = -(M + 1) /\ \A x \in V : x <= M
    BY <1>2, <2>3, BestValueCases
  <2>5. m \in V
    <3>1. ASSUME NEW j \in game.succ[side][i], ~WinWithin(o, j, m - 1)
          PROVE  t[o][j] = m
      BY <2>1, <2>2, <3>1 DEF WinWithin
    <3> QED BY <1>2, <2>1, <3>1
  <2>6. M \in Int /\ M <= m /\ m <= M
    BY <1>2, <2>3, <2>4, <2>5, ParityOfDtm
  <2>7. BestValue(V) = e
    BY <1>3, <2>1, <2>4, <2>6 DEF m
  <2> QED BY <2>7 DEF ConsistentAt, ExpectedDtm, V, e
<1> QED
  BY <1>3, <1>4, <1>5 DEF Solved, SolvedRecords, RecordsSound

LEMMA SolvedDraw ==
  ASSUME Solved, NEW t,
         \A r \in Sides, k \in Index : t[r][k] = Replayed(records[r][k]),
         NEW side \in Sides, NEW i \in Index, records[side][i] = {},
         \A l \in SuccessorValues(game, t, side, i) : IsLoss(l) => -l <= MaxWin
  PROVE  ConsistentAt(game, t, side, i)
<1> DEFINE o == Opposite(side)
           V == SuccessorValues(game, t, side, i)
<1>1. /\ o \in Sides /\ game.succ[side][i] \in SUBSET Index
      /\ game.ext[side][i] \in SUBSET Dtm /\ game \in GameGraphs
  BY GameFacts DEF Solved, SolvedRecords, TypeOK
<1>2. /\ V \in SUBSET Dtm
      /\ V = {t[o][j] : j \in game.succ[side][i]} \cup game.ext[side][i]
      /\ \A l \in V : IsLoss(l) /\ -l <= MaxWin => WinWithin(side, i, 1 - l)
  BY SolvedSuccessors
<1>3. t[side][i] = Draw
  BY DEF Replayed
<1>4. InitialValues(side, i) = {}
  BY DEF Solved, SolvedRecords
<1>5. \A l \in V : ~IsLoss(l)
  BY <1>2 DEF WinWithin, V
<1> HIDE DEF V, o
<1>6. Draw \in V
  <2> SUFFICES ASSUME Draw \notin V PROVE FALSE
    OBVIOUS
  <2>1. \A x \in V : IsWin(x)
    BY <1>2, <1>5, ParityOfDtm
  <2>2. game.succ[side][i] # {}
    <3> SUFFICES ASSUME game.succ[side][i] = {} PROVE FALSE
      OBVIOUS
    <3>1. V = game.ext[side][i]
      BY <1>2
    <3>2. BestValue(V) = Draw
      BY <1>1, <1>4, <3>1, InitialCases
    <3>3. CASE V = {}
      BY <1>2, <3>2, <3>3, BestValueCases DEF Draw
    <3>4. CASE V # {}
      <4>1. PICK M \in V : BestValue(V) = -(M + 1)
        BY <1>2, <2>1, <3>4, BestValueCases
      <4>2. M \in Int /\ 0 < M
        BY <1>2, <2>1, <4>1, ParityOfDtm
      <4> QED BY <3>2, <4>1, <4>2 DEF Draw
    <3> QED BY <3>3, <3>4
  <2>3. PICK j0 \in game.succ[side][i] : TRUE
    BY <2>2
  <2>4. V # {}
    BY <1>2, <2>3
  <2>5. PICK M \in V : \A x \in V : x <= M
    BY <1>2, <2>1, <2>4, BestValueCases
  <2>6. M \in 1 .. MaxWin /\ M % 2 = 1 /\ M \in Int
    <3>1. M \in Dtm /\ IsWin(M)
      BY <1>2, <2>1
    <3>2. M \in Nat /\ 0 < M /\ M <= MaxWin /\ M % 2 = 1
      BY <3>1, ParityOfDtm
    <3> QED BY <3>2, MaxWinAssumption
  <2>7. \A j \in game.succ[side][i] : WinWithin(o, j, M)
    <3> SUFFICES ASSUME NEW j \in game.succ[side][i] PROVE WinWithin(o, j, M)
      OBVIOUS
    <3>1. t[o][j] \in V /\ IsWin(t[o][j]) /\ t[o][j] <= M
      BY <1>2, <2>1, <2>5
    <3>2. t[o][j] = Replayed(records[o][j]) /\ j \in Index
      BY <1>1
    <3>3. records[o][j] # {}
      BY <3>1, <3>2 DEF Replayed, IsWin, Draw
    <3>4. t[o][j] \in records[o][j]
      BY <1>1, <3>2, <3>3, ReplayedCases DEF Solved, SolvedRecords
    <3> QED BY <3>1, <3>4 DEF WinWithin
  <2>8. \A x \in game.ext[side][i] : IsWin(x) /\ x <= M
    BY <1>2, <2>1, <2>5
  <2>9. LossWithin(side, i, M + 1)
    BY <2>2, <2>6, <2>7, <2>8 DEF Solved, SolvedRecords, o
  <2> QED BY <2>9 DEF LossWithin
<1>7. BestValue(V) = Draw
  BY <1>2, <1>5, <1>6, BestValueCases
<1> QED BY <1>3, <1>7 DEF ConsistentAt, ExpectedDtm, V

LEMMA SolvedIsConsistent ==
  ASSUME Solved, NEW t,
         \A r \in Sides, k \in Index : t[r][k] = Replayed(records[r][k]),
         \A r \in Sides, k \in Index : \A v \in records[r][k] : IsLoss(v) => -v <= MaxWin
  PROVE  Consistent(game, t)
<1> SUFFICES ASSUME NEW side \in Sides, NEW i \in Index
             PROVE  ConsistentAt(game, t, side, i)
  BY DEF Consistent
<1>1. records[side][i] = {} \/ HasWin(side, i) \/ HasLoss(side, i)
  BY ReplayedCases DEF Solved, SolvedRecords
<1>2. CASE records[side][i] = {}
  <2> DEFINE o == Opposite(side)
             V == SuccessorValues(game, t, side, i)
  <2>1. /\ V = {t[o][j] : j \in game.succ[side][i]} \cup game.ext[side][i]
        /\ \A l \in game.ext[side][i] : IsLoss(l) => WinWithin(side, i, 1 - l)
    BY SolvedSuccessors
  <2>2. \A l \in game.ext[side][i] : ~IsLoss(l)
    BY <1>2, <2>1 DEF WinWithin
  <2>3. o \in Sides /\ game.succ[side][i] \in SUBSET Index
    BY GameFacts DEF Solved, TypeOK
  <2>4. \A j \in game.succ[side][i] : IsLoss(t[o][j]) => -t[o][j] <= MaxWin
    <3> SUFFICES ASSUME NEW j \in game.succ[side][i], IsLoss(t[o][j])
                 PROVE  -t[o][j] <= MaxWin
      OBVIOUS
    <3>1. j \in Index /\ t[o][j] = Replayed(records[o][j])
      BY <2>3
    <3>2. records[o][j] # {}
      BY <3>1 DEF Replayed, IsLoss
    <3>3. t[o][j] \in records[o][j]
      BY <2>3, <3>1, <3>2, ReplayedCases DEF Solved
    <3> QED BY <2>3, <3>1, <3>3
  <2> HIDE DEF V, o
  <2>5. \A l \in V : IsLoss(l) => -l <= MaxWin
    BY <2>1, <2>2, <2>4
  <2> QED BY <1>2, <2>5, SolvedDraw DEF V
<1> QED BY <1>1, <1>2, SolvedWin, SolvedLoss

-----------------------------------------------------------------------------
(* The invariant is kept, action by action.  First the parts that change   *)
(* with the records and the layer only.                                    *)
LEMMA InitialFrame ==
  ASSUME InitialComplete, DeferralSound, UNCHANGED <<game, records, deferred>>,
         \A i \in Index : Initialized(i)' => Initialized(i)
  PROVE  InitialComplete' /\ DeferralSound'
<1>1. \A side, i : /\ InitialValues(side, i)' = InitialValues(side, i)
                   /\ DeferralDistances(side, i)' = DeferralDistances(side, i)
  BY DEF InitialValues, DeferralDistances
<1>2. InitialComplete'
  BY <1>1 DEF InitialComplete
<1>3. DeferralSound'
  BY <1>1 DEF DeferralSound
<1> QED BY <1>2, <1>3

LEMMA SoundFrame ==
  ASSUME RecordsSound, TypeOK, TypeOK', UNCHANGED <<game, records>>,
         layer.distance <= layer'.distance
  PROVE  RecordsSound'
<1>1. \A side, i : InitialValues(side, i)' = InitialValues(side, i)
  BY DEF InitialValues
<1>2. \A side, i, n : WinWithin(side, i, n)' = WinWithin(side, i, n)
  BY DEF WinWithin
<1>3. layer.distance \in Int /\ layer'.distance \in Int
  BY DEF TypeOK, Layers
<1>4. ASSUME NEW side \in Sides, NEW i \in Index, NEW v \in records[side][i],
             LostIn(side, i, -v - 1)
      PROVE  LostIn(side, i, -v - 1)'
  <2>1. v \in Int
    BY DEF TypeOK, Dtm
  <2> QED BY <1>2, <1>3, <1>4, <2>1 DEF LostIn
<1> QED BY <1>1, <1>4 DEF RecordsSound

(* The layers have stopped, by a failure or by a distance out of range. *)
LEMMA SolutionStopped ==
  ASSUME TypeOK, TypeOK', SolutionInv, UNCHANGED <<game, records, deferred, layer>>,
         stage' \in {"failed", "beyond"}
  PROVE  SolutionInv'
<1>1. ~Solving' /\ ~Layering' /\ \A i \in Index : ~Initialized(i)'
  BY DEF Solving, Layering, Initialized
<1>2. layer.distance <= layer'.distance
  BY DEF TypeOK, Layers
<1>3. InitialComplete' /\ DeferralSound'
  BY <1>1, InitialFrame DEF SolutionInv
<1>4. RecordsSound'
  BY <1>2, SoundFrame DEF SolutionInv
<1>5. BitsExact'
  BY <1>1 DEF BitsExact
<1> QED BY <1>1, <1>3, <1>4, <1>5
        DEF SolutionInv, WinComplete, LossComplete, CandidatesSound, RecordsBounded,
            TableReplayed

(* A worker stops, or nothing happens. *)
LEMMA SolutionUnmoved ==
  ASSUME TypeOK, TypeOK', SolutionInv,
         UNCHANGED <<game, records, deferred, won, lost, candidates, stage, layer, todo,
                     activations, table>>,
         error' = error \/ \E i \in Index : Fail(i, "io")
  PROVE  SolutionInv'
<1>1. layer.distance <= layer'.distance
  BY DEF TypeOK, Layers
<1>2. \A i \in Index : error'[Owner[i]] = "none" => error[Owner[i]] = "none"
  BY OwnerAssumption DEF Fail, TypeOK
<1>3. \A i \in Index : Initialized(i)' => Initialized(i)
  BY <1>2 DEF Initialized, Solving, Layering
<1>4. InitialComplete' /\ DeferralSound'
  BY <1>3, InitialFrame DEF SolutionInv
<1>5. RecordsSound'
  BY <1>1, SoundFrame DEF SolutionInv
<1>6. WinComplete'
  BY DEF SolutionInv, WinComplete, Solving, Layering, WinWithin, Shown, Backed, Awaited
<1>7. LossComplete'
  BY DEF SolutionInv, LossComplete, Solving, Layering, LossWithin, AllShown, ShownWin,
         Shown, Backed, Awaited
<1>8. BitsExact'
  BY DEF SolutionInv, BitsExact, Layering, ShownWin, ShownLoss, Shown, Backed
<1>9. CandidatesSound' /\ RecordsBounded' /\ TableReplayed'
  BY DEF SolutionInv, CandidatesSound, RecordsBounded, TableReplayed, Layering, Solving,
         Mover
<1> QED BY <1>4, <1>5, <1>6, <1>7, <1>8, <1>9 DEF SolutionInv

(* The streams are replayed into the table. *)
LEMMA SolutionCompile ==
  ASSUME TypeOK, TypeOK', SolutionInv,
         EndCompile \/ \E i \in Index : CompilePosition(i)
  PROVE  SolutionInv'
<1>1. /\ UNCHANGED <<game, records, deferred, won, lost, candidates, layer, activations>>
      /\ stage = "compile" /\ stage' \in {"compile", "done"}
  BY DEF EndCompile, CompilePosition, Working, Joined
<1>2. layer.distance <= layer'.distance
  BY <1>1 DEF TypeOK, Layers
<1>3. Solving /\ Solving' /\ ~Layering /\ ~Layering'
  BY <1>1 DEF Solving, Layering
<1>4. InitialComplete' /\ DeferralSound'
  BY <1>1, <1>3, InitialFrame DEF SolutionInv, Initialized
<1>5. RecordsSound'
  BY <1>1, <1>2, SoundFrame DEF SolutionInv
<1>6. WinComplete'
  BY <1>1, <1>3 DEF SolutionInv, WinComplete, WinWithin, Shown, Backed, Awaited
<1>7. LossComplete'
  BY <1>1, <1>3
     DEF SolutionInv, LossComplete, LossWithin, AllShown, ShownWin, Shown, Backed, Awaited
<1>8. BitsExact' /\ CandidatesSound' /\ RecordsBounded'
  BY <1>1, <1>3 DEF SolutionInv, BitsExact, CandidatesSound, RecordsBounded
<1>9. TableReplayed'
  <2>1. CASE EndCompile
    <3>1. todo = {} /\ UNCHANGED <<records, table>>
      BY <2>1, OwnerAssumption DEF EndCompile, Joined, AllWell, TypeOK
    <3> QED BY <1>1, <1>3, <3>1 DEF SolutionInv, TableReplayed, Replayed
  <2>2. CASE \E i \in Index : CompilePosition(i)
    <3>1. PICK i \in Index : CompilePosition(i)
      BY <2>2
    <3>2. todo' = todo \ {i} /\ stage' = "compile" /\ i \in todo
      BY <3>1 DEF CompilePosition, Working
    <3>3. \A side \in Sides, k \in Index :
            table'[side][k] = IF k = i THEN Replayed(records[side][i]) ELSE table[side][k]
      BY <3>1 DEF CompilePosition, TypeOK, Tables
    <3> QED BY <1>1, <1>3, <3>2, <3>3 DEF SolutionInv, TableReplayed
  <2> QED BY <2>1, <2>2
<1> QED BY <1>4, <1>5, <1>6, <1>7, <1>8, <1>9 DEF SolutionInv

LEMMA SolutionInitially == Init => SolutionInv
<1> SUFFICES ASSUME Init PROVE SolutionInv
  OBVIOUS
<1>1. /\ ~Solving /\ ~Layering /\ stage = "initialize" /\ todo = Index
      /\ records = Nothing /\ deferred = Nothing
      /\ \A side \in Sides : won[side] = {} /\ lost[side] = {}
  BY DEF Init, Solving, Layering
<1>2. InitialComplete /\ DeferralSound
  BY <1>1 DEF InitialComplete, Initialized, DeferralSound, Nothing
<1>3. RecordsSound
  BY <1>1 DEF RecordsSound, Nothing
<1>4. BitsExact
  BY <1>1 DEF BitsExact, Init
<1> QED BY <1>1, <1>2, <1>3, <1>4
        DEF SolutionInv, WinComplete, LossComplete, CandidatesSound, RecordsBounded,
            TableReplayed

LEMMA SolutionInitialize ==
  ASSUME ConflictInv, ConflictInv', SolutionInv, NEW i \in Index, InitializePosition(i)
  PROVE  SolutionInv'
<1>1. /\ TypeOK /\ stage = "initialize" /\ i \in todo
      /\ UNCHANGED <<game, won, lost, candidates, stage, layer, activations>>
      /\ todo' = todo \ {i}
  BY DEF ConflictInv, InitializePosition, Working
<1>2. ~Solving /\ ~Layering /\ ~Solving' /\ ~Layering'
  BY <1>1 DEF Solving, Layering
<1>3. \A side, j : /\ InitialValues(side, j)' = InitialValues(side, j)
                   /\ DeferralDistances(side, j)' = DeferralDistances(side, j)
  BY <1>1 DEF InitialValues, DeferralDistances
<1>4. RecordsSound'
  <2>1. \A side \in Sides, j \in Index : records'[side][j] \subseteq InitialValues(side, j)'
    BY <1>1 DEF ConflictInv, InitialRecords
  <2> QED BY <2>1 DEF RecordsSound
<1>5. CASE \E side \in Sides : InitialTooLong(side, i)
  <2>1. Fail(i, "dtm") /\ UNCHANGED <<records, deferred>>
    BY <1>5 DEF InitializePosition
  <2>2. \A j \in Index : Initialized(j)' => Initialized(j)
    <3> SUFFICES ASSUME NEW j \in Index, Initialized(j)' PROVE Initialized(j)
      OBVIOUS
    <3>1. error'[Owner[j]] = "none" /\ j \notin todo'
      BY <1>2 DEF Initialized
    <3>2. error'[Owner[i]] = "dtm" /\ error[Owner[j]] = "none"
      BY <2>1, <3>1, <1>1, OwnerAssumption DEF Fail, TypeOK
    <3> QED BY <1>1, <3>1, <3>2 DEF Initialized
  <2>3. InitialComplete' /\ DeferralSound'
    BY <1>1, <2>1, <2>2, InitialFrame DEF SolutionInv
  <2> QED BY <1>1, <1>2, <1>4, <2>3
          DEF SolutionInv, WinComplete, LossComplete, CandidatesSound, RecordsBounded,
              TableReplayed, BitsExact
<1>6. CASE ~\E side \in Sides : InitialTooLong(side, i)
  <2>1. /\ error' = error
        /\ records' = [side \in Sides |->
                 [records[side] EXCEPT ![i] = @ \cup InitialValues(side, i)]]
        /\ deferred' = [side \in Sides |->
                 [deferred[side] EXCEPT
                    ![i] = @ \cup DeferralDistances(Opposite(side), i)]]
    BY <1>6 DEF InitializePosition
  <2>2. \A side \in Sides, j \in Index :
          /\ records'[side][j] = IF j = i THEN records[side][j] \cup InitialValues(side, j)
                                 ELSE records[side][j]
          /\ deferred'[side][j] =
               IF j = i THEN deferred[side][j] \cup DeferralDistances(Opposite(side), j)
               ELSE deferred[side][j]
    BY <1>1, <2>1 DEF TypeOK
  <2>3. \A j \in Index : Initialized(j)' => j = i \/ Initialized(j)
    BY <1>1, <1>2, <2>1 DEF Initialized
  <2>4. InitialComplete'
    BY <1>3, <2>2, <2>3 DEF SolutionInv, InitialComplete
  <2>5. DeferralSound'
    BY <1>3, <2>2 DEF SolutionInv, DeferralSound
  <2> QED BY <1>1, <1>2, <1>4, <2>4, <2>5
          DEF SolutionInv, WinComplete, LossComplete, CandidatesSound, RecordsBounded,
              TableReplayed, BitsExact
<1> QED BY <1>5, <1>6

(* A worker has visited its sources and wakes a deferred candidate, or all *)
(* have and the candidates are dealt out.                                  *)
LEMMA SolutionAwaited ==
  ASSUME TypeOK, TypeOK', SolutionInv,
         EndSources \/ \E i \in Index : ActivateDeferred(i)
  PROVE  SolutionInv'
<1>1. /\ UNCHANGED <<game, records, deferred, won, lost, layer, error>>
      /\ stage = "sources" /\ stage' \in {"sources", "candidates"}
  BY DEF EndSources, ActivateDeferred, Joined
<1>2. Layering /\ Solving /\ Layering' /\ Solving'
  BY <1>1 DEF Solving, Layering
<1>3. layer.distance <= layer'.distance
  BY <1>1 DEF TypeOK, Layers
<1>4. /\ todo' \subseteq Index
      /\ candidates' \cup activations' \subseteq candidates \cup activations
      /\ stage' = "sources" =>
           todo' = todo /\ candidates' \cup activations' = candidates \cup activations
      /\ stage' = "candidates" =>
           todo = {} /\ todo' = candidates \cup activations
  <2>1. CASE EndSources
    <3>1. todo = {} /\ activations = {}
      BY <2>1, OwnerAssumption DEF EndSources, Joined, AllWell, TypeOK
    <3> QED BY <2>1, <3>1 DEF EndSources, TypeOK
  <2>2. CASE \E i \in Index : ActivateDeferred(i)
    BY <2>2 DEF ActivateDeferred, TypeOK
  <2> QED BY <2>1, <2>2
<1>5. \A side, i, n : Shown(side, i, n)' <=> Shown(side, i, n)
  BY <1>1, <1>2, <1>4 DEF Shown, Backed
<1>6. \A kind, side, n, i : Awaited(kind, side, n, i) => Awaited(kind, side, n, i)'
  BY <1>1, <1>2, <1>4 DEF Awaited
<1>7. InitialComplete' /\ DeferralSound'
  BY <1>1, <1>2, InitialFrame DEF SolutionInv, Initialized
<1>8. RecordsSound'
  BY <1>1, <1>3, SoundFrame DEF SolutionInv
<1>9. WinComplete'
  BY <1>1, <1>2, <1>5, <1>6 DEF SolutionInv, WinComplete, WinWithin
<1>10. LossComplete'
  <2>1. \A side, n : Backed(side, n)' <=> Backed(side, n)
    BY <1>1, <1>2 DEF Backed
  <2>2. \A side, i, n : AllShown(side, i, n)' <=> AllShown(side, i, n)
    BY <1>1, <1>5 DEF AllShown, ShownWin
  <2>3. \A side, i, n : LossWithin(side, i, n)' <=> LossWithin(side, i, n)
    BY <1>1 DEF LossWithin
  <2> QED BY <1>1, <1>2, <1>6, <2>1, <2>2, <2>3 DEF SolutionInv, LossComplete
<1>11. BitsExact'
  BY <1>1, <1>2, <1>5 DEF SolutionInv, BitsExact, ShownWin, ShownLoss
<1>12. CandidatesSound' /\ RecordsBounded' /\ TableReplayed'
  BY <1>1, <1>2, <1>4 DEF SolutionInv, CandidatesSound, RecordsBounded, TableReplayed, Mover
<1> QED BY <1>7, <1>8, <1>9, <1>10, <1>11, <1>12 DEF SolutionInv

(* What a record of the distance after the layer's changes: nothing within *)
(* the layer's distance, and nothing the bitmaps show.                     *)
LEMMA RecordAdded ==
  ASSUME TypeOK, NEW s \in Sides, NEW c \in Index, NEW v \in Dtm,
         stage = "candidates", UNCHANGED <<stage, layer>>,
         Distance(v) = layer.distance + 1,
         records' = AppendRecord(records, s, c, v)
  PROVE  /\ \A side \in Sides, i \in Index :
              /\ records[side][i] \subseteq records'[side][i]
              /\ \A x \in records'[side][i] :
                   x \in records[side][i] \/ (side = s /\ i = c /\ x = v)
         /\ \A side \in Sides, i \in Index, n \in Int :
              /\ WinWithin(side, i, n) => WinWithin(side, i, n)'
              /\ LossWithin(side, i, n) => LossWithin(side, i, n)'
              /\ n <= layer.distance /\ WinWithin(side, i, n)' => WinWithin(side, i, n)
         /\ \A side \in Sides, i \in Index, n \in Int :
              /\ Shown(side, i, n)' <=> Shown(side, i, n)
              /\ ShownWin(side, i, n)' <=> ShownWin(side, i, n)
              /\ ShownLoss(side, i)' <=> ShownLoss(side, i)
<1>1. \A side \in Sides, i \in Index :
        /\ records[side][i] \subseteq records'[side][i]
        /\ \A x \in records'[side][i] :
             x \in records[side][i] \/ (side = s /\ i = c /\ x = v)
  <2>1. records \in [Sides -> [Index -> SUBSET Dtm]]
    BY DEF TypeOK
  <2> SUFFICES ASSUME NEW side \in Sides, NEW i \in Index
               PROVE  /\ records[side][i] \subseteq records'[side][i]
                      /\ \A x \in records'[side][i] :
                           x \in records[side][i] \/ (side = s /\ i = c /\ x = v)
    OBVIOUS
  <2>2. /\ side = s /\ i = c => records'[side][i] = records[side][i] \cup {v}
        /\ ~(side = s /\ i = c) => records'[side][i] = records[side][i]
    BY <2>1, AppendRecordAt
  <2> QED BY <2>2
<1>2. layer.distance \in Int /\ v \in Int
  BY DEF TypeOK, Layers, Dtm
<1>3. IsWin(v) => v = layer.distance + 1
  BY <1>2 DEF IsWin, Distance
<1>4. IsLoss(v) => -v = layer.distance + 1
  BY <1>2 DEF IsLoss, Distance
<1>5. \A side, i, n : Shown(side, i, n)' <=> Shown(side, i, n)
  BY DEF Shown, Backed, Layering
<1>6. \A side, i : ~Shown(side, i, layer.distance + 1)
  BY <1>2 DEF Shown, Backed, Layering
<1>7. \A side \in Sides, i \in Index, n \in Int :
        /\ WinWithin(side, i, n) => WinWithin(side, i, n)'
        /\ LossWithin(side, i, n) => LossWithin(side, i, n)'
        /\ n <= layer.distance /\ WinWithin(side, i, n)' => WinWithin(side, i, n)
  BY <1>1, <1>2, <1>3 DEF WinWithin, LossWithin
<1>8. \A side \in Sides, i \in Index, n \in Int :
        /\ ShownWin(side, i, n)' <=> ShownWin(side, i, n)
        /\ ShownLoss(side, i)' <=> ShownLoss(side, i)
  BY <1>1, <1>3, <1>4, <1>5, <1>6 DEF ShownWin, ShownLoss
<1> QED BY <1>1, <1>5, <1>7, <1>8

(* One candidate is evaluated: if it had to get a record, it has one. *)
LEMMA SolutionCandidate ==
  ASSUME TypeOK, TypeOK', LayerParity, SolutionInv,
         NEW c \in todo, stage = "candidates",
         UNCHANGED <<game, deferred, won, lost, candidates, stage, layer, activations,
                     table>>,
         todo' = todo \ {c},
         \/ UNCHANGED records
         \/ \E v \in Dtm :
              /\ Distance(v) = layer.distance + 1
              /\ records' = AppendRecord(records, Mover, c, v)
              /\ \/ /\ IsWin(v)
                    /\ \E j \in game.succ[Mover][c] : 1 - v \in records[layer.side][j]
                 \/ IsLoss(v) /\ LostIn(Mover, c, -v - 1),
         layer.kind = "lost" => WinWithin(Mover, c, layer.distance + 1)',
         layer.kind = "won" /\ AllShown(layer.side, c, layer.distance)
           => LossWithin(Mover, c, layer.distance + 1)'
  PROVE  SolutionInv'
<1>1. /\ layer.side \in Sides /\ Mover \in Sides /\ c \in Index
      /\ Opposite(Mover) = layer.side /\ layer.distance \in Nat
      /\ layer'.distance \in Nat /\ Mover' = Mover
  BY SidesAndOpposite DEF TypeOK, Layers, Mover
<1>2. Layering /\ Solving /\ Layering' /\ Solving'
  BY DEF Layering, Solving
<1>3. /\ \A side \in Sides, i \in Index :
           /\ records[side][i] \subseteq records'[side][i]
           /\ \A x \in records'[side][i] :
                \/ x \in records[side][i]
                \/ /\ side = Mover /\ i = c /\ Distance(x) = layer.distance + 1
                   /\ \/ /\ IsWin(x)
                         /\ \E j \in game.succ[Mover][c] : 1 - x \in records[layer.side][j]
                      \/ IsLoss(x) /\ LostIn(Mover, c, -x - 1)
      /\ \A side \in Sides, i \in Index, n \in Int :
           /\ WinWithin(side, i, n) => WinWithin(side, i, n)'
           /\ LossWithin(side, i, n) => LossWithin(side, i, n)'
           /\ n <= layer.distance /\ WinWithin(side, i, n)' => WinWithin(side, i, n)
      /\ \A side \in Sides, i \in Index, n \in Int :
           /\ Shown(side, i, n)' <=> Shown(side, i, n)
           /\ ShownWin(side, i, n)' <=> ShownWin(side, i, n)
           /\ ShownLoss(side, i)' <=> ShownLoss(side, i)
  <2>1. CASE UNCHANGED records
    <3>1. \A side, i, n :
            /\ WinWithin(side, i, n)' <=> WinWithin(side, i, n)
            /\ LossWithin(side, i, n)' <=> LossWithin(side, i, n)
      BY <2>1 DEF WinWithin, LossWithin
    <3>2. \A side, i, n : Shown(side, i, n)' <=> Shown(side, i, n)
      BY <1>2 DEF Shown, Backed
    <3>3. \A side, i, n :
            /\ ShownWin(side, i, n)' <=> ShownWin(side, i, n)
            /\ ShownLoss(side, i)' <=> ShownLoss(side, i)
      BY <2>1, <3>2 DEF ShownWin, ShownLoss
    <3> QED BY <2>1, <3>1, <3>2, <3>3
  <2>2. ASSUME NEW v \in Dtm, Distance(v) = layer.distance + 1,
               records' = AppendRecord(records, Mover, c, v),
               \/ /\ IsWin(v)
                  /\ \E j \in game.succ[Mover][c] : 1 - v \in records[layer.side][j]
               \/ IsLoss(v) /\ LostIn(Mover, c, -v - 1)
        PROVE  <1>3!:
    BY <1>1, <2>2, RecordAdded
  <2> QED BY <2>1, <2>2
<1>4. InitialComplete'
  <2>1. \A side, i : /\ InitialValues(side, i)' = InitialValues(side, i)
                     /\ DeferralDistances(side, i)' = DeferralDistances(side, i)
    BY DEF InitialValues, DeferralDistances
  <2> QED BY <1>2, <1>3, <2>1 DEF SolutionInv, InitialComplete, Initialized
<1>5. DeferralSound'
  BY DEF SolutionInv, DeferralSound, DeferralDistances
<1>6. RecordsSound'
  <2>1. \A side, i : InitialValues(side, i)' = InitialValues(side, i)
    BY DEF InitialValues
  <2>2. ASSUME NEW side \in Sides, NEW i \in Index, NEW m \in Int, LostIn(side, i, m)
        PROVE  LostIn(side, i, m)'
    <3>1. /\ Opposite(side) \in Sides /\ game.succ[side][i] \in SUBSET Index
          /\ m <= layer.distance
      BY <2>2, GameFacts DEF TypeOK, LostIn
    <3>2. \A j \in game.succ[side][i] :
            /\ WinWithin(Opposite(side), j, m) => WinWithin(Opposite(side), j, m)'
            /\ ~WinWithin(Opposite(side), j, m - 1) => ~WinWithin(Opposite(side), j, m - 1)'
      BY <1>1, <1>3, <3>1
    <3> QED BY <2>2, <3>2 DEF LostIn
  <2> SUFFICES ASSUME NEW side \in Sides, NEW i \in Index, NEW v \in records'[side][i]
               PROVE  \/ v \in InitialValues(side, i)
                      \/ /\ IsWin(v)
                         /\ \E j \in game.succ[side][i] : 1 - v \in records'[Opposite(side)][j]
                      \/ IsLoss(v) /\ LostIn(side, i, -v - 1)'
    BY <2>1 DEF RecordsSound
  <2>3. v \in Int /\ -v - 1 \in Int
    BY DEF TypeOK, Dtm
  <2>4. \A j \in game.succ[side][i] : j \in Index
    BY GameFacts DEF TypeOK
  <2>5. \/ v \in InitialValues(side, i)
        \/ /\ IsWin(v)
           /\ \E j \in game.succ[side][i] : 1 - v \in records[Opposite(side)][j]
        \/ IsLoss(v) /\ LostIn(side, i, -v - 1)
    BY <1>1, <1>3 DEF SolutionInv, RecordsSound
  <2>6. Opposite(side) \in Sides
    BY SidesAndOpposite
  <2> QED BY <1>3, <2>2, <2>3, <2>4, <2>5, <2>6
<1>7. WinComplete'
  <2> SUFFICES ASSUME NEW side \in Sides, NEW j \in Index, NEW v \in records'[side][j],
                      IsLoss(v), Shown(side, j, -v)',
                      NEW p \in Predecessors(game, side, j)
               PROVE  WinWithin(Opposite(side), p, 1 - v)' \/ Awaited("lost", side, -v, p)'
    BY DEF WinComplete, Predecessors
  <2>1. v \in Int /\ -v \in Int /\ 1 - v \in Int /\ p \in Index /\ Opposite(side) \in Sides
    BY SidesAndOpposite DEF TypeOK, Dtm, Predecessors
  <2>2. Shown(side, j, -v)
    BY <1>3, <2>1
  <2>3. v \in records[side][j]
    <3>1. ~Shown(side, j, layer.distance + 1)
      BY <1>1, <1>2 DEF Shown, Backed
    <3>2. Distance(v) = -v
      BY <2>1 DEF IsLoss, Distance
    <3> QED BY <1>3, <2>2, <3>1, <3>2
  <2>4. WinWithin(Opposite(side), p, 1 - v) \/ Awaited("lost", side, -v, p)
    BY <1>2, <2>2, <2>3 DEF SolutionInv, WinComplete
  <2>5. CASE WinWithin(Opposite(side), p, 1 - v)
    BY <1>3, <2>1, <2>5
  <2>6. CASE Awaited("lost", side, -v, p) /\ p # c
    BY <1>2, <2>6 DEF Awaited
  <2>7. CASE Awaited("lost", side, -v, p) /\ p = c
    <3>1. /\ layer.kind = "lost" /\ Opposite(side) = Mover
          /\ layer.distance + 1 = 1 - v
      BY <1>1, <2>1, <2>7 DEF Awaited, Mover
    <3>2. WinWithin(Mover, c, layer.distance + 1)'
      BY <3>1
    <3>3. WinWithin(Mover, c, 1 - v)'
      BY <3>1, <3>2 DEF WinWithin
    <3> QED BY <1>1, <2>7, <3>1, <3>3
  <2> QED BY <2>4, <2>5, <2>6, <2>7
<1>8. LossComplete'
  <2> SUFFICES ASSUME NEW side \in Sides, NEW i \in Index, NEW m \in 1 .. MaxWin,
                      m % 2 = 1,
                      Backed(side, m)' \/ (layer.side = side /\ layer.distance = m),
                      AllShown(side, i, m)'
               PROVE  LossWithin(Opposite(side), i, m + 1)' \/ Awaited("won", side, m, i)'
    BY DEF LossComplete
  <2>1. m \in Int /\ Opposite(side) \in Sides
        /\ game.succ[Opposite(side)][i] \in SUBSET Index
    BY GameFacts, SidesAndOpposite DEF TypeOK
  <2>2. Backed(side, m) <=> Backed(side, m)'
    BY <1>2 DEF Backed
  <2>3. AllShown(side, i, m)
    BY <1>3, <2>1 DEF AllShown
  <2>4. LossWithin(Opposite(side), i, m + 1) \/ Awaited("won", side, m, i)
    BY <1>2, <2>2, <2>3 DEF SolutionInv, LossComplete
  <2>5. CASE LossWithin(Opposite(side), i, m + 1)
    BY <1>3, <2>1, <2>5
  <2>6. CASE Awaited("won", side, m, i) /\ i # c
    BY <1>2, <2>6 DEF Awaited
  <2>7. CASE Awaited("won", side, m, i) /\ i = c
    BY <2>3, <2>7 DEF Awaited, Mover
  <2> QED BY <2>4, <2>5, <2>6, <2>7
<1>9. BitsExact'
  <2>1. MaxWin \in Int
    BY MaxWinAssumption
  <2> QED BY <1>2, <1>3, <2>1 DEF SolutionInv, BitsExact, Layering
<1>10. CandidatesSound'
  <2>1. \A i \in candidates \cup activations : i \in Index
    BY DEF TypeOK
  <2>2. \A i \in Index : \A j \in game.succ[Mover][i] : j \in Index
    BY <1>1, GameFacts DEF TypeOK
  <2> QED BY <1>1, <1>2, <1>3, <2>1, <2>2 DEF SolutionInv, CandidatesSound
<1>11. RecordsBounded' /\ TableReplayed'
  BY <1>2 DEF RecordsBounded, TableReplayed
<1> QED BY <1>4, <1>5, <1>6, <1>7, <1>8, <1>9, <1>10, <1>11 DEF SolutionInv

(* The bitmaps show records of the layers so far, and of this one. *)
LEMMA ShownWithinLayer ==
  ASSUME TypeOK, Layering, NEW side \in Sides, NEW i \in Index, NEW n \in Int,
         Shown(side, i, n)
  PROVE  n <= layer.distance
BY DEF TypeOK, Layers, Shown, Backed

LEMMA SolutionWinCandidate ==
  ASSUME ConflictInv, ConflictInv', SolutionInv, NEW i \in Index, CheckWinCandidate(i)
  PROVE  SolutionInv'
<1> DEFINE d == layer.distance
<1>1. /\ TypeOK /\ TypeOK' /\ TypeInv /\ LayerParity /\ RecordsSound /\ BitsExact
      /\ stage = "candidates" /\ layer.kind = "lost" /\ i \in todo /\ i \in candidates
      /\ UNCHANGED <<game, deferred, won, lost, candidates, stage, layer, activations,
                     table>>
      /\ todo' = todo \ {i}
  BY DEF ConflictInv, CheckWinCandidate, Working, TypeInv, SolutionInv, WorkOfLayer
<1>2. /\ Mover \in Sides /\ d + 1 \in Dtm /\ layer.side \in Sides /\ d \in Nat
  BY <1>1, LayerValues
<1>3. Layering
  BY <1>1 DEF Layering
<1>4. i \notin won[Mover] => i \notin lost[Mover]
  BY <1>1, OwnerAssumption DEF CheckWinCandidate, ConflictInv, NoConflict, Fail, TypeOK
<1>5. CASE i \in won[Mover]
  <2>1. UNCHANGED records
    BY <1>5 DEF CheckWinCandidate
  <2>2. PICK v \in records[Mover][i] : IsWin(v) /\ Shown(Mover, i, v)
    BY <1>1, <1>2, <1>3, <1>5 DEF BitsExact, ShownWin
  <2>3. v \in Int
    BY <1>1, <1>2, <2>2, RecordFacts
  <2>4. v <= d + 1
    BY <1>1, <1>2, <1>3, <2>2, <2>3, ShownWithinLayer
  <2>5. WinWithin(Mover, i, d + 1)'
    BY <1>1, <2>1, <2>2, <2>4 DEF WinWithin, Mover
  <2> QED BY <1>1, <2>1, <2>5, SolutionCandidate
<1>6. CASE i \notin won[Mover]
  <2>1. records' = AppendRecord(records, Mover, i, d + 1)
    BY <1>4, <1>6 DEF CheckWinCandidate
  <2>2. IsWin(d + 1) /\ Distance(d + 1) = d + 1
    BY <1>2 DEF IsWin, Distance
  <2>3. PICK j \in game.succ[Mover][i] : -d \in records[layer.side][j]
    BY <1>1, <1>3 DEF SolutionInv, CandidatesSound
  <2>4. 1 - (d + 1) = -d
    BY <1>2
  <2>5. WinWithin(Mover, i, d + 1)'
    <3>1. records \in [Sides -> [Index -> SUBSET Dtm]]
      BY <1>1 DEF TypeOK
    <3>2. d + 1 \in records'[Mover][i]
      BY <1>2, <2>1, <3>1, AppendRecordAt
    <3> QED BY <1>1, <1>2, <2>2, <3>2 DEF WinWithin, Mover
  <2>6. \E v \in Dtm :
          /\ Distance(v) = layer.distance + 1
          /\ records' = AppendRecord(records, Mover, i, v)
          /\ \/ /\ IsWin(v)
                /\ \E k \in game.succ[Mover][i] : 1 - v \in records[layer.side][k]
             \/ IsLoss(v) /\ LostIn(Mover, i, -v - 1)
    BY <1>2, <2>1, <2>2, <2>3, <2>4
  <2> QED BY <1>1, <2>5, <2>6, SolutionCandidate
<1> QED BY <1>5, <1>6

LEMMA SolutionLossCandidate ==
  ASSUME ConflictInv, ConflictInv', SolutionInv, NEW i \in Index, CheckLossCandidate(i)
  PROVE  SolutionInv'
<1> DEFINE d == layer.distance
           o == layer.side
<1>1. /\ TypeOK /\ TypeOK' /\ TypeInv /\ LayerParity /\ RecordsSound /\ BitsExact
      /\ stage = "candidates" /\ layer.kind = "won" /\ i \in todo /\ i \in candidates
      /\ UNCHANGED <<game, deferred, won, lost, candidates, stage, layer, activations,
                     table>>
      /\ todo' = todo \ {i}
  BY DEF ConflictInv, CheckLossCandidate, Working, TypeInv, SolutionInv, WorkOfLayer
<1>2. /\ Mover \in Sides /\ -(d + 1) \in Dtm /\ o \in Sides /\ d \in Nat /\ 0 < d
      /\ d % 2 = 1 /\ Opposite(Mover) = o /\ Opposite(o) = Mover /\ d <= MaxWin
  BY <1>1, LayerValues, SidesAndOpposite DEF Mover, LayerParity
<1>3. Layering /\ Solving
  BY <1>1 DEF Layering, Solving
<1>4. /\ game.succ[Mover][i] # {} /\ game.succ[Mover][i] \in SUBSET Index
      /\ game.ext[Mover][i] \in SUBSET Dtm
  BY <1>1, <1>2, <1>3, GameFacts DEF SolutionInv, CandidatesSound, TypeOK
<1>5. ASSUME i \in lost[Mover], UNCHANGED records PROVE LossWithin(Mover, i, d + 1)'
  <2>1. PICK v \in records[Mover][i] : IsLoss(v) /\ Shown(Mover, i, -v)
    BY <1>1, <1>2, <1>3, <1>5 DEF BitsExact, ShownLoss
  <2>2. v \in Int /\ -v \in Int
    BY <1>1, <1>2, <2>1, RecordFacts
  <2>3. -v <= d + 1
    BY <1>1, <1>2, <1>3, <2>1, <2>2, ShownWithinLayer
  <2> QED BY <1>1, <1>5, <2>1, <2>3 DEF LossWithin, Mover
<1>6. \A j \in game.succ[Mover][i] : j \in won[o] <=> ShownWin(o, j, d)
  <2> SUFFICES ASSUME NEW j \in game.succ[Mover][i]
               PROVE  j \in won[o] <=> ShownWin(o, j, d)
    OBVIOUS
  <2>1. j \in Index /\ (j \in won[o] <=> ShownWin(o, j, MaxWin))
    BY <1>1, <1>2, <1>3, <1>4 DEF BitsExact
  <2>2. ASSUME NEW v \in records[o][j], IsWin(v), Shown(o, j, v)
        PROVE  v <= d /\ v <= MaxWin
    <3>1. v \in Int
      BY <1>1, <1>2, <2>1, RecordFacts
    <3>2. v <= d
      BY <1>1, <1>2, <1>3, <2>1, <2>2, <3>1, ShownWithinLayer
    <3> QED BY <1>2, <3>1, <3>2, MaxWinAssumption
  <2> QED BY <2>1, <2>2 DEF ShownWin
<1>7. ASSUME AllShown(o, i, d) PROVE AllWinning(i) /\ i \notin won[Mover]
  <2>1. \A j \in game.succ[Mover][i] : ShownWin(o, j, d)
    BY <1>2, <1>7 DEF AllShown
  <2>2. \A x \in game.ext[Mover][i] : IsWin(x) /\ x <= d
    BY <1>2, <1>7 DEF AllShown
  <2>3. AllWinning(i)
    BY <1>4, <1>6, <2>1, <2>2 DEF AllWinning, IsWin
  <2>4. \A x \in game.ext[Mover][i] : ~IsLoss(x)
    BY <1>4, <2>2, ParityOfDtm
  <2>5. \A j \in game.succ[Mover][i] : ~HasLoss(o, j)
    BY <1>2, <1>4, <2>1 DEF ConflictInv, Exclusive, ShownWin, HasWin
  <2>6. ~HasWin(Mover, i)
    BY <1>2, <2>4, <2>5 DEF ConflictInv, WinJustified
  <2> QED BY <1>2, <2>3, <2>6 DEF ConflictInv, BitsRecorded
<1>8. CASE ~(i \notin lost[Mover] \cup won[Mover] /\ AllWinning(i))
  <2>1. UNCHANGED records
    BY <1>8 DEF CheckLossCandidate
  <2>2. AllShown(o, i, d) => LossWithin(Mover, i, d + 1)'
    BY <1>5, <1>7, <1>8, <2>1
  <2> QED BY <1>1, <2>1, <2>2, SolutionCandidate
<1>9. CASE i \notin lost[Mover] \cup won[Mover] /\ AllWinning(i)
  <2>1. records' = AppendRecord(records, Mover, i, -(d + 1))
    BY <1>9 DEF CheckLossCandidate
  <2>2. /\ IsLoss(-(d + 1)) /\ Distance(-(d + 1)) = d + 1 /\ -(-(d + 1)) - 1 = d
    BY <1>2 DEF IsLoss, Distance, Draw
  <2>3. LossWithin(Mover, i, d + 1)'
    <3>1. records \in [Sides -> [Index -> SUBSET Dtm]]
      BY <1>1 DEF TypeOK
    <3>2. -(d + 1) \in records'[Mover][i]
      BY <1>2, <2>1, <3>1, AppendRecordAt
    <3>3. -(-(d + 1)) <= d + 1
      BY <1>2
    <3> QED BY <1>1, <2>2, <3>2, <3>3 DEF LossWithin, Mover
  <2>4. /\ \A j \in game.succ[Mover][i] : ShownWin(o, j, d)
        /\ \A x \in game.ext[Mover][i] : IsWin(x) /\ x <= d
    BY <1>6, <1>9 DEF AllWinning, IsWin
  <2>5. \/ d \in game.ext[Mover][i]
        \/ \E j \in game.succ[Mover][i] : ~WinWithin(o, j, d - 1)
    <3> SUFFICES ASSUME d \notin game.ext[Mover][i],
                        \A j \in game.succ[Mover][i] : WinWithin(o, j, d - 1)
                 PROVE  FALSE
      OBVIOUS
    <3>1. \A j \in game.succ[Mover][i] : \E v \in records[o][j] :
            IsWin(v) /\ v \in Int /\ v <= d - 2 /\ 0 < v
      <4> SUFFICES ASSUME NEW j \in game.succ[Mover][i]
                   PROVE  \E v \in records[o][j] :
                            IsWin(v) /\ v \in Int /\ v <= d - 2 /\ 0 < v
        OBVIOUS
      <4>1. PICK v \in records[o][j] : IsWin(v) /\ v <= d - 1
        BY DEF WinWithin
      <4>2. v \in Int /\ v % 2 = 1 /\ 0 < v
        BY <1>1, <1>2, <1>4, <4>1, RecordFacts
      <4> QED BY <1>2, <4>1, <4>2
    <3>2. d - 2 \in 1 .. MaxWin /\ (d - 2) % 2 = 1
      BY <1>2, <1>4, <3>1, MaxWinAssumption
    <3>3. Backed(o, d - 2)
      BY <1>2, <1>3 DEF Backed
    <3>4. \A j \in game.succ[Mover][i] : ShownWin(o, j, d - 2)
      BY <1>2, <3>1 DEF ShownWin, Shown, Backed
    <3>5. \A x \in game.ext[Mover][i] : IsWin(x) /\ x <= d - 2
      <4> SUFFICES ASSUME NEW x \in game.ext[Mover][i] PROVE IsWin(x) /\ x <= d - 2
        OBVIOUS
      <4>1. IsWin(x) /\ x <= d /\ x # d
        BY <2>4
      <4>2. x \in Int /\ x % 2 = 1
        BY <1>4, <4>1, ParityOfDtm
      <4> QED BY <1>2, <4>1, <4>2
    <3>6. AllShown(o, i, d - 2)
      BY <1>2, <1>4, <3>4, <3>5 DEF AllShown
    <3>7. LossWithin(Mover, i, d - 1)
      <4>1. LossWithin(Opposite(o), i, d - 2 + 1) \/ Awaited("won", o, d - 2, i)
        BY <1>2, <1>3, <3>2, <3>3, <3>6 DEF SolutionInv, LossComplete
      <4>2. ~Awaited("won", o, d - 2, i) /\ d - 2 + 1 = d - 1
        BY <1>2 DEF Awaited
      <4> QED BY <1>2, <4>1, <4>2
    <3>8. PICK v \in records[Mover][i] : IsLoss(v) /\ -v <= d - 1
      BY <3>7 DEF LossWithin
    <3>9. -v \in Int /\ -v < d
      BY <1>1, <1>2, <3>8, RecordFacts
    <3>10. Shown(Mover, i, -v)
      BY <3>9 DEF Shown, Backed
    <3> QED BY <1>1, <1>2, <1>3, <1>9, <3>8, <3>10 DEF BitsExact, ShownLoss
  <2>6. LostIn(Mover, i, d)
    BY <1>2, <1>4, <2>4, <2>5 DEF LostIn, ShownWin, WinWithin
  <2>7. \E v \in Dtm :
          /\ Distance(v) = layer.distance + 1
          /\ records' = AppendRecord(records, Mover, i, v)
          /\ \/ /\ IsWin(v)
                /\ \E k \in game.succ[Mover][i] : 1 - v \in records[layer.side][k]
             \/ IsLoss(v) /\ LostIn(Mover, i, -v - 1)
    BY <1>2, <2>1, <2>2, <2>6
  <2> QED BY <1>1, <2>3, <2>7, SolutionCandidate
<1> QED BY <1>8, <1>9

(* What a processed source adds to the bitmaps, to the records they show   *)
(* and to the candidates.                                                  *)
LEMMA SourceShown ==
  ASSUME ConflictInv, ConflictInv', SolutionInv, NEW c \in Index, ProcessSource(c)
  PROVE  /\ LayerValue(layer) \in records[layer.side][c]
         /\ \A side \in Sides, i \in Index :
              /\ i \in won'[side] <=>
                   \/ i \in won[side]
                   \/ layer.kind = "won" /\ side = layer.side /\ i = c
              /\ i \in lost'[side] <=>
                   \/ i \in lost[side]
                   \/ layer.kind = "lost" /\ side = layer.side /\ i = c
         /\ \A side \in Sides, i \in Index, n \in Int :
              /\ Shown(side, i, n)' <=>
                   \/ Shown(side, i, n)
                   \/ side = layer.side /\ i = c /\ n = layer.distance
              /\ ShownWin(side, i, n)' <=>
                   \/ ShownWin(side, i, n)
                   \/ /\ layer.kind = "won" /\ side = layer.side /\ i = c
                      /\ layer.distance <= n
              /\ ShownLoss(side, i)' <=>
                   \/ ShownLoss(side, i)
                   \/ layer.kind = "lost" /\ side = layer.side /\ i = c
         /\ ~Shown(layer.side, c, layer.distance)
         /\ candidates \subseteq candidates'
         /\ \/ c \in Outcome(layer.kind)[layer.side] /\ candidates' = candidates
            \/ candidates' = candidates \cup Predecessors(game, layer.side, c)
<1> DEFINE d == layer.distance
           s == layer.side
<1>1. /\ TypeOK /\ TypeInv /\ LayerParity /\ RecordsSound
      /\ stage = "sources" /\ c \in todo
      /\ UNCHANGED <<game, records, stage, layer>>
      /\ todo' = todo \ {c}
      /\ LayerValue(layer) \in records[s][c]
  BY DEF ConflictInv, ProcessSource, Working, TypeInv, SolutionInv, WorkOfLayer
<1>2. s \in Sides /\ d \in Nat /\ layer.kind \in {"won", "lost"}
  BY <1>1 DEF TypeOK, Layers, Kinds
<1>3. Layering /\ Layering'
  BY <1>1 DEF Layering
<1>4. ~(c \in won[s] \cup lost[s]) \/ c \in Outcome(layer.kind)[s]
  <2>1. error'[Owner[c]] # "conflict"
    BY OwnerAssumption DEF ConflictInv, NoConflict
  <2> QED BY <1>1, <2>1, OwnerAssumption DEF ProcessSource, Fail, TypeOK
<1>5. /\ candidates \subseteq candidates'
      /\ \/ c \in Outcome(layer.kind)[s] /\ candidates' = candidates
         \/ candidates' = candidates \cup Predecessors(game, s, c)
  BY <1>4 DEF ProcessSource
<1>6. \A side \in Sides, i \in Index :
        /\ i \in won'[side] <=> i \in won[side] \/ (layer.kind = "won" /\ side = s /\ i = c)
        /\ i \in lost'[side] <=>
             i \in lost[side] \/ (layer.kind = "lost" /\ side = s /\ i = c)
  <2>1. CASE c \in Outcome(layer.kind)[s]
    <3>1. won' = won /\ lost' = lost
      BY <2>1 DEF ProcessSource
    <3> QED BY <1>2, <2>1, <3>1 DEF Outcome
  <2>2. CASE c \notin Outcome(layer.kind)[s]
    <3>1. /\ layer.kind = "won" => won' = [won EXCEPT ![s] = @ \cup {c}] /\ lost' = lost
          /\ layer.kind = "lost" => lost' = [lost EXCEPT ![s] = @ \cup {c}] /\ won' = won
      BY <1>2, <1>4, <2>2 DEF ProcessSource
    <3>2. won \in [Sides -> SUBSET Index] /\ lost \in [Sides -> SUBSET Index]
      BY <1>1 DEF TypeOK, BitSets
    <3>3. CASE layer.kind = "won"
      BY <1>2, <3>1, <3>2, <3>3
    <3>4. CASE layer.kind = "lost"
      BY <1>2, <3>1, <3>2, <3>4
    <3> QED BY <1>2, <3>3, <3>4
  <2> QED BY <2>1, <2>2
<1>7. \A side, i, n :
        Shown(side, i, n)' <=> Shown(side, i, n) \/ (side = s /\ i = c /\ n = d)
  BY <1>1, <1>3 DEF Shown, Backed
<1>8. \A side \in Sides, i \in Index, n \in Int :
        ShownWin(side, i, n)' <=>
          ShownWin(side, i, n) \/ (layer.kind = "won" /\ side = s /\ i = c /\ d <= n)
  <2> SUFFICES ASSUME NEW side \in Sides, NEW i \in Index, NEW n \in Int
               PROVE  ShownWin(side, i, n)' <=>
                        \/ ShownWin(side, i, n)
                        \/ layer.kind = "won" /\ side = s /\ i = c /\ d <= n
    OBVIOUS
  <2>1. ShownWin(side, i, n) => ShownWin(side, i, n)'
    BY <1>1, <1>7 DEF ShownWin
  <2>2. ASSUME layer.kind = "won", side = s, i = c, d <= n PROVE ShownWin(side, i, n)'
    <3>1. PICK v \in records'[side][i] : v = d
      BY <1>1, <2>2 DEF LayerValue
    <3>2. Shown(side, i, v)' /\ IsWin(v) /\ v <= n
      BY <1>1, <1>2, <1>7, <2>2, <3>1 DEF IsWin, LayerParity
    <3> QED BY <3>1, <3>2 DEF ShownWin
  <2>3. ASSUME NEW v \in records'[side][i], IsWin(v), v <= n, Shown(side, i, v)',
               ~Shown(side, i, v)
        PROVE  layer.kind = "won" /\ side = s /\ i = c /\ d <= n
    <3>1. side = s /\ i = c /\ v = d
      BY <1>7, <2>3
    <3>2. d % 2 = 1
      BY <1>1, <2>3, <3>1, RecordFacts
    <3> QED BY <1>1, <1>2, <2>3, <3>1, <3>2 DEF LayerParity
  <2> QED BY <1>1, <2>1, <2>2, <2>3 DEF ShownWin
<1>9. \A side \in Sides, i \in Index :
        ShownLoss(side, i)' <=>
          ShownLoss(side, i) \/ (layer.kind = "lost" /\ side = s /\ i = c)
  <2> SUFFICES ASSUME NEW side \in Sides, NEW i \in Index
               PROVE  ShownLoss(side, i)' <=>
                        \/ ShownLoss(side, i)
                        \/ layer.kind = "lost" /\ side = s /\ i = c
    OBVIOUS
  <2>1. ShownLoss(side, i) => ShownLoss(side, i)'
    BY <1>1, <1>7 DEF ShownLoss
  <2>2. ASSUME layer.kind = "lost", side = s, i = c PROVE ShownLoss(side, i)'
    <3>1. PICK v \in records'[side][i] : v = -d
      BY <1>1, <2>2 DEF LayerValue
    <3>2. IsLoss(v) /\ -v = d
      BY <1>1, <1>2, <2>2, <3>1 DEF IsLoss, Draw, LayerParity
    <3>3. Shown(side, i, -v)'
      BY <1>1, <1>2, <1>7, <2>2, <3>2
    <3> QED BY <3>1, <3>2, <3>3 DEF ShownLoss
  <2>3. ASSUME NEW v \in records'[side][i], IsLoss(v), Shown(side, i, -v)',
               ~Shown(side, i, -v)
        PROVE  layer.kind = "lost" /\ side = s /\ i = c
    <3>1. side = s /\ i = c /\ -v = d
      BY <1>7, <2>3
    <3>2. d % 2 = 0
      BY <1>1, <2>3, <3>1, RecordFacts
    <3> QED BY <1>1, <1>2, <3>1, <3>2 DEF LayerParity
  <2> QED BY <1>1, <2>1, <2>2, <2>3 DEF ShownLoss
<1>10. ~Shown(s, c, d)
  BY <1>1, <1>2, <1>3 DEF Shown, Backed
<1> QED BY <1>1, <1>5, <1>6, <1>7, <1>8, <1>9, <1>10

LEMMA SolutionSource ==
  ASSUME ConflictInv, ConflictInv', SolutionInv, NEW c \in Index, ProcessSource(c)
  PROVE  SolutionInv'
<1> DEFINE d == layer.distance
           s == layer.side
<1>1. /\ TypeOK /\ TypeOK' /\ TypeInv /\ LayerParity /\ RecordsSound
      /\ stage = "sources" /\ c \in todo
      /\ UNCHANGED <<game, records, deferred, stage, layer, activations>>
      /\ todo' = todo \ {c}
  BY DEF ConflictInv, ProcessSource, Working, TypeInv, SolutionInv
<1>2. /\ s \in Sides /\ Mover \in Sides /\ d \in Nat /\ layer.kind \in {"won", "lost"}
      /\ Mover' = Mover /\ Opposite(Mover) = s /\ Opposite(s) = Mover
  BY <1>1, SidesAndOpposite DEF TypeOK, Layers, Kinds, Mover
<1>3. Layering /\ Layering' /\ Solving /\ Solving'
  BY <1>1 DEF Layering, Solving
<1>4. /\ LayerValue(layer) \in records[s][c]
      /\ \A side \in Sides, i \in Index :
           /\ i \in won'[side] <=>
                i \in won[side] \/ (layer.kind = "won" /\ side = s /\ i = c)
           /\ i \in lost'[side] <=>
                i \in lost[side] \/ (layer.kind = "lost" /\ side = s /\ i = c)
      /\ \A side \in Sides, i \in Index, n \in Int :
           /\ Shown(side, i, n)' <=> Shown(side, i, n) \/ (side = s /\ i = c /\ n = d)
           /\ ShownWin(side, i, n)' <=>
                \/ ShownWin(side, i, n)
                \/ layer.kind = "won" /\ side = s /\ i = c /\ d <= n
           /\ ShownLoss(side, i)' <=>
                ShownLoss(side, i) \/ (layer.kind = "lost" /\ side = s /\ i = c)
      /\ ~Shown(s, c, d)
      /\ candidates \subseteq candidates'
      /\ \/ c \in Outcome(layer.kind)[s] /\ candidates' = candidates
         \/ candidates' = candidates \cup Predecessors(game, s, c)
  BY SourceShown
<1>5. \A kind, side, n, i : Awaited(kind, side, n, i) => Awaited(kind, side, n, i)'
  BY <1>1, <1>3, <1>4 DEF Awaited
<1>6. InitialComplete' /\ DeferralSound'
  BY <1>1, <1>3, InitialFrame DEF SolutionInv, Initialized
<1>7. RecordsSound'
  BY <1>1, <1>2, SoundFrame
<1>8. WinComplete'
  <2> SUFFICES ASSUME NEW side \in Sides, NEW j \in Index, NEW v \in records[side][j],
                      IsLoss(v), Shown(side, j, -v)',
                      NEW p \in Predecessors(game, side, j)
               PROVE  WinWithin(Opposite(side), p, 1 - v)' \/ Awaited("lost", side, -v, p)'
    BY <1>1 DEF WinComplete, Predecessors
  <2>1. /\ v \in Int /\ -v \in Int /\ (-v) % 2 = 0
        /\ WinWithin(Opposite(side), p, 1 - v)' = WinWithin(Opposite(side), p, 1 - v)
    BY <1>1, RecordFacts DEF WinWithin
  <2>2. CASE Shown(side, j, -v)
    BY <1>3, <1>5, <2>1, <2>2 DEF SolutionInv, WinComplete
  <2>3. CASE ~Shown(side, j, -v)
    <3>1. side = s /\ j = c /\ -v = d /\ layer.kind = "lost"
      BY <1>1, <1>2, <1>4, <2>1, <2>3 DEF LayerParity
    <3>2. CASE candidates' = candidates \cup Predecessors(game, s, c)
      BY <1>1, <1>3, <3>1, <3>2 DEF Awaited
    <3>3. CASE c \in lost[s]
      <4>1. PICK u \in records[s][c] : IsLoss(u) /\ Shown(s, c, -u)
        BY <1>2, <1>3, <3>3 DEF SolutionInv, BitsExact, ShownLoss
      <4>2. u \in Int /\ -u \in Int
        BY <1>1, <1>2, <4>1, RecordFacts
      <4>3. -u <= d /\ -u # d
        BY <1>1, <1>2, <1>3, <1>4, <4>1, <4>2, ShownWithinLayer
      <4>4. WinWithin(Opposite(s), p, 1 - u) \/ Awaited("lost", s, -u, p)
        BY <1>2, <1>3, <3>1, <4>1 DEF SolutionInv, WinComplete
      <4>5. WinWithin(Opposite(s), p, 1 - u)
        BY <4>3, <4>4 DEF Awaited
      <4>6. PICK w \in records[Opposite(s)][p] : IsWin(w) /\ w <= 1 - u
        BY <4>5 DEF WinWithin
      <4>7. w \in Int
        BY <1>1, <1>2, <4>6 DEF TypeOK, Dtm, Predecessors
      <4>8. w <= 1 - v
        BY <1>2, <2>1, <3>1, <4>2, <4>3, <4>6, <4>7
      <4> QED BY <2>1, <3>1, <4>6, <4>8 DEF WinWithin
    <3> QED BY <1>4, <3>1, <3>2, <3>3 DEF Outcome
  <2> QED BY <2>2, <2>3
<1>9. LossComplete'
  <2> SUFFICES ASSUME NEW side \in Sides, NEW i \in Index, NEW m \in 1 .. MaxWin,
                      m % 2 = 1,
                      Backed(side, m)' \/ (s = side /\ d = m),
                      AllShown(side, i, m)'
               PROVE  LossWithin(Opposite(side), i, m + 1)' \/ Awaited("won", side, m, i)'
    BY <1>1 DEF LossComplete
  <2>1. /\ m \in Int /\ Opposite(side) \in Sides
        /\ game.succ[Opposite(side)][i] \in SUBSET Index
        /\ LossWithin(Opposite(side), i, m + 1)' = LossWithin(Opposite(side), i, m + 1)
        /\ Backed(side, m)' = Backed(side, m)
    BY <1>1, <1>3, GameFacts, SidesAndOpposite DEF TypeOK, LossWithin, Backed
  <2>2. CASE AllShown(side, i, m)
    BY <1>3, <1>5, <2>1, <2>2 DEF SolutionInv, LossComplete
  <2>3. CASE ~AllShown(side, i, m)
    <3>1. PICK j \in game.succ[Opposite(side)][i] :
             ShownWin(side, j, m)' /\ ~ShownWin(side, j, m)
      BY <1>1, <2>3 DEF AllShown
    <3>2. layer.kind = "won" /\ side = s /\ j = c /\ d <= m
      BY <1>4, <2>1, <3>1
    <3>3. d = m
      BY <1>2, <1>3, <2>1, <3>2 DEF Backed
    <3>4. c \notin won[s]
      <4> SUFFICES ASSUME c \in won[s] PROVE FALSE
        OBVIOUS
      <4>1. PICK v \in records[s][c] : IsWin(v) /\ Shown(s, c, v)
        BY <1>2, <1>3 DEF SolutionInv, BitsExact, ShownWin
      <4>2. v \in Int
        BY <1>1, <1>2, <4>1, RecordFacts
      <4>3. v <= m
        BY <1>1, <1>2, <1>3, <3>3, <4>1, <4>2, ShownWithinLayer
      <4> QED BY <3>1, <3>2, <4>1, <4>3 DEF ShownWin
    <3>5. i \in candidates'
      BY <1>4, <3>1, <3>2, <3>4 DEF Outcome, Predecessors
    <3> QED BY <1>1, <1>3, <3>2, <3>3, <3>5 DEF Awaited
  <2> QED BY <2>2, <2>3
<1>10. BitsExact'
  <2>1. MaxWin \in Int
    BY MaxWinAssumption
  <2>2. layer.kind = "won" => d <= MaxWin
    BY <1>1 DEF LayerParity
  <2> QED BY <1>1, <1>3, <1>4, <2>1, <2>2 DEF SolutionInv, BitsExact, Layering
<1>11. CandidatesSound'
  <2>1. \A i \in candidates \cup activations :
          /\ game.succ[Mover][i] # {}
          /\ layer.kind = "lost" => \E j \in game.succ[Mover][i] : -d \in records[s][j]
    BY <1>3 DEF SolutionInv, CandidatesSound
  <2>2. \A i \in Predecessors(game, s, c) :
          /\ game.succ[Mover][i] # {}
          /\ layer.kind = "lost" => \E j \in game.succ[Mover][i] : -d \in records[s][j]
    BY <1>2, <1>4 DEF Predecessors, LayerValue, Mover
  <2> QED BY <1>1, <1>2, <1>4, <2>1, <2>2 DEF CandidatesSound
<1>12. RecordsBounded' /\ TableReplayed'
  BY <1>3 DEF RecordsBounded, TableReplayed
<1> QED BY <1>6, <1>7, <1>8, <1>9, <1>10, <1>11, <1>12 DEF SolutionInv

-----------------------------------------------------------------------------
(* Between two layers.  E holds the sides and distances backed up so far:  *)
(* everything that follows from their records has been recorded, and the   *)
(* bitmaps show exactly their records.                                     *)
BackedUp(E) ==
  /\ \A side \in Sides, j \in Index : \A v \in records[side][j] :
       IsLoss(v) /\ <<side, -v>> \in E =>
         \A p \in Predecessors(game, side, j) : WinWithin(Opposite(side), p, 1 - v)
  /\ \A side \in Sides, i \in Index, m \in 1 .. MaxWin :
       /\ m % 2 = 1 /\ <<side, m>> \in E
       /\ game.succ[Opposite(side)][i] # {}
       /\ \A j \in game.succ[Opposite(side)][i] : WinWithin(side, j, m)
       /\ \A x \in game.ext[Opposite(side)][i] : IsWin(x) /\ x <= m
       => LossWithin(Opposite(side), i, m + 1)

BitsShow(E) ==
  \A side \in Sides, i \in Index :
    /\ i \in won[side]  <=> \E v \in records[side][i] : IsWin(v) /\ <<side, v>> \in E
    /\ i \in lost[side] <=> \E v \in records[side][i] : IsLoss(v) /\ <<side, -v>> \in E

Before(l, side, n) ==
  n < l.distance \/ (n = l.distance /\ side = "WTM" /\ l.side = "BTM")

(* The next layer l is the first with records, or a candidate, beyond E.   *)
Follows(l, E) ==
  /\ layer.distance <= l.distance
  /\ l.kind = "won"  => l.distance % 2 = 1
  /\ l.kind = "lost" => l.distance % 2 = 0
  /\ \A side \in Sides, n \in Int : <<side, n>> \in E => Before(l, side, n)
  /\ \A side \in Sides, n \in Nat : n % 2 = 1 /\ Before(l, side, n) => <<side, n>> \in E
  /\ \A side \in Sides, i \in Index : \A v \in records[side][i] :
       Before(l, side, Distance(v)) => <<side, Distance(v)>> \in E

LEMMA SolutionLayer ==
  ASSUME TypeOK, TypeOK', SolutionInv, \A i \in Index : Initialized(i),
         NEW E, BackedUp(E), BitsShow(E),
         NEW l \in Layers, Follows(l, E), StartLayer(l), candidates' = {},
         UNCHANGED <<game, records, deferred, won, lost, table>>
  PROVE  SolutionInv'
<1> DEFINE m0 == l.distance
<1>1. /\ layer' = l /\ stage' = "sources" /\ RecordsSound
      /\ todo' = {i \in Index : LayerValue(l) \in records[l.side][i]}
      /\ activations' = IF l.kind = "won"
                          THEN {i \in Index : m0 \in deferred[l.side][i]}
                          ELSE {}
  BY DEF StartLayer, SolutionInv
<1>2. /\ l.side \in Sides /\ m0 \in Nat /\ l.kind \in {"won", "lost"}
      /\ l.kind = "won" => m0 % 2 = 1
      /\ l.kind = "lost" => m0 % 2 = 0
  BY DEF Layers, Kinds, Follows
<1>3. Layering' /\ Solving'
  BY <1>1 DEF Layering, Solving
<1>4. \A side, n : Backed(side, n)' <=> Before(l, side, n)
  BY <1>1, <1>3 DEF Backed, Before
<1>5. ASSUME NEW side \in Sides, NEW i \in Index, NEW v \in records[side][i]
      PROVE  /\ IsWin(v) => (Shown(side, i, v)' <=> <<side, v>> \in E)
             /\ IsLoss(v) => (Shown(side, i, -v)' <=> <<side, -v>> \in E)
  <2>1. /\ v \in Int /\ -v \in Int
        /\ IsWin(v) => v % 2 = 1 /\ Distance(v) = v
        /\ IsLoss(v) => (-v) % 2 = 0 /\ Distance(v) = -v
    BY <1>1, RecordFacts DEF Distance
  <2>2. Before(l, side, Distance(v)) => <<side, Distance(v)>> \in E
    BY DEF Follows
  <2>3. \A n \in Int : <<side, n>> \in E => Before(l, side, n)
    BY DEF Follows
  <2>4. \A n : Shown(side, i, n)' <=>
                 Before(l, side, n) \/ (n = m0 /\ side = l.side /\ i \notin todo')
    BY <1>1, <1>4 DEF Shown
  <2>5. IsWin(v) /\ v = m0 /\ side = l.side => i \in todo'
    BY <1>1, <1>2, <2>1 DEF LayerValue
  <2>6. IsLoss(v) /\ -v = m0 /\ side = l.side => i \in todo'
    BY <1>1, <1>2, <2>1 DEF LayerValue
  <2>7. CASE IsWin(v)
    <3>1. ~IsLoss(v)
      BY <1>1, <2>7, RecordFacts
    <3> QED BY <2>1, <2>2, <2>3, <2>4, <2>5, <2>7, <3>1
  <2>8. CASE IsLoss(v)
    <3>1. ~IsWin(v)
      BY <1>1, <2>8, RecordFacts
    <3> QED BY <2>1, <2>2, <2>3, <2>4, <2>6, <2>8, <3>1
  <2> QED BY <2>7, <2>8
<1>6. InitialComplete' /\ DeferralSound'
  BY InitialFrame DEF SolutionInv
<1>7. RecordsSound'
  BY <1>1, SoundFrame DEF Follows
<1>8. WinComplete'
  BY <1>5 DEF BackedUp, WinComplete, WinWithin
<1>9. LossComplete'
  <2> SUFFICES ASSUME NEW side \in Sides, NEW i \in Index, NEW m \in 1 .. MaxWin,
                      m % 2 = 1,
                      Before(l, side, m) \/ (l.side = side /\ m0 = m),
                      AllShown(side, i, m)'
               PROVE  LossWithin(Opposite(side), i, m + 1)' \/ Awaited("won", side, m, i)'
    BY <1>1, <1>4 DEF LossComplete
  <2> DEFINE o == Opposite(side)
  <2>1. /\ m \in Nat /\ o \in Sides /\ Opposite(o) = side
        /\ game.succ[o][i] # {} /\ game.succ[o][i] \in SUBSET Index
        /\ game.ext[o][i] \in SUBSET Dtm
        /\ LossWithin(o, i, m + 1)' <=> LossWithin(o, i, m + 1)
    BY GameFacts, SidesAndOpposite DEF TypeOK, LossWithin, AllShown
  <2>2. \A j \in game.succ[o][i] : \E v \in records[side][j] :
           IsWin(v) /\ v <= m /\ <<side, v>> \in E
    BY <1>5, <2>1 DEF AllShown, ShownWin
  <2>3. \A x \in game.ext[o][i] : IsWin(x) /\ x <= m
    BY DEF AllShown
  <2>4. CASE Before(l, side, m)
    <3>1. <<side, m>> \in E
      BY <2>1, <2>4 DEF Follows
    <3>2. \A j \in game.succ[o][i] : WinWithin(side, j, m)
      BY <2>2 DEF WinWithin
    <3> QED BY <2>1, <2>3, <3>1, <3>2 DEF BackedUp
  <2>5. CASE ~Before(l, side, m) /\ m \in game.ext[o][i]
    <3>1. DeferralDistances(o, i) = {Max(game.ext[o][i])}
      BY <2>1, <2>3, <2>5 DEF DeferralDistances
    <3>2. /\ Max(game.ext[o][i]) \in game.ext[o][i]
          /\ \A x \in game.ext[o][i] : x <= Max(game.ext[o][i])
      BY <2>1, <2>5, MaxOfValues
    <3>3. Max(game.ext[o][i]) \in Int
      BY <2>1, <3>2, ParityOfDtm
    <3>4. Max(game.ext[o][i]) = m
      BY <2>1, <2>3, <2>5, <3>2, <3>3
    <3>5. m \in deferred[side][i]
      BY <3>1, <3>4 DEF SolutionInv, InitialComplete
    <3>6. m = m0 /\ l.side = side /\ l.kind = "won"
      BY <1>2, <2>5
    <3>7. i \in activations'
      BY <1>1, <3>5, <3>6
    <3> QED BY <1>1, <1>3, <3>6, <3>7 DEF Awaited
  <2>6. CASE ~Before(l, side, m) /\ m \notin game.ext[o][i]
    <3>1. m = m0 /\ l.side = side
      BY <2>6
    <3>2. \A j \in game.succ[o][i] : \E v \in records[side][j] :
             IsWin(v) /\ v <= m - 2 /\ v \in Nat /\ 0 < v
      <4> SUFFICES ASSUME NEW j \in game.succ[o][i]
                   PROVE  \E v \in records[side][j] :
                             IsWin(v) /\ v <= m - 2 /\ v \in Nat /\ 0 < v
        OBVIOUS
      <4>1. PICK v \in records[side][j] : IsWin(v) /\ v <= m /\ <<side, v>> \in E
        BY <2>2
      <4>2. v \in Nat /\ 0 < v /\ v % 2 = 1
        BY <1>1, <2>1, <4>1, RecordFacts
      <4>3. Before(l, side, v)
        BY <4>1, <4>2 DEF Follows
      <4>4. v # m
        BY <2>6, <4>3
      <4> QED BY <2>1, <4>1, <4>2, <4>4
    <3>3. m - 2 \in 1 .. MaxWin /\ (m - 2) % 2 = 1
      BY <2>1, <3>2, MaxWinAssumption
    <3>4. <<side, m - 2>> \in E
      BY <2>1, <3>1, <3>3 DEF Follows, Before
    <3>5. \A j \in game.succ[o][i] : WinWithin(side, j, m - 2)
      BY <3>2 DEF WinWithin
    <3>6. \A x \in game.ext[o][i] : IsWin(x) /\ x <= m - 2
      <4> SUFFICES ASSUME NEW x \in game.ext[o][i] PROVE IsWin(x) /\ x <= m - 2
        OBVIOUS
      <4>1. IsWin(x) /\ x <= m /\ x # m
        BY <2>3, <2>6
      <4>2. x \in Int /\ x % 2 = 1
        BY <2>1, <4>1, ParityOfDtm
      <4> QED BY <2>1, <4>1, <4>2
    <3>7. LossWithin(o, i, m - 2 + 1)
      BY <2>1, <3>3, <3>4, <3>5, <3>6 DEF BackedUp
    <3>8. LossWithin(o, i, m + 1)
      <4>1. PICK v \in records[o][i] : IsLoss(v) /\ -v <= m - 2 + 1
        BY <3>7 DEF LossWithin
      <4>2. v \in Int
        BY <1>1, <2>1, <4>1, RecordFacts
      <4>3. -v <= m + 1
        BY <2>1, <4>1, <4>2
      <4> QED BY <4>1, <4>3 DEF LossWithin
    <3> QED BY <2>1, <3>8
  <2> QED BY <2>4, <2>5, <2>6
<1>10. BitsExact'
  <2>1. \A side \in Sides, i \in Index : \A v \in records[side][i] : IsWin(v) => v <= MaxWin
    BY <1>1, RecordFacts
  <2> QED BY <1>1, <1>3, <1>5, <2>1 DEF BitsShow, BitsExact, ShownWin, ShownLoss
<1>11. CandidatesSound'
  <2> SUFFICES ASSUME NEW i \in activations'
               PROVE  game.succ[Opposite(l.side)][i] # {} /\ l.kind # "lost"
    BY <1>1 DEF CandidatesSound, Mover
  <2>1. i \in Index /\ m0 \in deferred[l.side][i] /\ l.kind = "won"
    BY <1>1
  <2>2. m0 \in DeferralDistances(Opposite(l.side), i)
    BY <1>2, <2>1 DEF SolutionInv, DeferralSound
  <2> QED BY <2>1, <2>2 DEF DeferralDistances
<1>12. RecordsBounded' /\ TableReplayed'
  BY <1>3 DEF RecordsBounded, TableReplayed
<1> QED BY <1>6, <1>7, <1>8, <1>9, <1>10, <1>11, <1>12 DEF SolutionInv

(* The layers are over: no record and no deferred candidate is beyond them. *)
LEMMA SolutionStartCompile ==
  ASSUME TypeOK, TypeOK', LayerParity, SolutionInv, Layering,
         NEW E, BackedUp(E),
         \A side \in Sides, n \in Nat : n <= layer.distance => <<side, n>> \in E,
         \A side \in Sides, i \in Index : \A v \in records[side][i] \cup deferred[side][i] :
           Distance(v) <= layer.distance,
         StartCompile,
         UNCHANGED <<game, records, deferred, won, lost, table>>
  PROVE  SolutionInv'
<1> DEFINE d == layer.distance
<1>1. /\ stage' = "compile" /\ todo' = Index /\ layer' = layer
      /\ RecordsSound /\ d \in Nat /\ layer.kind \in {"won", "lost"}
  BY DEF StartCompile, SolutionInv, TypeOK, Layers, Kinds
<1>2. ~Layering' /\ Solving' /\ Solving
  BY <1>1 DEF Layering, Solving
<1>3. InitialComplete' /\ DeferralSound'
  BY <1>2, InitialFrame DEF SolutionInv, Initialized
<1>4. RecordsSound'
  BY <1>1, SoundFrame
<1>5. WinComplete'
  <2> SUFFICES ASSUME NEW side \in Sides, NEW j \in Index, NEW v \in records[side][j],
                      IsLoss(v), NEW p \in Predecessors(game, side, j)
               PROVE  WinWithin(Opposite(side), p, 1 - v)
    BY DEF WinComplete, WinWithin
  <2>1. -v \in Nat /\ v \in Int /\ v <= 0
    BY <1>1, RecordFacts
  <2>2. Distance(v) = -v
    BY <2>1 DEF Distance
  <2>3. <<side, -v>> \in E
    BY <2>1, <2>2
  <2> QED BY <2>3 DEF BackedUp
<1>6. LossComplete'
  <2> SUFFICES ASSUME NEW side \in Sides, NEW i \in Index, NEW m \in 1 .. MaxWin,
                      m % 2 = 1, AllShown(side, i, m)'
               PROVE  LossWithin(Opposite(side), i, m + 1)
    BY DEF LossComplete, LossWithin
  <2> DEFINE o == Opposite(side)
             k == IF m <= d THEN m ELSE IF d % 2 = 1 THEN d ELSE d - 1
  <2>1. /\ m \in Nat /\ o \in Sides /\ Opposite(o) = side
        /\ game.succ[o][i] # {} /\ game.succ[o][i] \in SUBSET Index
        /\ game.ext[o][i] \in SUBSET Dtm
        /\ \A x \in game.ext[o][i] : IsWin(x) /\ x <= m
    BY GameFacts, SidesAndOpposite DEF TypeOK, AllShown
  <2>2. k \in Int /\ k <= m /\ k <= d
    BY <1>1, <2>1
  <2>3. \A v \in Nat : v % 2 = 1 /\ v <= m /\ v <= d => v <= k
    BY <1>1, <2>1
  <2>4. m <= d \/ k % 2 = 1
    BY <1>1
  <2> HIDE DEF k
  <2>5. \A j \in game.succ[o][i] : \E v \in records[side][j] :
           IsWin(v) /\ v <= k /\ v \in Nat /\ 0 < v
    <3> SUFFICES ASSUME NEW j \in game.succ[o][i]
                 PROVE  \E v \in records[side][j] :
                           IsWin(v) /\ v <= k /\ v \in Nat /\ 0 < v
      OBVIOUS
    <3>1. PICK v \in records[side][j] : IsWin(v) /\ v <= m
      BY <2>1 DEF AllShown, ShownWin
    <3>2. v \in Nat /\ 0 < v /\ v % 2 = 1
      BY <1>1, <2>1, <3>1, RecordFacts
    <3>3. v <= d
      BY <2>1, <3>1, <3>2 DEF Distance
    <3> QED BY <2>3, <3>1, <3>2, <3>3
  <2>6. \A x \in game.ext[o][i] : IsWin(x) /\ x <= k
    <3> SUFFICES ASSUME NEW x \in game.ext[o][i] PROVE IsWin(x) /\ x <= k
      OBVIOUS
    <3>1. x \in Nat /\ x % 2 = 1 /\ IsWin(x) /\ x <= m
      BY <2>1, ParityOfDtm
    <3>2. DeferralDistances(o, i) = {Max(game.ext[o][i])}
      BY <2>1 DEF DeferralDistances
    <3>3. Max(game.ext[o][i]) \in game.ext[o][i] /\ x <= Max(game.ext[o][i])
      BY <2>1, MaxOfValues
    <3>4. Max(game.ext[o][i]) \in deferred[side][i]
      BY <1>2, <2>1, <3>2 DEF SolutionInv, InitialComplete, Initialized
    <3>5. Max(game.ext[o][i]) \in Nat
      BY <2>1, <3>3, ParityOfDtm
    <3>6. Max(game.ext[o][i]) <= d
      BY <3>4, <3>5 DEF Distance
    <3>7. x <= d
      BY <1>1, <3>1, <3>3, <3>5, <3>6
    <3> QED BY <2>3, <3>1, <3>7
  <2>7. k \in 1 .. MaxWin
    BY <2>1, <2>2, <2>5, MaxWinAssumption
  <2>8. k % 2 = 1
    BY <2>4 DEF k
  <2>9. <<side, k>> \in E
    BY <2>2, <2>7
  <2>10. \A j \in game.succ[o][i] : WinWithin(side, j, k)
    BY <2>5 DEF WinWithin
  <2>11. LossWithin(o, i, k + 1)
    BY <2>1, <2>6, <2>7, <2>8, <2>9, <2>10 DEF BackedUp
  <2>12. PICK v \in records[o][i] : IsLoss(v) /\ -v <= k + 1
    BY <2>11 DEF LossWithin
  <2>13. v \in Int
    BY <1>1, <2>1, <2>12, RecordFacts
  <2>14. -v <= m + 1
    BY <2>1, <2>2, <2>12, <2>13
  <2> QED BY <2>12, <2>14 DEF LossWithin
<1>7. BitsExact' /\ CandidatesSound'
  BY <1>1, <1>2 DEF BitsExact, CandidatesSound
<1>8. RecordsBounded'
  BY <1>1 DEF RecordsBounded
<1>9. TableReplayed'
  BY <1>1 DEF TableReplayed
<1> QED BY <1>3, <1>4, <1>5, <1>6, <1>7, <1>8, <1>9 DEF SolutionInv

(* What the workers have backed up when the candidates of a layer are done. *)
Evaluated ==
  {e \in Sides \X Int :
     \/ e[2] < layer.distance
     \/ e[2] = layer.distance /\ (e[1] = layer.side \/ e[1] = "WTM")}

LEMMA LayerEvaluated ==
  ASSUME TypeOK, SolutionInv, Joined("candidates"), AllWell
  PROVE  BackedUp(Evaluated) /\ BitsShow(Evaluated)
<1>1. stage = "candidates" /\ todo = {} /\ layer.side \in Sides /\ layer.distance \in Nat
  BY OwnerAssumption DEF Joined, AllWell, TypeOK, Layers
<1>2. Layering /\ Solving
  BY <1>1 DEF Layering, Solving
<1>3. \A side \in Sides, i \in Index, n \in Int :
        Shown(side, i, n) <=> <<side, n>> \in Evaluated
  BY <1>1, <1>2 DEF Shown, Backed, Evaluated, Sides
<1>4. \A kind, side, n, i : ~Awaited(kind, side, n, i)
  BY <1>1 DEF Awaited
<1>5. \A side \in Sides, i \in Index : \A v \in records[side][i] : v \in Int /\ -v \in Int
  BY DEF TypeOK, Dtm
<1>6. ASSUME NEW side \in Sides, NEW j \in Index, NEW v \in records[side][j],
             IsLoss(v), <<side, -v>> \in Evaluated
      PROVE  \A p \in Predecessors(game, side, j) : WinWithin(Opposite(side), p, 1 - v)
  BY <1>2, <1>3, <1>4, <1>5, <1>6 DEF SolutionInv, WinComplete
<1>7. ASSUME NEW side \in Sides, NEW i \in Index, NEW m \in 1 .. MaxWin,
             m % 2 = 1, <<side, m>> \in Evaluated,
             game.succ[Opposite(side)][i] # {},
             \A j \in game.succ[Opposite(side)][i] : WinWithin(side, j, m),
             \A x \in game.ext[Opposite(side)][i] : IsWin(x) /\ x <= m
      PROVE  LossWithin(Opposite(side), i, m + 1)
  <2>1. game.succ[Opposite(side)][i] \in SUBSET Index /\ m \in Int
    BY SidesAndOpposite, GameFacts DEF TypeOK
  <2>2. Backed(side, m) \/ (layer.side = side /\ layer.distance = m)
    BY <1>1, <1>2, <1>7 DEF Evaluated, Backed, Sides
  <2>3. ASSUME NEW v \in Int, v <= m PROVE <<side, v>> \in Evaluated
    BY <1>1, <1>7, <2>1, <2>3 DEF Evaluated
  <2>4. \A j \in game.succ[Opposite(side)][i] : ShownWin(side, j, m)
    BY <1>3, <1>5, <1>7, <2>1, <2>3 DEF WinWithin, ShownWin
  <2>5. AllShown(side, i, m)
    BY <1>7, <2>4 DEF AllShown
  <2> QED BY <1>2, <1>4, <1>7, <2>2, <2>5 DEF SolutionInv, LossComplete
<1>8. BackedUp(Evaluated)
  BY <1>6, <1>7 DEF BackedUp
<1>9. ASSUME NEW side \in Sides, NEW i \in Index
      PROVE  /\ i \in won[side]  <=>
                  \E v \in records[side][i] : IsWin(v) /\ <<side, v>> \in Evaluated
             /\ i \in lost[side] <=>
                  \E v \in records[side][i] : IsLoss(v) /\ <<side, -v>> \in Evaluated
  <2>1. \A v \in records[side][i] : IsWin(v) => v <= MaxWin
    BY RecordFacts DEF SolutionInv
  <2>2. /\ i \in won[side] <=> ShownWin(side, i, MaxWin)
        /\ i \in lost[side] <=> ShownLoss(side, i)
    BY <1>2 DEF SolutionInv, BitsExact
  <2> QED BY <1>3, <1>5, <2>1, <2>2 DEF ShownWin, ShownLoss
<1> QED BY <1>8, <1>9 DEF BitsShow

LEMMA SolutionEndInitialize ==
  ASSUME ConflictInv, TypeOK', SolutionInv, EndInitialize
  PROVE  SolutionInv'
<1> DEFINE l == [kind |-> "lost", side |-> "WTM", distance |-> 0]
<1>1. /\ TypeOK /\ stage = "initialize" /\ AllWell /\ todo = {} /\ candidates' = {}
      /\ UNCHANGED <<game, records, deferred, won, lost, table>> /\ StartLayer(l)
  BY OwnerAssumption
     DEF ConflictInv, EndInitialize, Joined, AllWell, TypeOK, InitialRecords
<1>2. \A i \in Index : Initialized(i)
  BY <1>1, OwnerAssumption DEF Initialized, AllWell
<1>3. BackedUp({})
  BY DEF BackedUp
<1>4. BitsShow({})
  BY <1>1 DEF SolutionInv, BitsExact, BitsShow
<1>5. l \in Layers
  BY MaxWinAssumption DEF Layers, Kinds, Sides, MaxLoss
<1>6. Follows(l, {})
  <2>1. layer.distance = 0
    BY <1>1 DEF SolutionInv, BitsExact
  <2>2. \A side \in Sides, i \in Index : \A v \in records[side][i] : Distance(v) \in Nat
    BY <1>1 DEF TypeOK, Dtm, Distance
  <2> QED BY <2>1, <2>2 DEF Follows, Before
<1> QED BY <1>1, <1>2, <1>3, <1>4, <1>5, <1>6, SolutionLayer

LEMMA SolutionEndLayer ==
  ASSUME ConflictInv, TypeOK', SolutionInv, EndLayer
  PROVE  SolutionInv'
<1> DEFINE d == layer.distance
           E == Evaluated
<1>1. /\ TypeOK /\ LayerParity /\ Joined("candidates") /\ AllWell
      /\ candidates' = {} /\ UNCHANGED <<game, records, deferred, won, lost, error, table>>
      /\ RecordsSound
  BY DEF ConflictInv, EndLayer, ClearCandidates, SolutionInv
<1>2. /\ layer \in Layers /\ layer.side \in {"WTM", "BTM"} /\ d \in Nat
      /\ layer.kind \in {"won", "lost"} /\ d <= MaxLoss
      /\ layer.kind = "won" => d % 2 = 1
      /\ layer.kind = "lost" => d % 2 = 0
  BY <1>1 DEF TypeOK, Layers, Kinds, Sides, LayerParity
<1>3. Layering /\ Solving /\ \A i \in Index : Initialized(i)
  BY <1>1 DEF Joined, Layering, Solving, Initialized
<1>4. BackedUp(E) /\ BitsShow(E)
  BY <1>1, LayerEvaluated
<1>5. \A side \in Sides, n \in Int :
        <<side, n>> \in E <=> n < d \/ (n = d /\ (side = layer.side \/ side = "WTM"))
  BY DEF Evaluated
<1>6. \A side \in Sides, i \in Index : \A v \in records[side][i] :
        /\ Distance(v) \in Nat
        /\ \A n : ~HasRecord(records, n) => ~(Distance(v) >= n)
  BY <1>1 DEF TypeOK, Dtm, Distance, HasRecord
<1> HIDE DEF E
<1>7. ASSUME NEW l \in Layers, StartLayer(l), Follows(l, E) PROVE SolutionInv'
  BY <1>1, <1>3, <1>4, <1>7, SolutionLayer
<1>8. ASSUME Stop("beyond") PROVE SolutionInv'
  BY <1>1, <1>8, SolutionStopped DEF Stop
<1>9. ASSUME NEW e \in Nat, e % 2 = 1, e <= MaxWin, layer.side = "BTM",
             e = d + 1 \/ (e = d + 2 /\ ~HasRecord(records, d + 1)),
             NextWonLayer(e)
      PROVE  SolutionInv'
  <2> DEFINE l == [kind |-> "won", side |-> "WTM", distance |-> e]
  <2>1. l \in Layers /\ StartLayer(l)
    BY <1>9, MaxWinAssumption DEF Layers, Kinds, Sides, MaxLoss, NextWonLayer
  <2>2. \A side \in Sides, n \in Int : Before(l, side, n) <=> n < e
    BY <1>9 DEF Before
  <2>3. \A side \in Sides, n \in Int : <<side, n>> \in E <=> n <= d
    BY <1>2, <1>5, <1>9 DEF Sides
  <2>4. \A n \in Nat : n % 2 = 1 /\ n < e => n <= d
    BY <1>2, <1>9
  <2>5. \A side \in Sides, i \in Index : \A v \in records[side][i] :
          Distance(v) < e => Distance(v) <= d
    BY <1>2, <1>6, <1>9
  <2>6. d <= e /\ \A n \in Int : n <= d => n < e
    BY <1>2, <1>9
  <2>7. Follows(l, E)
    BY <1>6, <1>9, <2>2, <2>3, <2>4, <2>5, <2>6 DEF Follows
  <2> QED BY <1>7, <2>1, <2>7
<1>10. ASSUME NEW e \in Nat, e % 2 = 1, e = d \/ e = d - 1, layer.side = "BTM",
              e = d => ~HasRecord(records, d + 1),
              EndIteration(e)
       PROVE  SolutionInv'
  <2>1. CASE Finished(e)
    <3>1. \A side \in Sides, i \in Index :
            \A v \in records[side][i] \cup deferred[side][i] : Distance(v) <= d
      <4>1. \A side \in Sides, i \in Index :
              \A v \in records[side][i] \cup deferred[side][i] :
                Distance(v) \in Nat /\ ~(Distance(v) >= e + 1)
        BY <1>1, <2>1 DEF TypeOK, Dtm, Distance, HasRecord, Finished
      <4> QED BY <1>2, <1>10, <4>1
    <3>2. \A side \in Sides, n \in Nat : n <= d => <<side, n>> \in E
      BY <1>2, <1>5, <1>10 DEF Sides
    <3> QED BY <1>1, <1>3, <1>4, <1>10, <2>1, <3>1, <3>2, SolutionStartCompile
            DEF EndIteration
  <2>2. CASE ~Finished(e) /\ e > MaxWin - 2
    BY <1>8, <1>10, <2>2 DEF EndIteration
  <2>3. CASE ~Finished(e) /\ ~(e > MaxWin - 2)
    <3>1. /\ NextWonLayer(e + 2) /\ e + 2 \in Nat /\ (e + 2) % 2 = 1 /\ e + 2 <= MaxWin
          /\ e + 2 = d + 1 \/ (e + 2 = d + 2 /\ ~HasRecord(records, d + 1))
      BY <1>2, <1>10, <2>3, MaxWinAssumption DEF EndIteration
    <3> QED BY <1>9, <1>10, <3>1
  <2> QED BY <2>1, <2>2, <2>3
<1>11. CASE layer.side = "WTM"
  <2> DEFINE l == [layer EXCEPT !.side = "BTM"]
  <2>1. /\ l \in Layers /\ l.kind = layer.kind /\ l.distance = d /\ l.side = "BTM"
        /\ StartLayer(l)
    BY <1>2, <1>11 DEF EndLayer, Layers, Sides
  <2> HIDE DEF l
  <2>2. \A side \in Sides, n \in Int : Before(l, side, n) <=> <<side, n>> \in E
    BY <1>2, <1>5, <1>11, <2>1 DEF Before, Sides
  <2>3. Follows(l, E)
    BY <1>2, <1>6, <2>1, <2>2 DEF Follows
  <2> QED BY <1>7, <2>1, <2>3
<1>12. CASE layer.side = "BTM" /\ layer.kind = "won" /\ HasRecord(records, d + 1)
  <2>1. CASE LossLayerTooLong(d + 1)
    BY <1>8, <1>12, <2>1 DEF EndLayer
  <2>2. CASE ~LossLayerTooLong(d + 1)
    <3> DEFINE l == [kind |-> "lost", side |-> "WTM", distance |-> d + 1]
    <3>1. l \in Layers /\ StartLayer(l)
      BY <1>2, <1>12, <2>2, MaxWinAssumption
         DEF EndLayer, LossLayerTooLong, Layers, Kinds, Sides, MaxLoss
    <3>2. \A side \in Sides, n \in Int : Before(l, side, n) <=> <<side, n>> \in E
      BY <1>2, <1>5, <1>12 DEF Before, Sides
    <3>3. Follows(l, E)
      BY <1>2, <1>6, <1>12, <3>2 DEF Follows
    <3> QED BY <1>7, <3>1, <3>3
  <2> QED BY <2>1, <2>2
<1>13. CASE layer.side = "BTM" /\ layer.kind = "won" /\ ~HasRecord(records, d + 1)
  BY <1>2, <1>10, <1>13 DEF EndLayer
<1>14. CASE layer.side = "BTM" /\ layer.kind = "lost" /\ d = 0
  <2>1. NextWonLayer(1)
    BY <1>14 DEF EndLayer
  <2> QED BY <1>9, <1>14, <2>1, MaxWinAssumption
<1>15. CASE layer.side = "BTM" /\ layer.kind = "lost" /\ d # 0
  <2>1. EndIteration(d - 1)
    BY <1>15 DEF EndLayer
  <2>2. d - 1 \in Nat /\ (d - 1) % 2 = 1 /\ d - 1 # d
    BY <1>2, <1>15
  <2> QED BY <1>10, <1>15, <2>1, <2>2
<1> QED BY <1>2, <1>11, <1>12, <1>13, <1>14, <1>15

LEMMA SolutionStep ==
  ASSUME ConflictInv, ConflictInv', SolutionInv, [Next]_vars
  PROVE  SolutionInv'
<1>1. TypeOK /\ TypeOK'
  BY DEF ConflictInv
<1>2. ASSUME JoinFailure \/ CoordinatorFault PROVE SolutionInv'
  <2>1. /\ UNCHANGED <<game, records, deferred, layer>>
        /\ stage' \in {"failed", "beyond"}
    BY <1>2 DEF JoinFailure, CoordinatorFault, Stop
  <2> QED BY <1>1, <2>1, SolutionStopped
<1>3. ASSUME UNCHANGED vars \/ \E i \in Index : WorkerFault(i) PROVE SolutionInv'
  <2>1. /\ UNCHANGED <<game, records, deferred, won, lost, candidates, stage, layer,
                       todo, activations, table>>
        /\ error' = error \/ \E i \in Index : Fail(i, "io")
    BY <1>3 DEF WorkerFault, vars
  <2> QED BY <1>1, <2>1, SolutionUnmoved
<1> QED
  BY <1>1, <1>2, <1>3, SolutionInitialize, SolutionSource, SolutionAwaited,
     SolutionLossCandidate, SolutionWinCandidate, SolutionCompile,
     SolutionEndInitialize, SolutionEndLayer
     DEF Next, WorkerStep, Coordinate, Terminated

LEMMA LayerDistance ==
  ASSUME TypeOK, LayerParity
  PROVE  layer.distance \in Nat /\ layer.distance <= MaxWin
<1>1. layer.kind \in {"won", "lost"} /\ layer.distance \in Nat
  BY DEF TypeOK, Layers, Kinds
<1> QED BY <1>1, MaxWinAssumption DEF LayerParity

(* When the layers are over, the records are sound and complete.           *)
LEMMA DoneIsSolved ==
  ASSUME ConflictInv, SolutionInv, stage = "done"
  PROVE  Solved
<1>1. Solving /\ ~Layering /\ TypeOK /\ Exclusive /\ RecordsSound
  BY DEF Solving, Layering, ConflictInv, SolutionInv
<1>2. \A side, i, n : Shown(side, i, n) /\ Backed(side, n)
  BY <1>1 DEF Shown, Backed
<1>3. \A kind, side, n, i : ~Awaited(kind, side, n, i)
  BY <1>1 DEF Awaited
<1>4. \A side \in Sides, i \in Index : InitialValues(side, i) \subseteq records[side][i]
  BY <1>1 DEF SolutionInv, InitialComplete, Initialized
<1>5. \A side \in Sides, j \in Index : \A v \in records[side][j] : IsLoss(v) =>
        \A p \in Predecessors(game, side, j) : WinWithin(Opposite(side), p, 1 - v)
  BY <1>1, <1>2, <1>3 DEF SolutionInv, WinComplete
<1>6. ASSUME NEW side \in Sides, NEW i \in Index, NEW m \in 1 .. MaxWin,
             m % 2 = 1, game.succ[side][i] # {},
             \A j \in game.succ[side][i] : WinWithin(Opposite(side), j, m),
             \A x \in game.ext[side][i] : IsWin(x) /\ x <= m
      PROVE  LossWithin(side, i, m + 1)
  <2>1. Opposite(side) \in Sides /\ Opposite(Opposite(side)) = side
    BY SidesAndOpposite
  <2>2. AllShown(Opposite(side), i, m)
    BY <1>2, <1>6, <2>1 DEF AllShown, ShownWin, WinWithin
  <2>3. LossWithin(Opposite(Opposite(side)), i, m + 1)
    BY <1>1, <1>2, <1>3, <1>6, <2>1, <2>2 DEF SolutionInv, LossComplete
  <2> QED BY <2>1, <2>3
<1> QED BY <1>1, <1>4, <1>5, <1>6 DEF Solved, SolvedRecords

(* What the generator compiles is the table the verifier expects, every    *)
(* entry the best value over its successors: the layers miss no position,  *)
(* whatever the workers' order and however the positions are dealt out.    *)
THEOREM CompiledCorrect == Spec => []CompiledIsConsistent
<1>1. ConflictInv /\ SolutionInv => CompiledIsConsistent
  <2> SUFFICES ASSUME ConflictInv, SolutionInv, stage = "done"
               PROVE  Consistent(game, table)
    BY DEF CompiledIsConsistent
  <2>1. Solved
    BY DoneIsSolved
  <2>2. \A r \in Sides, k \in Index : table[r][k] = Replayed(records[r][k])
    BY DEF SolutionInv, TableReplayed, Solving, Layering
  <2>3. \A r \in Sides, k \in Index : \A v \in records[r][k] : IsLoss(v) => -v <= MaxWin
    <3> SUFFICES ASSUME NEW r \in Sides, NEW k \in Index, NEW v \in records[r][k], IsLoss(v)
                 PROVE  -v <= MaxWin
      OBVIOUS
    <3>1. v \in Int /\ v <= 0
      BY RecordFacts DEF ConflictInv, SolutionInv
    <3>2. Distance(v) <= layer.distance
      BY DEF SolutionInv, RecordsBounded, Solving, Layering
    <3>3. layer.distance \in Nat /\ layer.distance <= MaxWin
      BY LayerDistance DEF ConflictInv
    <3> QED BY <3>1, <3>2, <3>3, MaxWinAssumption DEF Distance
  <2> QED BY <2>1, <2>2, <2>3, SolvedIsConsistent
<1> QED
  BY <1>1, ConflictInitially, ConflictStep, SolutionInitially, SolutionStep, PTL DEF Spec

-----------------------------------------------------------------------------
(* The generation gives up for one of two reasons: a value that follows    *)
(* from the moves out of the table is too long, or the solved game has a   *)
(* loss that is too long to be backed up.                                  *)
LEMMA TooLongBeyond ==
  ASSUME game \in GameGraphs, SomeInitialTooLong
  PROVE  \E side \in Sides, i \in Index : \E x \in game.ext[side][i] : ~InRange(x)
<1>1. PICK side \in Sides, i \in Index : ~(InitialValues(side, i) \subseteq Dtm)
  BY DEF SomeInitialTooLong, InitialTooLong
<1> DEFINE V == game.ext[side][i]
<1>2. V \in SUBSET Dtm
  BY GameFacts
<1>3. CASE \E x \in V : IsLoss(x)
  <2>1. PICK l \in V : IsLoss(l) /\ InitialValues(side, i) = {1 - l}
    BY <1>3, InitialCases
  <2>2. 1 - l \notin Dtm
    BY <1>1, <2>1
  <2>3. ~InRange(l)
    BY <1>2, <2>1, <2>2, ParityOfDtm, MaxWinAssumption DEF Dtm, InRange, Distance, MaxLoss
  <2> QED BY <2>3
<1>4. CASE \A x \in V : ~IsLoss(x)
  <2>1. game.succ[side][i] = {} /\ InitialValues(side, i) = {BestValue(V)} \ {Draw}
    BY <1>1, <1>4, InitialCases
  <2>2. BestValue(V) \notin Dtm /\ BestValue(V) # Draw
    BY <1>1, <2>1
  <2>3. V # {} /\ Draw \notin V
    <3>1. 0 \in Dtm
      BY MaxWinAssumption DEF Dtm, MaxLoss
    <3> QED BY <1>2, <1>4, <2>2, <3>1, BestValueCases
  <2>4. \A x \in V : IsWin(x)
    BY <1>2, <1>4, <2>3, ParityOfDtm
  <2>5. PICK m \in V : BestValue(V) = -(m + 1)
    BY <1>2, <2>3, <2>4, BestValueCases
  <2>6. -(m + 1) \in Dtm
    BY <1>2, <2>4, ParityOfDtm, MaxWinAssumption DEF Dtm, MaxLoss
  <2> QED BY <2>2, <2>5, <2>6
<1> QED BY <1>3, <1>4

(* A layer after which nothing more can be backed up has recorded a loss   *)
(* beyond the longest win: the loop never stops short of the range.        *)
LEMMA BeyondLayer ==
  ASSUME ConflictInv, SolutionInv, UpdatedRecorded, EndLayer, stage' = "beyond"
  PROVE  SolvedRecords /\ HasRecord(records, MaxLoss)
<1> DEFINE d == layer.distance
<1>1. /\ TypeOK /\ LayerParity /\ Joined("candidates") /\ AllWell
  BY DEF ConflictInv, EndLayer
<1>2. /\ layer.side \in {"WTM", "BTM"} /\ d \in Nat /\ d <= MaxWin
      /\ layer.kind \in {"won", "lost"}
      /\ layer.kind = "won" => d % 2 = 1
      /\ layer.kind = "lost" => d % 2 = 0 /\ d < MaxWin
  BY <1>1, LayerDistance DEF TypeOK, Layers, Kinds, Sides, LayerParity
<1>3. Layering /\ Solving /\ \A i \in Index : Initialized(i)
  BY <1>1 DEF Joined, Layering, Solving, Initialized
<1>4. \A l : ~StartLayer(l)
  BY DEF StartLayer
<1>5. ~HasRecord(deferred, MaxWin + 1)
  <2> SUFFICES ASSUME NEW side \in Sides, NEW i \in Index, NEW v \in deferred[side][i]
               PROVE  ~(Distance(v) >= MaxWin + 1)
    BY DEF HasRecord
  <2>1. v \in DeferralDistances(Opposite(side), i)
    BY DEF SolutionInv, DeferralSound
  <2> DEFINE V == game.ext[Opposite(side)][i]
  <2>2. V \in SUBSET Dtm
    BY <1>1, SidesAndOpposite, GameFacts DEF TypeOK
  <2>3. v = Max(V) /\ V # {} /\ \A x \in V : IsWin(x)
    BY <2>1 DEF DeferralDistances
  <2>4. v \in Dtm /\ IsWin(v)
    BY <2>2, <2>3, MaxOfValues
  <2> QED BY <2>4, ParityOfDtm, MaxWinAssumption DEF Distance
<1>6. layer.side = "BTM"
  BY <1>2, <1>4 DEF EndLayer
<1>7. layer.kind = "won"
  <2> SUFFICES ASSUME layer.kind = "lost" PROVE FALSE
    BY <1>2
  <2>1. d # 0 /\ EndIteration(d - 1)
    BY <1>4, <1>6 DEF EndLayer, NextWonLayer
  <2>2. d - 1 > MaxWin - 2
    BY <1>4, <2>1 DEF EndIteration, StartCompile, NextWonLayer
  <2> QED BY <1>2, <2>2, MaxWinAssumption
<1>8. d = MaxWin /\ HasRecord(records, d + 1)
  <2>1. CASE HasRecord(records, d + 1)
    <3>1. d + 1 >= MaxWin
      BY <1>4, <1>6, <1>7, <2>1 DEF EndLayer, LossLayerTooLong
    <3> QED BY <1>2, <1>7, <2>1, <3>1, MaxWinAssumption
  <2>2. CASE ~HasRecord(records, d + 1)
    <3>1. EndIteration(d)
      BY <1>6, <1>7, <2>2 DEF EndLayer
    <3>2. ~Finished(d) /\ d > MaxWin - 2
      BY <1>4, <3>1 DEF EndIteration, StartCompile, NextWonLayer
    <3>3. d = MaxWin
      BY <1>2, <1>7, <3>2, MaxWinAssumption
    <3>4. updated
      BY <1>5, <2>2, <3>2, <3>3 DEF Finished
    <3> QED BY <1>3, <1>7, <2>2, <3>4 DEF UpdatedRecorded
  <2> QED BY <2>1, <2>2
<1>9. BackedUp(Evaluated)
  BY <1>1, LayerEvaluated
<1>10. \A side \in Sides, n \in Int : n <= MaxWin => <<side, n>> \in Evaluated
  BY <1>2, <1>6, <1>8, MaxWinAssumption DEF Evaluated, Sides
<1>11. SolvedRecords
  <2>1. \A side \in Sides, i \in Index : InitialValues(side, i) \subseteq records[side][i]
    BY <1>3 DEF SolutionInv, InitialComplete
  <2>2. \A side \in Sides, j \in Index : \A v \in records[side][j] :
          IsLoss(v) /\ -v <= MaxWin =>
            \A p \in Predecessors(game, side, j) : WinWithin(Opposite(side), p, 1 - v)
    <3>1. \A side \in Sides, j \in Index : \A v \in records[side][j] : -v \in Int
      BY <1>1 DEF TypeOK, Dtm
    <3> QED BY <1>9, <1>10, <3>1 DEF BackedUp
  <2>3. ASSUME NEW side \in Sides, NEW i \in Index, NEW m \in 1 .. MaxWin,
               m % 2 = 1, game.succ[side][i] # {},
               \A j \in game.succ[side][i] : WinWithin(Opposite(side), j, m),
               \A x \in game.ext[side][i] : IsWin(x) /\ x <= m
        PROVE  LossWithin(side, i, m + 1)
    <3>1. PICK o \in Sides : o = Opposite(side) /\ Opposite(o) = side
      BY SidesAndOpposite
    <3>2. m \in Int /\ m <= MaxWin
      BY MaxWinAssumption
    <3>3. <<o, m>> \in Evaluated
      BY <1>10, <3>2
    <3>4. LossWithin(Opposite(o), i, m + 1)
      BY <1>9, <2>3, <3>1, <3>3 DEF BackedUp
    <3> QED BY <3>1, <3>4
  <2> QED BY <2>1, <2>2, <2>3 DEF SolvedRecords
<1> QED BY <1>8, <1>11 DEF MaxLoss

LEMMA RangeInitially == Init => RangeInv
BY DEF Init, RangeInv, DtmErrors, UpdatedRecorded, BeyondRecords, Layering

LEMMA RangeStep ==
  ASSUME ConflictInv, ConflictInv', SolutionInv, RangeInv, [Next]_vars
  PROVE  RangeInv'
<1>1. TypeOK /\ TypeOK' /\ DtmErrors /\ UpdatedRecorded /\ BeyondRecords
  BY DEF ConflictInv, RangeInv
<1>2. game' = game
  BY DEF Next, WorkerStep, Coordinate, CoordinatorFault, Terminated, InitializePosition,
         ProcessSource, ActivateDeferred, CheckLossCandidate, CheckWinCandidate,
         CompilePosition, WorkerFault, EndInitialize, EndSources, EndLayer, EndCompile,
         JoinFailure, vars
<1>3. SomeInitialTooLong <=> SomeInitialTooLong'
  BY <1>2 DEF SomeInitialTooLong, InitialTooLong, InitialValues
<1>4. DtmErrors'
  <2>1. ASSUME NEW i \in Index, InitializePosition(i) PROVE DtmErrors'
    <3>1. CASE \E side \in Sides : InitialTooLong(side, i)
      BY <1>3, <3>1 DEF SomeInitialTooLong, DtmErrors
    <3>2. CASE ~ \E side \in Sides : InitialTooLong(side, i)
      BY <1>1, <1>3, <2>1, <3>2 DEF InitializePosition, DtmErrors
    <3> QED BY <3>1, <3>2
  <2>2. ASSUME NEW i \in Index, NEW e \in {"io", "conflict"}, Fail(i, e)
        PROVE  DtmErrors'
    BY <1>1, <1>3, <2>2 DEF Fail, DtmErrors, TypeOK
  <2>3. ASSUME UNCHANGED error PROVE DtmErrors'
    BY <1>1, <1>3, <2>3 DEF DtmErrors
  <2>4. \/ UNCHANGED error
        \/ \E i \in Index : InitializePosition(i)
        \/ \E i \in Index, e \in {"io", "conflict"} : Fail(i, e)
    BY DEF Next, WorkerStep, Coordinate, CoordinatorFault, Terminated,
           ProcessSource, ActivateDeferred, CheckLossCandidate, CheckWinCandidate,
           CompilePosition, WorkerFault, EndInitialize, EndSources, EndLayer, EndCompile,
           JoinFailure, vars
  <2> QED BY <2>1, <2>2, <2>3, <2>4
<1>5. UpdatedRecorded'
  <2>1. ASSUME NEW i \in Index, CheckLossCandidate(i) PROVE UpdatedRecorded'
    <3>1. /\ layer' = layer /\ stage' = stage /\ Layering
          /\ layer.kind = "won"
      BY <2>1 DEF CheckLossCandidate, Working, Layering
    <3>2. CASE UNCHANGED <<records, updated>>
      BY <1>1, <3>1, <3>2 DEF UpdatedRecorded, Layering, HasRecord
    <3>3. CASE records' = AppendRecord(records, Mover, i, -(layer.distance + 1))
      <4>1. -(layer.distance + 1) \in records'[Mover][i] /\ Mover \in Sides
        <5>1. Mover \in Sides /\ -(layer.distance + 1) \in Dtm
          BY <3>1, LayerValues DEF ConflictInv, TypeInv
        <5>2. records \in [Sides -> [Index -> SUBSET Dtm]]
          BY <1>1 DEF TypeOK
        <5>3. records'[Mover][i] = records[Mover][i] \cup {-(layer.distance + 1)}
          BY <3>3, <5>1, <5>2, AppendRecordAt
        <5> QED BY <5>1, <5>3
      <4>2. layer.distance \in Nat
        BY <1>1, MaxWinAssumption DEF TypeOK, Layers, MaxLoss
      <4>3. Distance(-(layer.distance + 1)) >= layer.distance + 1
        BY <4>2 DEF Distance
      <4> QED BY <3>1, <4>1, <4>3 DEF UpdatedRecorded, HasRecord
    <3> QED BY <2>1, <3>2, <3>3 DEF CheckLossCandidate
  <2>2. ASSUME NEW i \in Index, CheckWinCandidate(i) PROVE UpdatedRecorded'
    BY <2>2 DEF CheckWinCandidate, UpdatedRecorded
  <2>3. ASSUME UNCHANGED <<records, updated, layer>>, Layering' => Layering
        PROVE  UpdatedRecorded'
    BY <1>1, <2>3 DEF UpdatedRecorded, HasRecord
  <2>4. ASSUME ~Layering' PROVE UpdatedRecorded'
    BY <2>4 DEF UpdatedRecorded
  <2>5. CASE EndLayer
    <3>1. CASE layer.side = "WTM"
      <4>1. /\ layer' = [layer EXCEPT !.side = "BTM"] /\ UNCHANGED <<records, updated>>
            /\ Layering
        BY <2>5, <3>1 DEF EndLayer, StartLayer, Layering, Joined
      <4>2. layer'.kind = layer.kind /\ layer'.distance = layer.distance
        BY <1>1, <4>1 DEF TypeOK, Layers
      <4> QED BY <1>1, <4>1, <4>2 DEF UpdatedRecorded, HasRecord
    <3>2. CASE layer.side # "WTM"
      <4>1. \/ stage' \in {"beyond", "compile"}
            \/ updated' = FALSE
            \/ layer'.kind = "lost"
        BY <2>5, <3>2
           DEF EndLayer, EndIteration, Stop, StartCompile, NextWonLayer, StartLayer
      <4> QED BY <4>1 DEF UpdatedRecorded, Layering
    <3> QED BY <3>1, <3>2
  <2>6. CASE EndInitialize
    BY <2>6 DEF EndInitialize, StartLayer, UpdatedRecorded
  <2>7. \/ EndLayer \/ EndInitialize
        \/ \E i \in Index : CheckLossCandidate(i) \/ CheckWinCandidate(i)
        \/ ~Layering'
        \/ UNCHANGED <<records, updated, layer>> /\ (Layering' => Layering)
    BY DEF Next, WorkerStep, Coordinate, CoordinatorFault, Terminated, InitializePosition,
           ProcessSource, ActivateDeferred, Working,
           CompilePosition, WorkerFault, EndSources, EndCompile,
           JoinFailure, Joined, Stop, Layering, vars
  <2> QED BY <2>1, <2>2, <2>3, <2>4, <2>5, <2>6, <2>7
<1>6. BeyondRecords'
  <2>1. ASSUME stage = "beyond" PROVE BeyondRecords'
    <3>1. UNCHANGED <<game, records, stage>>
      BY <2>1 DEF Next, WorkerStep, Coordinate, CoordinatorFault, Terminated, InitializePosition,
           ProcessSource, ActivateDeferred, CheckLossCandidate, CheckWinCandidate, Working,
           CompilePosition, WorkerFault, EndInitialize, EndSources, EndLayer, EndCompile,
           JoinFailure, Joined, Running, vars
    <3>2. (SolvedRecords /\ HasRecord(records, MaxLoss)) =>
             (SolvedRecords /\ HasRecord(records, MaxLoss))'
      BY <3>1 DEF SolvedRecords, HasRecord, WinWithin, LossWithin, InitialValues
    <3> QED BY <1>1, <1>3, <2>1, <3>2 DEF BeyondRecords
  <2>2. ASSUME JoinFailure, stage' = "beyond" PROVE BeyondRecords'
    BY <1>1, <1>3, <2>2 DEF JoinFailure, Stop, DtmErrors, BeyondRecords
  <2>3. ASSUME EndLayer, stage' = "beyond" PROVE BeyondRecords'
    <3>1. SolvedRecords /\ HasRecord(records, MaxLoss) /\ UNCHANGED <<game, records>>
      BY <1>1, <2>3, BeyondLayer DEF EndLayer
    <3>2. (SolvedRecords /\ HasRecord(records, MaxLoss))'
      BY <3>1 DEF SolvedRecords, HasRecord, WinWithin, LossWithin, InitialValues
    <3> QED BY <3>2 DEF BeyondRecords
  <2>4. stage' = "beyond" => stage = "beyond" \/ JoinFailure \/ EndLayer
    BY DEF Next, WorkerStep, Coordinate, CoordinatorFault, Terminated, InitializePosition,
           ProcessSource, ActivateDeferred, CheckLossCandidate, CheckWinCandidate,
           CompilePosition, WorkerFault, EndInitialize, EndSources, EndCompile,
           StartLayer, Stop, vars
  <2>5. ASSUME stage' # "beyond" PROVE BeyondRecords'
    BY <2>5 DEF BeyondRecords
  <2> QED BY <2>1, <2>2, <2>3, <2>4, <2>5
<1> QED BY <1>4, <1>5, <1>6 DEF RangeInv

-----------------------------------------------------------------------------
(* When a solved game has a loss beyond the range, it has no consistent    *)
(* table within the range: such a table would hold every record up to      *)
(* MaxWin, and then that loss.                                             *)
LEMMA DecidedInRecords ==
  ASSUME Solved, NEW t \in Tables, NEW u \in Tables,
         \A r \in Sides, k \in Index : t[r][k] = Replayed(records[r][k]),
         NEW n \in Nat, n <= MaxWin, AgreeBelow(t, u, n),
         NEW s \in Sides, NEW i \in Index, ConsistentAt(game, u, s, i),
         u[s][i] # Draw, Distance(u[s][i]) = n
  PROVE  t[s][i] # Draw /\ Distance(t[s][i]) <= n
<1> DEFINE o == Opposite(s)
           V == SuccessorValues(game, t, s, i)
           U == SuccessorValues(game, u, s, i)
           e == u[s][i]
<1>1. /\ o \in Sides /\ game.succ[s][i] \in SUBSET Index /\ game \in GameGraphs
      /\ game.ext[s][i] \in SUBSET Dtm
  BY GameFacts DEF Solved, TypeOK
<1>2. /\ V = {t[o][j] : j \in game.succ[s][i]} \cup game.ext[s][i]
      /\ \A l \in V : IsLoss(l) /\ -l <= MaxWin => WinWithin(s, i, 1 - l)
  BY SolvedSuccessors
<1>3. U = {u[o][j] : j \in game.succ[s][i]} \cup game.ext[s][i]
  BY DEF SuccessorValues
<1>4. e = BestValue(U) /\ U \in SUBSET Dtm /\ e \in Dtm
  BY <1>1, SuccessorValuesType DEF ConsistentAt, ExpectedDtm, Tables
<1>5. /\ V = {} <=> U = {}
      /\ \A x \in U : x # Draw /\ Distance(x) < n => x \in V
      /\ (\A x \in U : x # Draw /\ Distance(x) < n) => U = V
  <2>1. AgreeBelow(u, t, n)
    BY DEF AgreeBelow
  <2>2. PICK X : X = U
    OBVIOUS
  <2>3. PICK Y : Y = V
    OBVIOUS
  <2> HIDE DEF U, V
  <2>4. /\ X = {} <=> Y = {}
        /\ \A x \in X : x # Draw /\ Distance(x) < n => x \in Y
        /\ (\A x \in X : x # Draw /\ Distance(x) < n) => Y = X
    BY <1>1, <2>1, <2>2, <2>3, SuccessorsAgree DEF U, V
  <2> QED BY <2>2, <2>3, <2>4
<1>6. TypeOK /\ RecordsSound /\ Exclusive
  BY DEF Solved
<1>7. \A x \in U : x \in Int /\ (IsWin(x) \/ IsLoss(x) \/ x = Draw)
  BY <1>4, ParityOfDtm
<1>8. e \in Int /\ t[s][i] = Replayed(records[s][i]) /\ e # Draw /\ Distance(e) = n
  BY <1>4, ParityOfDtm
<1>9. ASSUME WinWithin(s, i, n) PROVE t[s][i] # Draw /\ Distance(t[s][i]) <= n
  <2>1. PICK w \in records[s][i] : IsWin(w) /\ w <= n
    BY <1>9 DEF WinWithin
  <2>2. t[s][i] \in records[s][i] /\ IsWin(t[s][i]) /\ t[s][i] <= w
    BY <1>6, <1>8, <2>1, ReplayedCases DEF HasWin
  <2>3. w \in Int /\ t[s][i] \in Int
    BY <1>6, <2>2, RecordFacts
  <2> QED BY <2>1, <2>2, <2>3 DEF IsWin, Distance, Draw
<1>10. ASSUME LossWithin(s, i, n) PROVE t[s][i] # Draw /\ Distance(t[s][i]) <= n
  <2>1. PICK w \in records[s][i] : IsLoss(w) /\ -w <= n
    BY <1>10 DEF LossWithin
  <2>2. t[s][i] \in records[s][i] /\ IsLoss(t[s][i]) /\ w <= t[s][i]
    BY <1>6, <1>8, <2>1, ReplayedCases DEF HasLoss
  <2>3. w \in Int /\ t[s][i] \in Int /\ w <= 0 /\ t[s][i] <= 0
    BY <1>6, <2>1, <2>2, RecordFacts
  <2> QED BY <2>1, <2>2, <2>3 DEF IsLoss, Distance
<1> HIDE DEF V, U, e, o
<1>11. CASE \E x \in U : IsLoss(x)
  <2>1. PICK l \in U : IsLoss(l) /\ e = 1 - l
    BY <1>4, <1>11, BestValueCases
  <2>2. l \in Int /\ l <= 0 /\ l # Draw /\ 1 - l = n /\ Distance(l) < n /\ -l <= MaxWin
    <3>1. l \in Int /\ l <= 0 /\ l # Draw
      BY <1>7, <2>1 DEF IsLoss
    <3>2. 1 - l = n
      BY <1>8, <2>1, <3>1 DEF Distance
    <3> QED BY <3>1, <3>2, MaxWinAssumption DEF Distance
  <2>3. WinWithin(s, i, n)
    BY <1>2, <1>5, <2>1, <2>2
  <2> QED BY <1>9, <2>3
<1>12. CASE \A x \in U : ~IsLoss(x)
  <2>1. \A x \in U : IsWin(x)
    BY <1>4, <1>7, <1>8, <1>12, BestValueCases
  <2>2. CASE game.succ[s][i] = {}
    <3>1. U = game.ext[s][i]
      BY <1>3, <2>2
    <3>2. e \in InitialValues(s, i)
      BY <1>1, <1>4, <1>8, <2>2, <3>1, InitialCases
    <3>3. e \in records[s][i]
      BY <3>2 DEF Solved, SolvedRecords
    <3>4. IsLoss(e)
      BY <1>1, <2>1, <3>1, <3>2, <1>12, <1>6, <3>3, InitialValueKinds, RecordFacts
    <3>5. -e <= n
      BY <1>8, <3>4 DEF Distance, IsLoss
    <3> QED BY <1>10, <3>3, <3>4, <3>5 DEF LossWithin
  <2>3. CASE game.succ[s][i] # {}
    <3>1. U # {}
      BY <1>3, <2>3
    <3>2. PICK m \in U : e = -(m + 1) /\ \A x \in U : x <= m
      BY <1>4, <2>1, <3>1, BestValueCases
    <3>3. m \in Nat /\ 0 < m /\ m % 2 = 1 /\ n = m + 1
      BY <1>4, <1>8, <2>1, <3>2, ParityOfDtm DEF Distance
    <3>4. \A x \in U : x # Draw /\ Distance(x) < n
      BY <1>7, <2>1, <3>2, <3>3 DEF IsWin, Distance, Draw
    <3>5. U = V
      BY <1>5, <3>4
    <3>6. ASSUME NEW j \in game.succ[s][i] PROVE WinWithin(o, j, m)
      <4>1. j \in Index /\ t[o][j] \in V /\ t[o][j] = Replayed(records[o][j])
        BY <1>1, <1>2
      <4>2. IsWin(t[o][j]) /\ t[o][j] <= m
        BY <2>1, <3>2, <3>5, <4>1
      <4>3. t[o][j] # Draw /\ records[o][j] # {}
        <5>1. t[o][j] # Draw
          BY <4>2 DEF IsWin, Draw
        <5> QED BY <4>1, <5>1 DEF Replayed
      <4>4. t[o][j] \in records[o][j]
        BY <1>1, <1>6, <4>1, <4>3, ReplayedCases
      <4> QED BY <4>2, <4>4 DEF WinWithin
    <3>7. \A x \in game.ext[s][i] : IsWin(x) /\ x <= m
      BY <1>3, <2>1, <3>2
    <3>8. m \in 1 .. MaxWin
      BY <3>3, MaxWinAssumption
    <3>9. LossWithin(s, i, m + 1)
      BY <2>3, <3>3, <3>6, <3>7, <3>8 DEF Solved, SolvedRecords, o
    <3> QED BY <1>10, <3>3, <3>9
  <2> QED BY <2>2, <2>3
<1> QED BY <1>11, <1>12

LEMMA RecordsDecide ==
  ASSUME Solved, NEW t \in Tables, NEW u \in Tables,
         \A r \in Sides, k \in Index : t[r][k] = Replayed(records[r][k]),
         Consistent(game, u), WithinRange(u),
         NEW side \in Sides, NEW i \in Index,
         t[side][i] # Draw, Distance(t[side][i]) <= MaxWin
  PROVE  t[side][i] = u[side][i]
<1> DEFINE Decided(x, n) == x # Draw /\ Distance(x) = n
           T == {n \in 0 .. MaxWin : \E s \in Sides, j \in Index :
                    /\ t[s][j] # u[s][j]
                    /\ Decided(t[s][j], n) \/ Decided(u[s][j], n)}
<1>1. SUFFICES ASSUME t[side][i] # u[side][i] PROVE FALSE
  OBVIOUS
<1>2. \A s \in Sides, j \in Index :
        /\ t[s][j] \in Int /\ Distance(t[s][j]) \in Nat
        /\ u[s][j] \in Int /\ Distance(u[s][j]) \in Nat
        /\ Distance(u[s][j]) <= MaxWin
  BY DEF Tables, Dtm, Distance, WithinRange, InRange
<1>3. Distance(t[side][i]) \in T
  BY <1>1, <1>2, MaxWinAssumption
<1>4. T \subseteq Nat /\ \A k \in T : k <= MaxWin
  BY MaxWinAssumption
<1>5. PICK n \in T : \A k \in T : n <= k
  BY <1>3, <1>4, LeastNatural
<1>6. n \in Nat /\ n <= MaxWin
  BY <1>4
<1>7. PICK s \in Sides, j \in Index :
        t[s][j] # u[s][j] /\ (Decided(t[s][j], n) \/ Decided(u[s][j], n))
  BY <1>5
<1>8. AgreeBelow(t, u, n)
  <2>1. ASSUME NEW r \in Sides, NEW p \in Index, t[r][p] # u[r][p],
               NEW x \in {t[r][p], u[r][p]}, x # Draw, Distance(x) < n
        PROVE  FALSE
    <3>1. Distance(x) \in 0 .. MaxWin
      BY <1>2, <1>6, <2>1, MaxWinAssumption
    <3>2. Distance(x) \in T
      BY <2>1, <3>1
    <3> QED BY <1>2, <1>5, <1>6, <2>1, <3>2
  <2> QED BY <2>1 DEF AgreeBelow
<1>9. ConsistentAt(game, u, s, j) /\ game \in GameGraphs
  BY DEF Consistent, Solved, TypeOK
<1>10. t[s][j] # Draw /\ Distance(t[s][j]) <= n
  <2>1. CASE Decided(t[s][j], n)
    BY <1>6, <2>1
  <2>2. CASE Decided(u[s][j], n)
    BY <1>6, <1>8, <1>9, <2>2, DecidedInRecords
  <2> QED BY <1>7, <2>1, <2>2
<1>11. Distance(t[s][j]) = n
  <2>1. ~(Distance(t[s][j]) < n)
    BY <1>7, <1>8, <1>10 DEF AgreeBelow
  <2> QED BY <1>2, <1>6, <1>10, <2>1
<1>12. HasWin(s, j) \/ HasLoss(s, j)
  <2>1. t[s][j] = Replayed(records[s][j]) /\ records[s][j] # {}
    BY <1>10 DEF Replayed
  <2> QED BY <2>1, ReplayedCases DEF Solved
<1>13. ConsistentAt(game, t, s, j)
  BY <1>12, SolvedWin, SolvedLoss
<1>14. t[s][j] = u[s][j]
  BY <1>6, <1>8, <1>9, <1>10, <1>11, <1>13, AgreeAt
<1> QED BY <1>7, <1>14

LEMMA SolvedBeyond ==
  ASSUME Solved, HasRecord(records, MaxLoss), NEW u \in Tables, WithinRange(u)
  PROVE  ~Consistent(game, u)
<1> SUFFICES ASSUME Consistent(game, u) PROVE FALSE
  OBVIOUS
<1> DEFINE t == [r \in Sides |-> [k \in Index |-> Replayed(records[r][k])]]
<1>1. TypeOK /\ RecordsSound /\ Exclusive /\ game \in GameGraphs
  BY DEF Solved, TypeOK
<1>2. \A r \in Sides, k \in Index : t[r][k] = Replayed(records[r][k])
  OBVIOUS
<1>3. t \in Tables
  <2>1. \A r \in Sides, k \in Index : records[r][k] \in SUBSET Dtm
    BY <1>1 DEF TypeOK
  <2> QED BY <2>1, ReplayedType DEF Tables
<1> HIDE DEF t
<1>a. PICK s \in Sides, i \in Index : \E v \in records[s][i] : Distance(v) >= MaxLoss
  BY DEF HasRecord
<1>4. PICK v \in records[s][i] : Distance(v) >= MaxLoss
  BY <1>a
<1>5. v = -MaxLoss /\ IsLoss(v) /\ MaxLoss = MaxWin + 1 /\ MaxWin \in Nat /\ v # Draw
  <2>1. v \in Dtm
    BY <1>1, <1>4 DEF TypeOK
  <2> QED BY <1>4, <2>1, MaxWinAssumption DEF Dtm, Distance, IsLoss, MaxLoss, Draw
<1> DEFINE o == Opposite(s)
           U == SuccessorValues(game, u, s, i)
<1>6. /\ o \in Sides /\ game.succ[s][i] \in SUBSET Index
      /\ game.ext[s][i] \in SUBSET Dtm
  BY <1>1, GameFacts
<1>7. U = {u[o][j] : j \in game.succ[s][i]} \cup game.ext[s][i]
  BY DEF SuccessorValues
<1>8. u[s][i] = BestValue(U) /\ U \in SUBSET Dtm
  BY <1>1, SuccessorValuesType DEF Consistent, ConsistentAt, ExpectedDtm
<1>9. Distance(u[s][i]) <= MaxWin
  BY DEF WithinRange, InRange
<1> HIDE DEF U, o
<1>10. CASE v \in InitialValues(s, i)
  <2>1. game.succ[s][i] = {}
    BY <1>1, <1>5, <1>10, InitialValueKinds
  <2>2. U = game.ext[s][i]
    BY <1>7, <2>1
  <2>3. v = BestValue(U)
    BY <1>1, <1>10, <2>1, <2>2, InitialCases
  <2> QED BY <1>5, <1>8, <1>9, <2>3 DEF Distance
<1>11. CASE LostIn(s, i, MaxWin)
  <2>1. /\ game.succ[s][i] # {}
        /\ \A j \in game.succ[s][i] : WinWithin(o, j, MaxWin)
        /\ \A x \in game.ext[s][i] : IsWin(x) /\ x <= MaxWin
        /\ \/ MaxWin \in game.ext[s][i]
           \/ \E j \in game.succ[s][i] : ~WinWithin(o, j, MaxWin - 1)
    BY <1>11 DEF LostIn, o
  <2>2. ASSUME NEW j \in game.succ[s][i]
        PROVE  /\ IsWin(u[o][j])
               /\ u[o][j] = MaxWin \/ WinWithin(o, j, MaxWin - 1)
    <3>1. j \in Index /\ t[o][j] = Replayed(records[o][j])
      BY <1>2, <1>6
    <3>2. PICK w \in records[o][j] : IsWin(w)
      BY <2>1 DEF WinWithin
    <3>3. t[o][j] \in records[o][j] /\ IsWin(t[o][j])
      BY <1>1, <1>6, <3>1, <3>2, ReplayedCases DEF HasWin
    <3>4. t[o][j] \in Nat /\ 0 < t[o][j] /\ t[o][j] <= MaxWin /\ t[o][j] # Draw
      BY <1>1, <1>6, <3>1, <3>3, RecordFacts DEF Draw
    <3>5. Distance(t[o][j]) <= MaxWin
      BY <3>4 DEF Distance
    <3>6. u[o][j] = t[o][j]
      BY <1>2, <1>3, <1>6, <3>1, <3>4, <3>5, RecordsDecide
    <3>7. t[o][j] # MaxWin => t[o][j] <= MaxWin - 1
      BY <1>5, <3>4
    <3> QED BY <3>3, <3>6, <3>7 DEF WinWithin
  <2>3. U # {} /\ \A x \in U : IsWin(x)
    BY <1>7, <2>1, <2>2
  <2>4. MaxWin \in U
    BY <1>7, <2>1, <2>2
  <2>5. PICK m \in U : BestValue(U) = -(m + 1) /\ \A x \in U : x <= m
    BY <1>8, <2>3, BestValueCases
  <2>6. m \in Int /\ MaxWin <= m
    BY <1>8, <2>4, <2>5, ParityOfDtm
  <2> QED BY <1>5, <1>8, <1>9, <2>5, <2>6 DEF Distance
<1>12. -v - 1 = MaxWin /\ ~IsWin(v)
  BY <1>5 DEF IsWin
<1> QED BY <1>1, <1>4, <1>5, <1>10, <1>11, <1>12 DEF RecordsSound

LEMMA TableOfType ==
  ASSUME game \in GameGraphs, NEW values \in [Deciding -> Dtm],
         WithinRange(TableOf(values))
  PROVE  TableOf(values) \in Tables
<1> SUFFICES ASSUME NEW side \in Sides, NEW i \in Index
             PROVE  TableOf(values)[side][i] \in Dtm
  BY DEF Tables, TableOf
<1>1. CASE <<side, i>> \in Deciding
  BY <1>1 DEF TableOf
<1>2. CASE <<side, i>> \notin Deciding
  <2> DEFINE V == game.ext[side][i]
  <2>1. V \in SUBSET Dtm
    BY GameFacts
  <2>2. TableOf(values)[side][i] = BestValue(V)
    BY <1>2 DEF TableOf
  <2>3. Distance(BestValue(V)) <= MaxWin
    BY <2>2 DEF WithinRange, InRange
  <2> HIDE DEF V
  <2>4. CASE \E x \in V : IsLoss(x)
    <3>1. PICK l \in V : IsLoss(l) /\ BestValue(V) = 1 - l
      BY <2>1, <2>4, BestValueCases
    <3>2. l \in Int /\ l <= 0 /\ (-l) % 2 = 0
      BY <2>1, <3>1, ParityOfDtm
    <3>3. 1 - l \in Nat /\ 1 - l <= MaxWin /\ (1 - l) % 2 = 1
      BY <2>3, <3>1, <3>2 DEF Distance
    <3> QED BY <2>2, <3>1, <3>2, <3>3, MaxWinAssumption DEF Dtm, MaxLoss
  <2>5. CASE V # {} /\ \A x \in V : IsWin(x)
    <3>1. PICK m \in V : BestValue(V) = -(m + 1)
      BY <2>1, <2>5, BestValueCases
    <3>2. m \in Nat /\ 0 < m /\ m <= MaxWin /\ m % 2 = 1
      BY <2>1, <2>5, <3>1, ParityOfDtm
    <3>3. (m + 1) % 2 = 0
      BY <3>2
    <3> QED BY <2>2, <3>1, <3>2, <3>3, MaxWinAssumption DEF Dtm, MaxLoss
  <2>6. CASE V = {} \/ (Draw \in V /\ \A x \in V : ~IsLoss(x))
    <3>1. BestValue(V) \in {0, Draw}
      BY <2>1, <2>6, BestValueCases
    <3> QED BY <2>2, <3>1, MaxWinAssumption DEF Dtm, MaxLoss, Draw
  <2> QED BY <2>1, <2>4, <2>5, <2>6, ParityOfDtm
<1> QED BY <1>1, <1>2

(* The generator gives up only when it must: some distance the game needs  *)
(* is beyond the ones that are backed up, at the start or in every         *)
(* consistent table; and what it does compile stays within them.           *)
THEOREM GivesUpCorrect == Spec => []GivesUpOnlyBeyondRange
<1>1. ConflictInv /\ SolutionInv /\ RangeInv => GivesUpOnlyBeyondRange
  <2> SUFFICES ASSUME ConflictInv, SolutionInv, RangeInv
               PROVE  GivesUpOnlyBeyondRange
    OBVIOUS
  <2>1. TypeOK /\ game \in GameGraphs /\ LayerParity /\ Exclusive /\ RecordsSound
    BY DEF ConflictInv, SolutionInv, TypeOK
  <2>2. CASE stage = "beyond"
    <3>1. CASE SomeInitialTooLong
      BY <2>1, <2>2, <3>1, TooLongBeyond DEF GivesUpOnlyBeyondRange
    <3>2. CASE SolvedRecords /\ HasRecord(records, MaxLoss)
      <4>1. Solved
        BY <2>1, <3>2 DEF Solved
      <4>2. ASSUME Solvable PROVE FALSE
        <5>1. PICK values \in [Deciding -> {v \in Dtm : InRange(v)}] :
                WithinRange(TableOf(values)) /\ Consistent(game, TableOf(values))
          BY <4>2 DEF Solvable
        <5>2. TableOf(values) \in Tables
          BY <2>1, <5>1, TableOfType
        <5> QED BY <3>2, <4>1, <5>1, <5>2, SolvedBeyond
      <4> QED BY <2>2, <4>2 DEF GivesUpOnlyBeyondRange
    <3> QED BY <2>2, <3>1, <3>2 DEF RangeInv, BeyondRecords
  <2>3. CASE stage = "done"
    <3> SUFFICES ASSUME NEW side \in Sides, NEW i \in Index
                 PROVE  Distance(table[side][i]) <= MaxWin
      BY <2>3 DEF GivesUpOnlyBeyondRange, WithinRange, InRange
    <3>1. layer.distance \in Nat /\ layer.distance <= MaxWin
      BY <2>1, LayerDistance
    <3>2. /\ table[side][i] = Replayed(records[side][i])
          /\ \A v \in records[side][i] : Distance(v) <= layer.distance
      BY <2>3 DEF SolutionInv, TableReplayed, RecordsBounded, Solving, Layering
    <3>3. table[side][i] = Draw \/ table[side][i] \in records[side][i]
      BY <2>1, <3>2, ReplayedCases
    <3>4. Distance(Draw) <= MaxWin
      BY MaxWinAssumption DEF Distance, Draw
    <3>5. CASE table[side][i] \in records[side][i]
      <4>1. Distance(table[side][i]) \in Nat
        BY <2>1, <3>5 DEF TypeOK, Dtm, Distance
      <4> QED BY <3>1, <3>2, <3>5, <4>1, MaxWinAssumption
    <3> QED BY <3>3, <3>4, <3>5
  <2> QED BY <2>2, <2>3 DEF GivesUpOnlyBeyondRange
<1> QED
  BY <1>1, ConflictInitially, ConflictStep, SolutionInitially, SolutionStep,
     RangeInitially, RangeStep, PTL DEF Spec
=============================================================================
