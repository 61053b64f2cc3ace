-------------------------- MODULE GameGraphProofs --------------------------
(***************************************************************************)
(* Facts about the values of a game, and the theorem that makes the        *)
(* verifier trustworthy: a game has at most one consistent table.          *)
(***************************************************************************)
EXTENDS GameGraph, WellFoundedInduction, TLAPS

(* Every non-empty set of naturals has a least element. *)
LEMMA LeastNatural ==
  ASSUME NEW T \in SUBSET Nat, T # {}
  PROVE  \E x \in T : \A y \in T : x <= y
<1> DEFINE R == {ss \in Nat \X Nat : ss[1] < ss[2]}
<1>1. IsWellFoundedOn(R, Nat)
  BY NatLessThanWellFounded DEF OpToRel
<1>2. PICK x \in T : \A y \in T : ~(<<y, x>> \in R)
  BY <1>1, WFMin
<1>3. ASSUME NEW y \in T PROVE x <= y
  <2>1. <<y, x>> \notin R /\ x \in Nat /\ y \in Nat
    BY <1>2
  <2> QED BY <2>1
<1> QED BY <1>3

(* Max returns the largest of a set of DTM values. *)
LEMMA MaxOfValues ==
  ASSUME NEW V \in SUBSET Dtm, V # {}
  PROVE  Max(V) \in V /\ \A v \in V : v <= Max(V)
<1> DEFINE T == {MaxWin - v : v \in V}
<1>1. V \subseteq Int /\ MaxWin \in Int /\ \A v \in V : v <= MaxWin
  BY MaxWinAssumption DEF Dtm, MaxLoss
<1>a. T \subseteq Nat
  BY <1>1
<1>b. T # {}
  OBVIOUS
<1>2. T \in SUBSET Nat /\ T # {}
  BY <1>a, <1>b
<1>3. PICK x \in T : \A y \in T : x <= y
  BY <1>2, LeastNatural
<1>4. PICK m \in V : x = MaxWin - m
  BY <1>3
<1>5. \A v \in V : m >= v
  BY <1>1, <1>3, <1>4
<1> QED BY <1>1, <1>4, <1>5 DEF Max

(* The kinds of a value, and their parities. *)
LEMMA ParityOfDtm ==
  ASSUME NEW v \in Dtm
  PROVE  /\ v \in Int
         /\ IsWin(v)  => v \in Nat /\ 0 < v /\ v <= MaxWin /\ v % 2 = 1
         /\ IsLoss(v) => -v \in Nat /\ (-v) % 2 = 0 /\ v <= 0 /\ -v <= MaxLoss /\ v # Draw
         /\ IsWin(v) \/ IsLoss(v) \/ v = Draw
         /\ ~(IsWin(v) /\ IsLoss(v))
BY MaxWinAssumption DEF Dtm, IsWin, IsLoss, Draw, MaxLoss

LEMMA SidesAndOpposite ==
  ASSUME NEW side \in Sides
  PROVE  /\ Opposite(side) \in Sides
         /\ Opposite(Opposite(side)) = side
         /\ Opposite(side) # side
BY DEF Sides, Opposite

LEMMA SuccessorValuesType ==
  ASSUME NEW g \in GameGraphs, NEW t \in Tables, NEW side \in Sides, NEW i \in Index
  PROVE  SuccessorValues(g, t, side, i) \in SUBSET Dtm
<1>1. g.succ[side][i] \in SUBSET Index /\ g.ext[side][i] \in SUBSET Dtm
  BY DEF GameGraphs
<1> QED BY <1>1, SidesAndOpposite DEF SuccessorValues, Tables

(* The four ways a position can get its value. *)
LEMMA BestValueCases ==
  ASSUME NEW V \in SUBSET Dtm
  PROVE  /\ V = {} => BestValue(V) = 0
         /\ (\E v \in V : IsLoss(v)) =>
              \E l \in V : /\ IsLoss(l) /\ BestValue(V) = 1 - l
                           /\ \A v \in V : IsLoss(v) => v <= l
         /\ (V # {} /\ Draw \in V /\ \A v \in V : ~IsLoss(v)) => BestValue(V) = Draw
         /\ (V # {} /\ \A v \in V : IsWin(v)) =>
              \E m \in V : BestValue(V) = -(m + 1) /\ \A v \in V : v <= m
<1>1. CASE \E v \in V : IsLoss(v)
  <2> DEFINE L == {v \in V : IsLoss(v)}
  <2>1. Max(L) \in L /\ \A v \in L : v <= Max(L)
    BY <1>1, MaxOfValues
  <2>2. BestValue(V) = 1 - Max(L)
    BY <1>1 DEF BestValue
  <2>3. V \subseteq Int
    BY DEF Dtm
  <2>4. \E v \in V : ~IsWin(v)
    BY <1>1, <2>3 DEF IsLoss, IsWin
  <2> QED BY <1>1, <2>1, <2>2, <2>4
<1>2. CASE V # {} /\ Draw \notin V /\ ~ \E v \in V : IsLoss(v)
  <2>1. Max(V) \in V /\ \A v \in V : v <= Max(V)
    BY <1>2, MaxOfValues
  <2> QED BY <1>2, <2>1 DEF BestValue
<1>3. CASE V = {}
  BY <1>3 DEF BestValue
<1>4. CASE Draw \in V /\ ~ \E v \in V : IsLoss(v)
  BY <1>4 DEF BestValue, IsWin, Draw
<1> QED BY <1>1, <1>2, <1>3, <1>4

-----------------------------------------------------------------------------
(* The decided values of distance below n are the same in both tables. *)
AgreeBelow(t, u, n) ==
  \A side \in Sides, i \in Index :
    \/ t[side][i] # Draw /\ Distance(t[side][i]) < n
    \/ u[side][i] # Draw /\ Distance(u[side][i]) < n
    => t[side][i] = u[side][i]

LEMMA SuccessorsAgree ==
  ASSUME NEW g \in GameGraphs, NEW t \in Tables, NEW u \in Tables, NEW n \in Nat,
         AgreeBelow(t, u, n), NEW side \in Sides, NEW i \in Index,
         NEW V, V = SuccessorValues(g, t, side, i),
         NEW U, U = SuccessorValues(g, u, side, i)
  PROVE  /\ V = {} <=> U = {}
         /\ \A x \in V : x # Draw /\ Distance(x) < n => x \in U
         /\ \A x \in U : x # Draw /\ Distance(x) < n => x \in V
         /\ (\A x \in V : x # Draw /\ Distance(x) < n) => U = V
<1> DEFINE o == Opposite(side)
<1>1. o \in Sides /\ g.succ[side][i] \in SUBSET Index
  BY SidesAndOpposite DEF GameGraphs
<1>2. V = {t[o][j] : j \in g.succ[side][i]} \cup g.ext[side][i]
  BY DEF SuccessorValues
<1>3. U = {u[o][j] : j \in g.succ[side][i]} \cup g.ext[side][i]
  BY DEF SuccessorValues
<1>4. \A j \in g.succ[side][i] :
        \/ t[o][j] # Draw /\ Distance(t[o][j]) < n
        \/ u[o][j] # Draw /\ Distance(u[o][j]) < n
        => t[o][j] = u[o][j]
  BY <1>1 DEF AgreeBelow
<1> HIDE DEF o
<1> QED BY <1>2, <1>3, <1>4

(* A value is decided by values of smaller distance only.                  *)
LEMMA BestAgree ==
  ASSUME NEW n \in Nat, NEW V \in SUBSET Dtm, NEW U \in SUBSET Dtm,
         V = {} <=> U = {},
         \A x \in V : x # Draw /\ Distance(x) < n => x \in U,
         \A x \in U : x # Draw /\ Distance(x) < n => x \in V,
         (\A x \in V : x # Draw /\ Distance(x) < n) => U = V,
         BestValue(V) # Draw, Distance(BestValue(V)) <= n
  PROVE  BestValue(U) = BestValue(V)
<1>1. \A x \in V \cup U : x \in Int
  BY DEF Dtm
<1>2. CASE V = {}
  BY <1>2
<1>3. CASE \E x \in V : IsLoss(x)
  <2>1. PICK l \in V : /\ IsLoss(l) /\ BestValue(V) = 1 - l
                       /\ \A x \in V : IsLoss(x) => x <= l
    BY <1>3, BestValueCases
  <2>2. l \in Int /\ l # Draw /\ l <= 0 /\ Distance(l) < n
    BY <1>1, <2>1 DEF IsLoss, Distance
  <2>3. l \in U
    BY <2>2
  <2>4. PICK k \in U : /\ IsLoss(k) /\ BestValue(U) = 1 - k
                       /\ \A x \in U : IsLoss(x) => x <= k
    BY <2>1, <2>3, BestValueCases
  <2>5. l <= k /\ k \in Int
    BY <1>1, <2>1, <2>3, <2>4
  <2>6. k # Draw /\ k <= 0
    BY <2>4 DEF IsLoss
  <2>7. Distance(k) < n
    BY <2>2, <2>5, <2>6 DEF Distance
  <2>8. k \in V
    BY <2>6, <2>7
  <2>9. k <= l
    BY <2>1, <2>4, <2>8
  <2> QED BY <2>1, <2>2, <2>4, <2>5, <2>9
<1>4. CASE V # {} /\ Draw \in V /\ \A x \in V : ~IsLoss(x)
  BY <1>4, BestValueCases
<1>5. CASE V # {} /\ Draw \notin V /\ \A x \in V : ~IsLoss(x)
  <2>1. \A x \in V : IsWin(x)
    BY <1>1, <1>5 DEF IsLoss, IsWin
  <2>2. PICK m \in V : BestValue(V) = -(m + 1) /\ \A x \in V : x <= m
    BY <1>5, <2>1, BestValueCases
  <2>3. m \in Int /\ m + 1 <= n
    BY <1>1, <2>1, <2>2 DEF IsWin, Distance
  <2>4. \A x \in V : x # Draw /\ Distance(x) < n
    BY <1>1, <2>1, <2>2, <2>3 DEF IsWin, Distance, Draw
  <2> QED BY <2>4
<1> QED BY <1>2, <1>3, <1>4, <1>5

(* Two tables that agree below n give a position the same value, if it is  *)
(* no longer than n.                                                       *)
LEMMA ExpectedAgree ==
  ASSUME NEW g \in GameGraphs, NEW t \in Tables, NEW u \in Tables, NEW n \in Nat,
         AgreeBelow(t, u, n), NEW side \in Sides, NEW i \in Index,
         ExpectedDtm(g, t, side, i) # Draw, Distance(ExpectedDtm(g, t, side, i)) <= n
  PROVE  ExpectedDtm(g, u, side, i) = ExpectedDtm(g, t, side, i)
<1>1. PICK V \in SUBSET Dtm : V = SuccessorValues(g, t, side, i)
  BY SuccessorValuesType
<1>2. PICK U \in SUBSET Dtm : U = SuccessorValues(g, u, side, i)
  BY SuccessorValuesType
<1>3. /\ V = {} <=> U = {}
      /\ \A x \in V : x # Draw /\ Distance(x) < n => x \in U
      /\ \A x \in U : x # Draw /\ Distance(x) < n => x \in V
      /\ (\A x \in V : x # Draw /\ Distance(x) < n) => U = V
  BY <1>1, <1>2, SuccessorsAgree
<1>4. /\ ExpectedDtm(g, t, side, i) = BestValue(V)
      /\ ExpectedDtm(g, u, side, i) = BestValue(U)
  BY <1>1, <1>2 DEF ExpectedDtm
<1> QED BY <1>3, <1>4, BestAgree

(* So two tables that agree below n agree at an entry of distance n that   *)
(* is consistent in both.                                                  *)
LEMMA AgreeAt ==
  ASSUME NEW g \in GameGraphs, NEW t \in Tables, NEW u \in Tables, NEW n \in Nat,
         NEW side \in Sides, NEW i \in Index,
         ConsistentAt(g, t, side, i), ConsistentAt(g, u, side, i), AgreeBelow(t, u, n),
         t[side][i] # Draw, Distance(t[side][i]) = n
  PROVE  t[side][i] = u[side][i]
BY ExpectedAgree DEF ConsistentAt

(* A game has at most one consistent table: a database every entry of      *)
(* which passes the verifier's local check (expected_dtm) holds the true   *)
(* distances, whatever produced it.                                        *)
THEOREM UniqueTable ==
  ASSUME NEW g \in GameGraphs, NEW t \in Tables, NEW u \in Tables,
         Consistent(g, t), Consistent(g, u)
  PROVE  t = u
<1> DEFINE Differ(side, i) == t[side][i] # u[side][i]
           Decided(x, n) == x # Draw /\ Distance(x) = n
           T == {n \in Nat : \E side \in Sides, i \in Index :
                    /\ Differ(side, i)
                    /\ Decided(t[side][i], n) \/ Decided(u[side][i], n)}
<1>1. SUFFICES ASSUME NEW side \in Sides, NEW i \in Index, Differ(side, i)
               PROVE  FALSE
  BY DEF Tables
<1>2. \A s \in Sides, j \in Index :
        /\ t[s][j] \in Int /\ Distance(t[s][j]) \in Nat
        /\ u[s][j] \in Int /\ Distance(u[s][j]) \in Nat
  BY DEF Tables, Dtm, Distance
<1>3. T # {}
  <2>1. CASE t[side][i] # Draw
    <3>1. Distance(t[side][i]) \in T
      BY <1>1, <1>2, <2>1
    <3> QED BY <3>1
  <2>2. CASE u[side][i] # Draw
    <3>1. Distance(u[side][i]) \in T
      BY <1>1, <1>2, <2>2
    <3> QED BY <3>1
  <2> QED BY <1>1, <2>1, <2>2
<1>4. PICK n \in T : \A k \in T : n <= k
  BY <1>3, LeastNatural
<1>5. PICK s \in Sides, j \in Index :
        Differ(s, j) /\ (Decided(t[s][j], n) \/ Decided(u[s][j], n))
  BY <1>4
<1>6. AgreeBelow(t, u, n) /\ AgreeBelow(u, t, n)
  <2>1. ASSUME NEW r \in Sides, NEW p \in Index, Differ(r, p),
               \/ t[r][p] # Draw /\ Distance(t[r][p]) < n
               \/ u[r][p] # Draw /\ Distance(u[r][p]) < n
        PROVE  FALSE
    <3>1. CASE t[r][p] # Draw /\ Distance(t[r][p]) < n
      <4>1. Distance(t[r][p]) \in T
        BY <1>2, <2>1, <3>1
      <4> QED BY <1>2, <1>4, <3>1, <4>1
    <3>2. CASE u[r][p] # Draw /\ Distance(u[r][p]) < n
      <4>1. Distance(u[r][p]) \in T
        BY <1>2, <2>1, <3>2
      <4> QED BY <1>2, <1>4, <3>2, <4>1
    <3> QED BY <2>1, <3>1, <3>2
  <2> QED BY <2>1 DEF AgreeBelow
<1>7. n \in Nat
  OBVIOUS
<1>8. t[s][j] = u[s][j]
  BY <1>5, <1>6, <1>7, AgreeAt DEF Consistent
<1> QED BY <1>5, <1>8

=============================================================================
