---------------------------- MODULE WorkersProofs ----------------------------
(***************************************************************************)
(* What parallel workers share, for every number of workers and positions  *)
(* and every size of words and pages: no worker undoes another's bit, a    *)
(* new bit is new for exactly one of them, each candidate is handed out    *)
(* once, the longest distance of the streams is never lowered, the streams *)
(* give back what was appended, slices that are merged to the end are      *)
(* merged exactly, and right ones are never refused.                       *)
(***************************************************************************)
EXTENDS FrontierStore, CandidateBitmap, SliceMerge, FiniteSetTheorems, SequenceTheorems, WellFoundedInduction, TLAPS

(* Every non-empty set of naturals has a least element. *)
LEMMA LeastNatural ==
  ASSUME NEW T \in SUBSET Nat, T # {}
  PROVE  \E x \in T : \A y \in T : x <= y
<1> DEFINE R == {ss \in Nat \X Nat : ss[1] < ss[2]}
<1>1. IsWellFoundedOn(R, Nat)
  BY NatLessThanWellFounded DEF OpToRel
<1>2. PICK x \in T : \A y \in T : ~(<<y, x>> \in R)
  BY <1>1, WFMin
<1>3. ASSUME NEW y \in T PROVE x <= y
  <2>1. <<y, x>> \notin R /\ x \in Nat /\ y \in Nat
    BY <1>2
  <2> QED BY <2>1
<1> QED BY <1>2, <1>3

LEMMA MinFacts ==
  ASSUME NEW T \in SUBSET Nat, T # {}
  PROVE  Min(T) \in T /\ \A y \in T : Min(T) <= y
BY LeastNatural DEF Min

-----------------------------------------------------------------------------
(***************************************************************************)
(* Words and ranges.                                                       *)
(***************************************************************************)
LEMMA DivFacts ==
  ASSUME NEW a \in Nat, NEW b \in Nat \ {0}
  PROVE  /\ a \div b \in Nat /\ a % b \in 0 .. b - 1
         /\ a = (a \div b) * b + (a % b)
OBVIOUS

(* A position is a bit of a word, and of only one. *)
LEMMA WordFacts ==
  ASSUME NEW i \in Nat
  PROVE  /\ WordOf(i) \in Nat /\ i % WordBits \in Bit
         /\ i = WordOf(i) * WordBits + (i % WordBits)
         /\ i \in Index => WordOf(i) \in Word
<1>1. WordBits \in Nat \ {0} /\ Positions \in Nat \ {0}
  BY PartitionAssumption
<1>2. /\ WordOf(i) \in Nat /\ i % WordBits \in Bit
      /\ i = WordOf(i) * WordBits + (i % WordBits)
  BY <1>1, DivFacts DEF WordOf, Bit
<1>3. ASSUME i \in Index PROVE WordOf(i) \in Word
  <2>1. i <= Positions - 1 /\ Positions - 1 \in Nat
    BY <1>1, <1>3 DEF Index
  <2>2. WordOf(i) <= WordOf(Positions - 1) /\ WordOf(Positions - 1) \in Nat
    BY <1>1, <2>1 DEF WordOf
  <2> QED BY <1>2, <2>2 DEF Word
<1> QED BY <1>2, <1>3

LEMMA BitFacts ==
  ASSUME NEW x \in Nat, NEW k \in Bit
  PROVE  /\ x * WordBits + k \in Nat
         /\ WordOf(x * WordBits + k) = x /\ (x * WordBits + k) % WordBits = k
BY PartitionAssumption DEF WordOf, Bit

(* A range begins with a word, or is empty and at the end. *)
LEMMA FirstIndexFacts ==
  /\ FirstIndex(0) = 0 /\ FirstIndex(ThreadCount) = Positions
  /\ \A w \in 0 .. ThreadCount :
       /\ FirstIndex(w) \in 0 .. Positions
       /\ FirstIndex(w) = Positions \/ \E x \in Nat : FirstIndex(w) = x * WordBits
  /\ \A v, w \in 0 .. ThreadCount : v <= w => FirstIndex(v) <= FirstIndex(w)
<1> DEFINE q == PageCount \div ThreadCount
           r == PageCount % ThreadCount
           less(w) == IF w < r THEN w ELSE r
<1>1. /\ ThreadCount \in Nat \ {0} /\ WordBits \in Nat \ {0} /\ Positions \in Nat \ {0}
      /\ PageWords \in Nat \ {0}
  BY PartitionAssumption
<1>2. PagePositions \in Nat \ {0} /\ PagePositions = PageWords * WordBits
  BY <1>1 DEF PagePositions
<1>3. PageCount \in Nat /\ PageCount * PagePositions >= Positions
  <2> DEFINE all == Positions + PagePositions - 1
  <2>1. all \in Nat /\ all >= Positions
    BY <1>1, <1>2
  <2>2. PageCount = all \div PagePositions
    BY DEF PageCount
  <2> HIDE DEF all
  <2>3. /\ all \div PagePositions \in Nat /\ all % PagePositions \in 0 .. PagePositions - 1
        /\ all = (all \div PagePositions) * PagePositions + (all % PagePositions)
    BY <1>2, <2>1, DivFacts
  <2>4. PageCount \in Nat /\ PageCount * PagePositions > all - PagePositions
    BY <1>2, <2>1, <2>2, <2>3
  <2>5. all - PagePositions = Positions - 1
    BY <1>1, <1>2 DEF all
  <2>6. PageCount * PagePositions \in Nat
    BY <1>2, <2>4
  <2> QED BY <1>1, <2>4, <2>5, <2>6
<1>4. q \in Nat /\ r \in Nat /\ r < ThreadCount /\ PageCount = q * ThreadCount + r
  <2> HIDE DEF q, r
  <2>1. q \in Nat /\ r \in 0 .. ThreadCount - 1 /\ PageCount = q * ThreadCount + r
    BY <1>1, <1>3, DivFacts DEF q, r
  <2> QED BY <1>1, <2>1
<1>5. \A w : FirstPage(w) = w * q + less(w)
  BY DEF FirstPage
<1> HIDE DEF q, r
<1>6. ASSUME NEW w \in 0 .. ThreadCount PROVE FirstPage(w) \in Nat
  BY <1>1, <1>4, <1>5
<1>7. FirstPage(0) = 0 /\ FirstPage(ThreadCount) = PageCount
  BY <1>1, <1>4, <1>5
<1>8. ASSUME NEW v \in 0 .. ThreadCount, NEW w \in 0 .. ThreadCount, v <= w
      PROVE  FirstPage(v) <= FirstPage(w)
  <2>1. v * q <= w * q /\ v * q \in Nat /\ w * q \in Nat
    BY <1>1, <1>4, <1>8
  <2>2. less(v) <= less(w) /\ less(v) \in Nat /\ less(w) \in Nat
    BY <1>1, <1>4, <1>8
  <2>3. FirstPage(v) = v * q + less(v) /\ FirstPage(w) = w * q + less(w)
    BY <1>5
  <2> HIDE DEF less
  <2> QED BY <2>1, <2>2, <2>3
<1>9. ASSUME NEW w \in 0 .. ThreadCount
      PROVE  /\ FirstPage(w) * PagePositions \in Nat
             /\ FirstPage(w) * PagePositions = (FirstPage(w) * PageWords) * WordBits
             /\ FirstPage(w) * PageWords \in Nat
             /\ FirstIndex(w) = IF FirstPage(w) * PagePositions > Positions
                                  THEN Positions ELSE FirstPage(w) * PagePositions
  BY <1>1, <1>2, <1>6 DEF FirstIndex, AtMostAll
<1>10. ASSUME NEW w \in 0 .. ThreadCount
       PROVE  /\ FirstIndex(w) \in 0 .. Positions
              /\ FirstIndex(w) = Positions \/ \E x \in Nat : FirstIndex(w) = x * WordBits
  BY <1>1, <1>9
<1>11. ASSUME NEW v \in 0 .. ThreadCount, NEW w \in 0 .. ThreadCount, v <= w
       PROVE  FirstIndex(v) <= FirstIndex(w)
  <2>1. FirstPage(v) * PagePositions <= FirstPage(w) * PagePositions
    BY <1>2, <1>6, <1>8, <1>11
  <2> QED BY <1>1, <1>9, <2>1
<1>12. FirstIndex(0) = 0 /\ FirstIndex(ThreadCount) = Positions
  BY <1>1, <1>2, <1>3, <1>7, <1>9
<1> QED BY <1>10, <1>11, <1>12

(* Every position is in a range, and only in one; and so is every word.    *)
LEMMA RangeFacts ==
  /\ \A w \in Worker : /\ FirstIndex(w) \in 0 .. Positions /\ EndIndex(w) \in 0 .. Positions
                       /\ FirstIndex(w) <= EndIndex(w)
                       /\ RangeOf(w) \subseteq Index
  /\ \A i \in Index : \E w \in Worker : i \in RangeOf(w)
  /\ \A v, w \in Worker : \A i \in RangeOf(v), j \in RangeOf(w) :
       WordOf(i) = WordOf(j) => v = w
<1>1. ThreadCount \in Nat \ {0} /\ WordBits \in Nat \ {0} /\ Positions \in Nat \ {0}
  BY PartitionAssumption
<1>2. ASSUME NEW w \in Worker
      PROVE  /\ w \in 0 .. ThreadCount /\ w + 1 \in 0 .. ThreadCount
             /\ FirstIndex(w) \in 0 .. Positions /\ EndIndex(w) \in 0 .. Positions
             /\ FirstIndex(w) <= EndIndex(w)
             /\ RangeOf(w) \subseteq Index
  <2>1. w \in 0 .. ThreadCount /\ w + 1 \in 0 .. ThreadCount /\ w <= w + 1
    BY <1>1 DEF Worker
  <2>2. /\ FirstIndex(w) \in 0 .. Positions /\ EndIndex(w) \in 0 .. Positions
        /\ FirstIndex(w) <= EndIndex(w)
    BY <2>1, FirstIndexFacts DEF EndIndex
  <2> QED BY <1>1, <2>1, <2>2 DEF RangeOf, Index
<1>3. ASSUME NEW i \in Index PROVE \E w \in Worker : i \in RangeOf(w)
  <2> DEFINE T == {w \in 0 .. ThreadCount : i < FirstIndex(w)}
  <2>1. i \in Nat /\ i < Positions
    BY <1>1, <1>3 DEF Index
  <2>2. ThreadCount \in T /\ T \in SUBSET Nat
    BY <1>1, <2>1, FirstIndexFacts
  <2>3. PICK e \in T : \A y \in T : e <= y
    BY <2>2, LeastNatural
  <2>4. e # 0 /\ e - 1 \in 0 .. ThreadCount /\ e - 1 \notin T
    BY <1>1, <2>1, <2>3, FirstIndexFacts
  <2>5. e - 1 \in Worker /\ EndIndex(e - 1) = FirstIndex(e) /\ FirstIndex(e - 1) <= i
    <3>1. FirstIndex(e - 1) \in 0 .. Positions
      BY <2>4, FirstIndexFacts
    <3>2. (e - 1) + 1 = e
      BY <2>4
    <3> QED BY <1>1, <2>1, <2>3, <2>4, <3>1, <3>2 DEF Worker, EndIndex
  <2>6. i \in RangeOf(e - 1)
    BY <1>2, <2>1, <2>3, <2>5 DEF RangeOf
  <2> QED BY <2>5, <2>6
<1>4. ASSUME NEW v \in Worker, NEW w \in Worker, v < w,
             NEW i \in RangeOf(v), NEW j \in RangeOf(w)
      PROVE  WordOf(i) < WordOf(j)
  <2>1. /\ i \in Index /\ j \in Index /\ i < EndIndex(v) /\ FirstIndex(w) <= j
        /\ i \in Nat /\ j \in Nat /\ j < Positions
    BY <1>1, <1>2 DEF RangeOf, Index
  <2>2. EndIndex(v) <= FirstIndex(w)
    BY <1>2, <1>4, FirstIndexFacts DEF EndIndex, Worker
  <2>3. PICK x \in Nat : FirstIndex(w) = x * WordBits
    <3>1. FirstIndex(w) # Positions /\ w \in 0 .. ThreadCount
      BY <1>1, <1>2, <2>1
    <3> QED BY <3>1, FirstIndexFacts
  <2>4. i < x * WordBits /\ x * WordBits <= j
    BY <1>2, <2>1, <2>2, <2>3
  <2>5. WordOf(i) < x /\ x <= WordOf(j)
    BY <1>1, <2>1, <2>4 DEF WordOf
  <2> QED BY <2>1, <2>5, WordFacts
<1>5. ASSUME NEW v \in Worker, NEW w \in Worker, NEW i \in RangeOf(v), NEW j \in RangeOf(w),
             WordOf(i) = WordOf(j)
      PROVE  v = w
  <2>1. v < w \/ w < v \/ v = w
    BY DEF Worker
  <2>2. WordOf(i) \in Nat /\ WordOf(j) \in Nat
    BY <1>2, WordFacts DEF Index
  <2> QED BY <1>4, <1>5, <2>1, <2>2
<1> QED BY <1>2, <1>3, <1>5

-----------------------------------------------------------------------------
(***************************************************************************)
(* Bitmaps.                                                                *)
(***************************************************************************)
LEMMA BitsFacts ==
  ASSUME NEW b \in [Word -> SUBSET Bit]
  PROVE  /\ Bits(b) \subseteq Index /\ IsFiniteSet(Bits(b))
         /\ \A i \in Index : i \in Bits(b) <=> i % WordBits \in b[WordOf(i)]
<1>1. Bits(b) \subseteq Index
  BY DEF Bits
<1>2. IsFiniteSet(Index)
  BY FS_Interval, PartitionAssumption DEF Index
<1> QED BY <1>1, <1>2, FS_Subset DEF Bits

(* Setting a bit in its word sets that bit and no other. *)
LEMMA SetBit ==
  ASSUME NEW b \in [Word -> SUBSET Bit], NEW i \in Index
  PROVE  LET c == [b EXCEPT ![WordOf(i)] = @ \cup {i % WordBits}]
         IN  /\ c \in [Word -> SUBSET Bit]
             /\ Bits(c) = Bits(b) \cup {i}
<1> DEFINE c == [b EXCEPT ![WordOf(i)] = @ \cup {i % WordBits}]
<1>1. \A j \in Index : /\ j \in Nat /\ WordOf(j) \in Word /\ j % WordBits \in Bit
                       /\ j = WordOf(j) * WordBits + (j % WordBits)
  BY WordFacts DEF Index
<1>2. c \in [Word -> SUBSET Bit]
  BY <1>1
<1>3. ASSUME NEW j \in Index PROVE j \in Bits(c) <=> j \in Bits(b) \/ j = i
  <2>1. j \in Bits(c) <=> j % WordBits \in c[WordOf(j)]
    BY DEF Bits
  <2>2. j \in Bits(b) <=> j % WordBits \in b[WordOf(j)]
    BY DEF Bits
  <2>3. CASE WordOf(j) = WordOf(i)
    <3>1. c[WordOf(j)] = b[WordOf(j)] \cup {i % WordBits}
      BY <1>1, <2>3
    <3>2. j % WordBits = i % WordBits <=> j = i
      BY <1>1, <2>3
    <3> QED BY <2>1, <2>2, <3>1, <3>2
  <2>4. CASE WordOf(j) # WordOf(i)
    BY <1>1, <2>1, <2>2, <2>4
  <2> QED BY <2>3, <2>4
<1>4. Bits(c) \subseteq Index /\ Bits(b) \subseteq Index
  BY DEF Bits
<1> QED BY <1>2, <1>3, <1>4

(* bitmap_clear_range clears the bits of the range and no other. *)
LEMMA ClearedFacts ==
  ASSUME NEW b \in [Word -> SUBSET Bit], NEW first \in Nat, NEW end \in Nat
  PROVE  /\ Cleared(b, first, end) \in [Word -> SUBSET Bit]
         /\ Bits(Cleared(b, first, end)) = {i \in Bits(b) : i < first \/ i >= end}
<1>1. Cleared(b, first, end) \in [Word -> SUBSET Bit]
  BY DEF Cleared
<1>2. ASSUME NEW i \in Index
      PROVE  i \in Bits(Cleared(b, first, end)) <=> i \in Bits(b) /\ (i < first \/ i >= end)
  <2>1. WordOf(i) \in Word /\ i = WordOf(i) * WordBits + (i % WordBits)
    BY WordFacts DEF Index
  <2>2. Cleared(b, first, end)[WordOf(i)] =
          {k \in b[WordOf(i)] : WordOf(i) * WordBits + k < first \/ WordOf(i) * WordBits + k >= end}
    BY <2>1 DEF Cleared
  <2> QED BY <2>1, <2>2 DEF Bits
<1> QED BY <1>1, <1>2 DEF Bits

(* bitmap_find_next_range finds the first bit of the range. *)
LEMMA FindNextFacts ==
  ASSUME NEW b \in [Word -> SUBSET Bit], NEW first \in 0 .. Positions,
         NEW end \in 0 .. Positions, first <= end
  PROVE  /\ FindNext(b, first, end) \in first .. end
         /\ FindNext(b, first, end) < end => FindNext(b, first, end) \in Bits(b)
         /\ \A i \in Bits(b) : first <= i => FindNext(b, first, end) <= i \/ end <= i
<1> DEFINE masked(x) == IF x = WordOf(first) THEN {k \in b[x] : k >= first % WordBits} ELSE b[x]
           words == {x \in Word : WordOf(first) <= x /\ x * WordBits < end /\ masked(x) # {}}
           found == FirstBit(Min(words), masked(Min(words)))
<1>1. FindNext(b, first, end) = IF first >= end \/ words = {} \/ found >= end THEN end ELSE found
  BY DEF FindNext
<1>2. /\ WordBits \in Nat \ {0} /\ Positions \in Nat \ {0} /\ first \in Nat /\ end \in Nat
      /\ Word \subseteq Nat /\ Bit \subseteq Nat /\ Index \subseteq Nat
      /\ WordOf(first) \in Nat /\ first % WordBits \in Bit
      /\ first = WordOf(first) * WordBits + (first % WordBits)
  <2>1. WordBits \in Nat \ {0} /\ Positions \in Nat \ {0} /\ first \in Nat /\ end \in Nat
    BY PartitionAssumption
  <2>2. Word \subseteq Nat /\ Bit \subseteq Nat /\ Index \subseteq Nat
    BY DEF Word, Bit, Index
  <2> QED BY <2>1, <2>2, WordFacts
<1>3. \A x \in Word : masked(x) \subseteq Bit
  OBVIOUS
<1>4. ASSUME NEW i \in Bits(b), first <= i, i < end
      PROVE  /\ i \in Index /\ i \in Nat /\ WordOf(i) \in words
             /\ i % WordBits \in masked(WordOf(i))
             /\ i = WordOf(i) * WordBits + (i % WordBits)
  <2>1. /\ i \in Index /\ i \in Nat /\ i % WordBits \in b[WordOf(i)]
        /\ WordOf(i) \in Word /\ i = WordOf(i) * WordBits + (i % WordBits)
        /\ i % WordBits \in Bit /\ WordOf(i) \in Nat
    BY <1>2, WordFacts DEF Bits
  <2>2. WordOf(first) <= WordOf(i) /\ WordOf(i) * WordBits < end
    BY <1>2, <1>4, <2>1 DEF WordOf, Bit
  <2>3. WordOf(i) = WordOf(first) => first % WordBits <= i % WordBits
    BY <1>2, <1>4, <2>1 DEF Bit
  <2>4. i % WordBits \in masked(WordOf(i))
    BY <1>2, <2>1, <2>3
  <2> QED BY <2>1, <2>2, <2>4
<1>5. CASE first >= end \/ words = {}
  <2>1. FindNext(b, first, end) = end
    BY <1>1, <1>5
  <2>2. \A i \in Bits(b) : first <= i => end <= i
    <3>1. \A i \in Bits(b) : i \in Nat
      BY <1>2 DEF Bits
    <3> HIDE DEF words
    <3>2. ASSUME NEW i \in Bits(b), first <= i, i < end PROVE FALSE
      <4>1. WordOf(i) \in words
        BY <1>4, <3>2
      <4>2. first < end
        BY <1>2, <3>1, <3>2
      <4> QED BY <1>2, <1>5, <4>1, <4>2
    <3> QED BY <1>2, <3>1, <3>2
  <2> QED BY <1>2, <2>1, <2>2
<1>6. CASE first < end /\ words # {}
  <2> DEFINE x == Min(words)
             k == Min(masked(x))
  <2>1. x \in words /\ \A y \in words : x <= y
    BY <1>2, <1>6, MinFacts
  <2> HIDE DEF x
  <2>2. x \in Word /\ x \in Nat /\ WordOf(first) <= x /\ x * WordBits < end /\ masked(x) # {}
    BY <1>2, <2>1
  <2> HIDE DEF words
  <2>3. k \in masked(x) /\ \A y \in masked(x) : k <= y
    <3>1. masked(x) \subseteq Nat
      BY <1>2, <1>3, <2>2
    <3> HIDE DEF masked
    <3> QED BY <2>2, <3>1, MinFacts
  <2>4. found = x * WordBits + k
    BY DEF FirstBit, x
  <2> HIDE DEF k, found
  <2>5. k \in Bit /\ k \in b[x] /\ (x = WordOf(first) => k >= first % WordBits)
    BY <1>3, <2>2, <2>3
  <2>6. found \in Nat /\ WordOf(found) = x /\ found % WordBits = k
    BY <2>2, <2>4, <2>5, BitFacts
  <2>7. first <= found
    <3>1. CASE x = WordOf(first)
      BY <1>2, <2>2, <2>4, <2>5, <3>1 DEF Bit
    <3>2. CASE WordOf(first) < x
      <4>1. (WordOf(first) + 1) * WordBits <= x * WordBits
        BY <1>2, <2>2, <3>2
      <4>2. first < (WordOf(first) + 1) * WordBits
        BY <1>2 DEF Bit
      <4> QED BY <1>2, <2>2, <2>4, <2>5, <4>1, <4>2 DEF Bit
    <3>3. x \in Nat /\ WordOf(first) \in Nat /\ WordOf(first) <= x
      BY <1>2, <2>2
    <3>4. x = WordOf(first) \/ WordOf(first) < x
      BY <3>3
    <3> QED BY <3>1, <3>2, <3>4
  <2>8. found < end => found \in Bits(b)
    BY <1>2, <2>5, <2>6 DEF Bits, Index
  <2>9. ASSUME NEW i \in Bits(b), first <= i, i < end PROVE found <= i
    <3>1. /\ i \in Nat /\ WordOf(i) \in words /\ i % WordBits \in masked(WordOf(i))
          /\ i = WordOf(i) * WordBits + (i % WordBits)
      BY <1>4, <2>9
    <3>2. x <= WordOf(i) /\ WordOf(i) \in Nat /\ i % WordBits \in Bit
      BY <2>1, <3>1, WordFacts
    <3>3. CASE x = WordOf(i)
      BY <1>2, <2>2, <2>3, <2>4, <2>5, <3>1, <3>2, <3>3 DEF Bit
    <3>4. CASE x < WordOf(i)
      <4>1. (x + 1) * WordBits <= WordOf(i) * WordBits
        BY <1>2, <2>2, <3>2, <3>4
      <4>2. found < (x + 1) * WordBits
        BY <1>2, <2>2, <2>4, <2>5 DEF Bit
      <4>3. /\ WordOf(i) * WordBits \in Nat /\ (x + 1) * WordBits \in Nat
            /\ i % WordBits \in Nat
        BY <1>2, <2>2, <3>2 DEF Bit
      <4>4. WordOf(i) * WordBits <= i
        BY <3>1, <4>3
      <4> QED BY <2>6, <3>1, <4>1, <4>2, <4>3, <4>4
    <3> QED BY <2>2, <3>2, <3>3, <3>4
  <2>10. FindNext(b, first, end) = IF found >= end THEN end ELSE found
    BY <1>1, <1>2, <1>6
  <2>11. \A i \in Bits(b) : i \in Nat
    BY <1>2 DEF Bits
  <2> QED BY <1>2, <2>6, <2>7, <2>8, <2>9, <2>10, <2>11
<1> QED BY <1>2, <1>5, <1>6

-----------------------------------------------------------------------------
(***************************************************************************)
(* The counters of the workers, added up in turn.                          *)
(***************************************************************************)
LEMMA AddedDefined ==
  ASSUME NEW f \in [Worker -> Nat]
  PROVE  Added(f) = [n \in 0 .. ThreadCount |->
                       IF n = 0 THEN 0 ELSE Added(f)[n - 1] + f[n - 1]]
<1> DEFINE Part(n, g) == /\ g \in [0 .. n -> Nat] /\ g[0] = 0
                         /\ \A k \in 1 .. n : g[k] = g[k - 1] + f[k - 1]
           Without == {n \in 0 .. ThreadCount : ~\E g : Part(n, g)}
<1>1. ThreadCount \in Nat \ {0} /\ \A n \in 1 .. ThreadCount : f[n - 1] \in Nat
  BY PartitionAssumption DEF Worker
<1>2. Without = {}
  <2> SUFFICES ASSUME Without # {} PROVE FALSE
    OBVIOUS
  <2>1. PICK m \in Without : \A y \in Without : m <= y
    <3>1. Without \in SUBSET Nat
      OBVIOUS
    <3> HIDE DEF Without
    <3> QED BY <3>1, LeastNatural
  <2>2. m # 0
    <3>1. Part(0, [k \in 0 .. 0 |-> 0])
      OBVIOUS
    <3> QED BY <2>1, <3>1
  <2>3. m - 1 \in 0 .. ThreadCount /\ m \in 1 .. ThreadCount /\ m - 1 \notin Without
    <3> HIDE DEF Part
    <3>1. m \in 0 .. ThreadCount
      OBVIOUS
    <3> HIDE DEF Without
    <3> QED BY <1>1, <2>1, <2>2, <3>1
  <2>4. PICK g : Part(m - 1, g)
    BY <2>3
  <2>5. Part(m, [k \in 0 .. m |-> IF k = m THEN g[m - 1] + f[m - 1] ELSE g[k]])
    BY <1>1, <2>3, <2>4
  <2> QED BY <2>1, <2>5
<1>3. PICK g : Part(ThreadCount, g)
  <2>1. ThreadCount \in 0 .. ThreadCount
    BY <1>1
  <2>2. ThreadCount \notin Without
    BY ONLY <1>2
  <2> QED BY ONLY <2>1, <2>2
<1>4. g = [n \in 0 .. ThreadCount |-> IF n = 0 THEN 0 ELSE g[n - 1] + f[n - 1]]
  BY <1>1, <1>3
<1>5. Added(f) = CHOOSE h : h = [n \in 0 .. ThreadCount |-> IF n = 0 THEN 0 ELSE h[n - 1] + f[n - 1]]
  BY DEF Added
<1> QED BY <1>4, <1>5

LEMMA AddedFacts ==
  ASSUME NEW f \in [Worker -> Nat]
  PROVE  /\ Added(f)[0] = 0
         /\ \A n \in 1 .. ThreadCount : Added(f)[n] = Added(f)[n - 1] + f[n - 1]
BY AddedDefined, PartitionAssumption

(* A counter that goes up by d takes the total up by d. *)
LEMMA AddedStep ==
  ASSUME NEW f \in [Worker -> Nat], NEW w \in Worker, NEW d \in {0, 1}
  PROVE  LET h == [f EXCEPT ![w] = @ + d]
         IN  /\ h \in [Worker -> Nat]
             /\ Added(f)[ThreadCount] \in Nat
             /\ Added(h)[ThreadCount] = Added(f)[ThreadCount] + d
<1> DEFINE h == [f EXCEPT ![w] = @ + d]
           Wrong == {n \in 0 .. ThreadCount :
                       ~(/\ Added(f)[n] \in Nat
                         /\ Added(h)[n] = Added(f)[n] + (IF w < n THEN d ELSE 0))}
<1>1. ThreadCount \in Nat \ {0} /\ w \in 0 .. ThreadCount - 1 /\ h \in [Worker -> Nat]
  BY PartitionAssumption DEF Worker
<1>2. Wrong = {}
  <2> SUFFICES ASSUME Wrong # {} PROVE FALSE
    OBVIOUS
  <2>1. PICK m \in Wrong : \A y \in Wrong : m <= y
    <3>1. Wrong \in SUBSET Nat
      OBVIOUS
    <3> HIDE DEF Wrong
    <3> QED BY <3>1, LeastNatural
  <2> HIDE DEF h
  <2>2. m # 0
    BY <1>1, <2>1, AddedFacts
  <2>3. /\ m - 1 \in 0 .. ThreadCount /\ m \in 1 .. ThreadCount /\ m - 1 \notin Wrong
        /\ m - 1 \in Worker
    <3>1. m \in 0 .. ThreadCount /\ ThreadCount \in Nat
      BY <1>1, <2>1
    <3>2. /\ m - 1 \in 0 .. ThreadCount /\ m \in 1 .. ThreadCount
          /\ ~(m <= m - 1) /\ m - 1 \in 0 .. ThreadCount - 1
      BY ONLY <2>2, <3>1
    <3> HIDE DEF Wrong
    <3> QED BY <2>1, <3>2 DEF Worker
  <2>4. /\ Added(f)[m] = Added(f)[m - 1] + f[m - 1]
        /\ Added(h)[m] = Added(h)[m - 1] + h[m - 1]
    BY <1>1, <2>3, AddedFacts
  <2>5. h[m - 1] = IF m - 1 = w THEN f[w] + d ELSE f[m - 1]
    BY <2>3 DEF h
  <2>6. f[m - 1] \in Nat /\ f[w] \in Nat
    BY <2>3
  <2>7. /\ Added(f)[m - 1] \in Nat
        /\ Added(h)[m - 1] = Added(f)[m - 1] + (IF w < m - 1 THEN d ELSE 0)
    BY <2>3
  <2> QED BY <1>1, <2>1, <2>3, <2>4, <2>5, <2>6, <2>7
<1>3. ThreadCount \notin Wrong
  BY <1>2
<1> QED BY <1>1, <1>3

LEMMA AddedZero ==
  ASSUME NEW f \in [Worker -> Nat], \A w \in Worker : f[w] = 0
  PROVE  Added(f)[ThreadCount] = 0
<1> DEFINE Wrong == {n \in 0 .. ThreadCount : Added(f)[n] # 0}
<1>1. ThreadCount \in Nat \ {0}
  BY PartitionAssumption
<1>2. Wrong = {}
  <2> SUFFICES ASSUME Wrong # {} PROVE FALSE
    OBVIOUS
  <2>1. PICK m \in Wrong : \A y \in Wrong : m <= y
    <3>1. Wrong \in SUBSET Nat
      OBVIOUS
    <3> HIDE DEF Wrong
    <3> QED BY <3>1, LeastNatural
  <2>2. m # 0 /\ m \in 0 .. ThreadCount
    BY <2>1, AddedFacts
  <2>3. m \in 1 .. ThreadCount /\ m - 1 \in Worker /\ m - 1 \notin Wrong /\ m - 1 \in 0 .. ThreadCount
    BY <1>1, <2>1, <2>2 DEF Worker
  <2>4. Added(f)[m] = Added(f)[m - 1] + f[m - 1] /\ Added(f)[m - 1] = 0 /\ f[m - 1] = 0
    BY <2>3, AddedFacts
  <2> QED BY <2>1, <2>4
<1> QED BY <1>1, <1>2

-----------------------------------------------------------------------------
(***************************************************************************)
(* The steps of a layer.                                                   *)
(***************************************************************************)
LEMMA IndexFacts ==
  /\ Index \subseteq Nat /\ Index # {} /\ ~(Positions \in Index)
  /\ \A i \in Index : WordOf(i) \in Word /\ i % WordBits \in Bit /\ i \in 0 .. Positions
  /\ Worker # {} /\ 0 \in Index /\ ThreadCount - 1 \in Worker
<1>1. /\ Positions \in Nat \ {0} /\ ThreadCount \in Nat \ {0}
      /\ Index \subseteq Nat /\ 0 \in Index /\ ~(Positions \in Index)
      /\ 0 \in Worker /\ ThreadCount - 1 \in Worker
  BY PartitionAssumption DEF Index, Worker
<1>2. \A i \in Index : WordOf(i) \in Word /\ i % WordBits \in Bit /\ i \in 0 .. Positions
  BY <1>1, WordFacts DEF Index
<1> QED BY <1>1, <1>2

LEMMA WordsInitially == ASSUME BitmapInit PROVE WordsInv
<1>1. /\ candidates = [x \in Word |-> {}] /\ result = [x \in Word |-> {}]
      /\ stage = "idle" /\ settled = {} /\ wanted = {}
      /\ sources = [w \in Worker |-> {}] /\ marks = [w \in Worker |-> {}]
      /\ fresh = [w \in Worker |-> 0]
      /\ loaded = [w \in Worker |-> [index |-> Positions, bits |-> {}]]
      /\ cursor = [w \in Worker |-> FirstIndex(w)]
  BY DEF BitmapInit, BitmapsFrom, Empty, NoWord
<1>2. cursor \in [Worker -> Nat]
  BY <1>1, RangeFacts
<1>3. Positions \in 0 .. Positions
  BY PartitionAssumption
<1> QED BY <1>1, <1>2, <1>3 DEF WordsInv

LEMMA WordsStep ==
  ASSUME WordsInv, SettledInv, [BitmapNext]_bitmapVars
  PROVE  WordsInv'
<1>1. CASE StartLayer
  <2>1. PICK S \in Sources : /\ sources' = [w \in Worker |-> S \cap RangeOf(w)]
                             /\ settled' = settled \cup S
    BY <1>1 DEF StartLayer
  <2>2. S \subseteq Index /\ marks' \in [Worker -> SUBSET Index]
    BY <1>1, BitmapAssumption DEF StartLayer
  <2>3. sources' \in [Worker -> SUBSET Index] /\ settled' \subseteq Index
    BY <2>1, <2>2 DEF WordsInv
  <2>4. wanted' \subseteq Index
    BY <1>1, <2>2 DEF StartLayer
  <2> QED BY <1>1, <2>2, <2>3, <2>4 DEF StartLayer, WordsInv
<1>2. ASSUME NEW w \in Worker, Load(w) PROVE WordsInv'
  <2>1. Min(sources[w]) \in sources[w] /\ sources[w] \subseteq Index
    BY <1>2, MinFacts, IndexFacts DEF Load, WordsInv
  <2>2. /\ Min(sources[w]) \in Index /\ WordOf(Min(sources[w])) \in Word
        /\ Min(sources[w]) \in 0 .. Positions
    BY <2>1, IndexFacts
  <2>3. sources' \in [Worker -> SUBSET Index]
    BY <1>2, <2>2 DEF Load, WordsInv
  <2>4. loaded' \in [Worker -> [index : 0 .. Positions, bits : SUBSET Bit]]
    BY <1>2, <2>2 DEF Load, WordsInv
  <2> QED BY <1>2, <2>3, <2>4 DEF Load, WordsInv
<1>3. ASSUME NEW w \in Worker, Store(w) PROVE WordsInv'
  <2>1. loaded[w].index \in Index /\ loaded[w].bits \subseteq Bit
    BY <1>3 DEF Store, WordsInv, SettledInv
  <2>2. /\ WordOf(loaded[w].index) \in Word /\ loaded[w].index % WordBits \in Bit
    BY <2>1, IndexFacts
  <2>3. result' \in [Word -> SUBSET Bit]
    BY <1>3, <2>1, <2>2 DEF Store, WordsInv
  <2>4. sources' \in [Worker -> SUBSET Index]
    BY <1>3 DEF Store, WordsInv
  <2>5. loaded' \in [Worker -> [index : 0 .. Positions, bits : SUBSET Bit]]
    BY <1>3, IndexFacts, PartitionAssumption DEF Store, WordsInv, NoWord
  <2> QED BY <1>3, <2>3, <2>4, <2>5 DEF Store, WordsInv
<1>4. ASSUME NEW w \in Worker, Mark(w) PROVE WordsInv'
  <2>1. PICK i \in marks[w] :
          /\ marks' = [marks EXCEPT ![w] = @ \ {i}]
          /\ fresh' = [fresh EXCEPT ![w] =
               @ + (IF i % WordBits \in candidates[WordOf(i)] THEN 0 ELSE 1)]
          /\ candidates' = [candidates EXCEPT ![WordOf(i)] = @ \cup {i % WordBits}]
    BY <1>4 DEF Mark
  <2>2. i \in Index
    BY <1>4, <2>1 DEF WordsInv
  <2>3. WordOf(i) \in Word /\ i % WordBits \in Bit
    BY <2>2, IndexFacts
  <2>4. candidates' \in [Word -> SUBSET Bit]
    BY <2>1, <2>3 DEF WordsInv
  <2>5. fresh' \in [Worker -> Nat]
    BY <2>1 DEF WordsInv
  <2>6. marks' \in [Worker -> SUBSET Index]
    BY <2>1 DEF WordsInv
  <2> QED BY <1>4, <2>4, <2>5, <2>6 DEF Mark, WordsInv
<1>5. CASE JoinSources
  <2>1. cursor' \in [Worker -> Nat]
    BY <1>5, RangeFacts, PartitionAssumption DEF JoinSources
  <2> QED BY <1>5, <2>1 DEF JoinSources, WordsInv
<1>6. ASSUME NEW w \in Worker, Evaluate(w) PROVE WordsInv'
  <2>1. EndIndex(w) \in 0 .. Positions /\ cursor[w] \in Nat /\ cursor[w] <= EndIndex(w)
    BY <1>6, RangeFacts DEF Evaluate, Scanning, WordsInv
  <2>2. FindNext(candidates, cursor[w], EndIndex(w)) \in Nat
    <3>1. cursor[w] \in 0 .. Positions
      BY <2>1, PartitionAssumption
    <3>2. FindNext(candidates, cursor[w], EndIndex(w)) \in cursor[w] .. EndIndex(w)
      BY <2>1, <3>1, FindNextFacts DEF WordsInv
    <3> QED BY <2>1, <3>2
  <2>3. cursor' \in [Worker -> Nat]
    BY <1>6, <2>2 DEF Evaluate, WordsInv
  <2> QED BY <1>6, <2>3 DEF Evaluate, WordsInv
<1>7. ASSUME NEW w \in Worker, ClearRange(w) PROVE WordsInv'
  <2>1. EndIndex(w) \in Nat /\ FirstIndex(w) \in Nat
    BY RangeFacts
  <2>2. candidates' \in [Word -> SUBSET Bit]
    BY <1>7, <2>1, ClearedFacts DEF ClearRange, WordsInv
  <2>3. cursor' \in [Worker -> Nat]
    BY <1>7, <2>1 DEF ClearRange, WordsInv
  <2> QED BY <1>7, <2>2, <2>3 DEF ClearRange, WordsInv
<1>8. CASE JoinScan
  BY <1>8 DEF JoinScan, WordsInv
<1>9. CASE UNCHANGED bitmapVars
  BY <1>9 DEF bitmapVars, WordsInv
<1> QED BY <1>1, <1>2, <1>3, <1>4, <1>5, <1>6, <1>7, <1>8, <1>9 DEF BitmapNext

LEMMA SettledInitially == ASSUME BitmapInit PROVE SettledInv
BY DEF BitmapInit, BitmapsFrom, SettledInv, NoBitIsLost, NoWord

LEMMA SettledStep ==
  ASSUME WordsInv, SettledInv, [BitmapNext]_bitmapVars
  PROVE  SettledInv'
<1>1. CASE StartLayer
  <2>1. PICK S \in Sources : /\ sources' = [w \in Worker |-> S \cap RangeOf(w)]
                             /\ settled' = settled \cup S
    BY <1>1 DEF StartLayer
  <2>2. S \subseteq Index
    BY BitmapAssumption
  <2>3. /\ stage = "idle" /\ stage' = "sources" /\ result' = result /\ loaded' = loaded
        /\ \A w \in Worker : loaded[w] = NoWord /\ sources[w] = {}
    BY <1>1 DEF StartLayer, SettledInv
  <2>4. \A i \in settled : i \in Bits(result)
    BY <2>3 DEF SettledInv, NoBitIsLost
  <2>5. \A i \in S : \E w \in Worker : i \in sources'[w]
    BY <2>1, <2>2, RangeFacts
  <2>6. NoBitIsLost'
    BY <2>1, <2>3, <2>4, <2>5 DEF NoBitIsLost, Bits
  <2> QED BY <2>1, <2>3, <2>6 DEF SettledInv
<1>2. ASSUME NEW w \in Worker, Load(w) PROVE SettledInv'
  <2> DEFINE i == Min(sources[w])
  <2>1. i \in sources[w] /\ sources[w] \subseteq Index
    BY <1>2, MinFacts, IndexFacts DEF Load, WordsInv
  <2>2. /\ stage = "sources" /\ UNCHANGED <<stage, result, settled>> /\ loaded[w] = NoWord
        /\ sources \in [Worker -> SUBSET Index]
        /\ loaded \in [Worker -> [index : 0 .. Positions, bits : SUBSET Bit]]
    BY <1>2 DEF Load, WordsInv
  <2> HIDE DEF i
  <2>3. CASE i \in Bits(result)
    <3>1. sources' = [sources EXCEPT ![w] = @ \ {i}] /\ loaded' = loaded
      BY <1>2, <2>3 DEF Load, i
    <3>2. \A v \in Worker : sources'[v] = IF v = w THEN sources[v] \ {i} ELSE sources[v]
      BY <2>2, <3>1
    <3>3. NoBitIsLost'
      BY <2>2, <2>3, <3>2 DEF SettledInv, NoBitIsLost, Bits
    <3> QED BY <2>2, <3>1, <3>2, <3>3 DEF SettledInv
  <2>4. CASE i \notin Bits(result)
    <3>1. /\ sources' = sources
          /\ loaded' = [loaded EXCEPT ![w] = [index |-> i, bits |-> result[WordOf(i)]]]
      BY <1>2, <2>4 DEF Load, i
    <3>2. \A v \in Worker : loaded'[v] = IF v = w THEN [index |-> i, bits |-> result[WordOf(i)]]
                                                   ELSE loaded[v]
      BY <2>2, <3>1
    <3>3. NoBitIsLost'
      BY <2>2, <3>1 DEF SettledInv, NoBitIsLost, Bits
    <3> QED BY <2>1, <2>2, <3>1, <3>2, <3>3 DEF SettledInv
  <2> QED BY <2>3, <2>4
<1>3. ASSUME NEW w \in Worker, Store(w) PROVE SettledInv'
  <2> DEFINE i == loaded[w].index
  <2>1. /\ i \in sources[w] /\ i \in Index /\ i \in RangeOf(w)
        /\ loaded[w].bits = result[WordOf(i)] /\ stage = "sources"
    BY <1>3 DEF Store, SettledInv, WordsInv
  <2>2. /\ result' = [result EXCEPT ![WordOf(i)] = loaded[w].bits \cup {i % WordBits}]
        /\ sources' = [sources EXCEPT ![w] = @ \ {i}]
        /\ loaded' = [loaded EXCEPT ![w] = NoWord]
        /\ UNCHANGED <<stage, settled>>
    BY <1>3 DEF Store
  <2> HIDE DEF i
  <2>3. result' = [result EXCEPT ![WordOf(i)] = @ \cup {i % WordBits}]
    BY <2>1, <2>2
  <2>4. result' \in [Word -> SUBSET Bit] /\ Bits(result') = Bits(result) \cup {i}
    BY <2>1, <2>3, SetBit DEF WordsInv
  <2>5. \A v \in Worker : sources'[v] = IF v = w THEN sources[v] \ {i} ELSE sources[v]
    BY <2>2 DEF WordsInv
  <2>6. \A v \in Worker : loaded'[v] = IF v = w THEN NoWord ELSE loaded[v]
    BY <2>2 DEF WordsInv
  <2>7. ASSUME NEW v \in Worker, loaded'[v] # NoWord
        PROVE  /\ loaded'[v].index \in sources'[v]
               /\ loaded'[v].bits = result'[WordOf(loaded'[v].index)]
    <3>1. v # w /\ loaded'[v] = loaded[v] /\ loaded[v] # NoWord
      BY <2>6, <2>7
    <3>2. /\ loaded[v].index \in sources[v] /\ loaded[v].index \in RangeOf(v)
          /\ loaded[v].bits = result[WordOf(loaded[v].index)]
      BY <3>1 DEF SettledInv
    <3>3. WordOf(loaded[v].index) # WordOf(i)
      BY <2>1, <3>1, <3>2, RangeFacts
    <3>4. WordOf(loaded[v].index) \in Word
      BY <3>2, IndexFacts DEF WordsInv
    <3> QED BY <2>3, <2>5, <3>1, <3>2, <3>3, <3>4 DEF WordsInv
  <2>8. NoBitIsLost'
    <3>1. Bits(result)' = Bits(result) \cup {i}
      BY <2>4 DEF Bits
    <3>2. ASSUME NEW j \in settled PROVE j \in Bits(result') \/ \E v \in Worker : j \in sources'[v]
      <4>1. j \in Bits(result) \/ \E v \in Worker : j \in sources[v]
        BY DEF SettledInv, NoBitIsLost
      <4>2. CASE j \in Bits(result) \/ j = i
        BY <2>4, <4>2
      <4>3. CASE j # i /\ \E v \in Worker : j \in sources[v]
        BY <2>5, <4>3
      <4> QED BY <4>1, <4>2, <4>3
    <3>3. Bits(result)' = Bits(result')
      BY DEF Bits
    <3> QED BY <2>2, <3>2, <3>3 DEF NoBitIsLost
  <2>9. \A v \in Worker : sources'[v] \subseteq RangeOf(v)
    BY <2>5 DEF SettledInv
  <2>10. stage' = "sources"
    BY <2>1, <2>2
  <2> QED BY <2>7, <2>8, <2>9, <2>10 DEF SettledInv
<1>4. ASSUME NEW w \in Worker, Mark(w) PROVE SettledInv'
  BY <1>4 DEF Mark, SettledInv, NoBitIsLost, Bits
<1>5. CASE JoinSources
  <2>1. /\ UNCHANGED <<sources, loaded, result, settled>>
        /\ \A w \in Worker : sources[w] = {} /\ loaded[w] = NoWord
    BY <1>5 DEF JoinSources
  <2> QED BY <2>1 DEF SettledInv, NoBitIsLost, Bits
<1>6. ASSUME NEW w \in Worker, Evaluate(w) PROVE SettledInv'
  BY <1>6 DEF Evaluate, SettledInv, NoBitIsLost, Bits
<1>7. ASSUME NEW w \in Worker, ClearRange(w) PROVE SettledInv'
  BY <1>7 DEF ClearRange, SettledInv, NoBitIsLost, Bits
<1>8. CASE JoinScan
  BY <1>8 DEF JoinScan, SettledInv, NoBitIsLost, Bits
<1>9. CASE UNCHANGED bitmapVars
  BY <1>9 DEF bitmapVars, SettledInv, NoBitIsLost, Bits
<1> QED BY <1>1, <1>2, <1>3, <1>4, <1>5, <1>6, <1>7, <1>8, <1>9 DEF BitmapNext

(* Bags of positions that occur once. *)
LEMMA OneMore ==
  ASSUME NEW S, NEW x, x \notin S
  PROVE  SetToBag(S) (+) SetToBag({x}) = SetToBag(S \cup {x})
BY DEF SetToBag, (+)

LEMMA CandidatesInitially == ASSUME BitmapInit PROVE CandidatesInv
<1>1. Bits(candidates) = {}
  BY IndexFacts DEF BitmapInit, BitmapsFrom, Empty, Bits
<1> QED BY <1>1 DEF BitmapInit, BitmapsFrom, CandidatesInv, EmptyBag

(* A fetch-or tells one worker that a bit is new, and tells only one. *)
LEMMA MarkStep ==
  ASSUME WordsInv, CandidatesInv, NEW w \in Worker, Mark(w)
  PROVE  CandidatesInv'
<1>1. PICK i \in marks[w] :
        /\ marks' = [marks EXCEPT ![w] = @ \ {i}]
        /\ fresh' = [fresh EXCEPT ![w] =
             @ + (IF i % WordBits \in candidates[WordOf(i)] THEN 0 ELSE 1)]
        /\ candidates' = [candidates EXCEPT ![WordOf(i)] = @ \cup {i % WordBits}]
  BY DEF Mark
<1>2. /\ i \in Index /\ stage = "sources" /\ UNCHANGED <<stage, evaluated, wanted>>
      /\ candidates \in [Word -> SUBSET Bit] /\ marks \in [Worker -> SUBSET Index]
      /\ fresh \in [Worker -> Nat]
  BY <1>1 DEF Mark, WordsInv
<1>3. Bits(candidates') = Bits(candidates) \cup {i} /\ Bits(candidates)' = Bits(candidates')
  BY <1>1, <1>2, SetBit DEF Bits
<1>4. i % WordBits \in candidates[WordOf(i)] <=> i \in Bits(candidates)
  BY <1>2, BitsFacts
<1> DEFINE d == IF i \in Bits(candidates) THEN 0 ELSE 1
<1>5. d \in {0, 1} /\ fresh' = [fresh EXCEPT ![w] = @ + d]
  BY <1>1, <1>4
<1>6. Total' = Total + d
  <2> HIDE DEF d
  <2> QED BY <1>2, <1>5, AddedStep DEF Total
<1>7. Cardinality(Bits(candidates')) = Cardinality(Bits(candidates)) + d
  <2>1. IsFiniteSet(Bits(candidates)) /\ Cardinality(Bits(candidates)) \in Nat
    BY <1>2, BitsFacts, FS_CardinalityType
  <2>2. PICK B : B = Bits(candidates) /\ IsFiniteSet(B)
    BY <2>1
  <2>3. Cardinality(B \cup {i}) = IF i \in B THEN Cardinality(B) ELSE Cardinality(B) + 1
    BY ONLY <2>2, FS_AddElement
  <2> QED BY <1>3, <2>1, <2>2, <2>3
<1>8. wanted = Bits(candidates') \cup UNION {marks'[v] : v \in Worker}
  <2>1. wanted = Bits(candidates) \cup UNION {marks[v] : v \in Worker}
    BY <1>2 DEF CandidatesInv
  <2>2. \A v \in Worker : marks'[v] = IF v = w THEN marks[v] \ {i} ELSE marks[v]
    BY <1>1, <1>2
  <2>3. (UNION {marks'[v] : v \in Worker}) \cup {i} = UNION {marks[v] : v \in Worker}
    BY <1>1, <2>2
  <2> QED BY <1>3, <2>1, <2>3
<1>9. evaluated = EmptyBag /\ Total = Cardinality(Bits(candidates))
  BY <1>2 DEF CandidatesInv
<1> QED BY <1>2, <1>3, <1>6, <1>7, <1>8, <1>9 DEF CandidatesInv

(* A scan hands out the next candidate of its range. *)
LEMMA EvaluateStep ==
  ASSUME WordsInv, CandidatesInv, NEW w \in Worker, Evaluate(w)
  PROVE  CandidatesInv'
<1> DEFINE found == FindNext(candidates, cursor[w], EndIndex(w))
           old == {i \in wanted : Scanned(i)}
<1>1. /\ stage = "scan" /\ cursor[w] <= EndIndex(w) /\ found < EndIndex(w)
      /\ evaluated' = evaluated (+) SetToBag({found})
      /\ cursor' = [cursor EXCEPT ![w] = found + 1]
      /\ UNCHANGED <<candidates, stage, wanted>>
  BY DEF Evaluate, Scanning
<1>2. /\ EndIndex(w) \in 0 .. Positions /\ FirstIndex(w) \in 0 .. Positions
      /\ candidates \in [Word -> SUBSET Bit] /\ wanted \subseteq Index /\ Index \subseteq Nat
      /\ cursor \in [Worker -> Nat] /\ Positions \in Nat
  BY RangeFacts, IndexFacts, PartitionAssumption DEF WordsInv
<1>3. /\ cursor[w] \in FirstIndex(w) .. EndIndex(w) + 1
      /\ Bits(candidates) \cap RangeOf(w) = wanted \cap RangeOf(w)
      /\ evaluated = SetToBag(old)
  BY <1>1 DEF CandidatesInv
<1>4. cursor[w] \in 0 .. Positions
  BY <1>1, <1>2, <1>3
<1>5. /\ found \in cursor[w] .. EndIndex(w) /\ found \in Bits(candidates)
      /\ \A i \in Bits(candidates) : cursor[w] <= i => found <= i \/ EndIndex(w) <= i
  BY <1>1, <1>2, <1>4, FindNextFacts
<1> HIDE DEF found
<1>6. found \in Nat /\ found \in RangeOf(w) /\ found \in wanted
  BY <1>1, <1>2, <1>3, <1>4, <1>5 DEF RangeOf
<1>7. ASSUME NEW i \in wanted
      PROVE  Scanned(i)' <=> Scanned(i) \/ i = found
  <2>1. \A v \in Worker : cursor'[v] = IF v = w THEN found + 1 ELSE cursor[v]
    BY <1>1, <1>2
  <2>2. i \in Nat /\ cursor[w] \in Nat
    BY <1>2
  <2>3. Scanned(i)' <=> \E v \in Worker : i \in RangeOf(v) /\ i < cursor'[v]
    BY DEF Scanned
  <2>4. CASE i \in RangeOf(w)
    <3>1. \A v \in Worker : i \in RangeOf(v) => v = w
      BY <2>4, RangeFacts
    <3>2. Scanned(i) <=> i < cursor[w]
      BY <2>4, <3>1 DEF Scanned
    <3>3. Scanned(i)' <=> i < found + 1
      BY <2>1, <2>3, <2>4, <3>1
    <3>4. i \in Bits(candidates) /\ i < EndIndex(w)
      BY <1>2, <1>3, <2>4 DEF RangeOf
    <3>5. cursor[w] <= i => found <= i
      BY <1>2, <1>5, <2>2, <3>4
    <3> QED BY <1>1, <1>5, <1>6, <2>2, <3>2, <3>3, <3>5
  <2>5. CASE i \notin RangeOf(w)
    <3>1. i # found
      BY <1>6, <2>5
    <3> QED BY <2>1, <2>3, <2>5, <3>1 DEF Scanned
  <2> QED BY <2>4, <2>5
<1>8. found \notin old
  <2>1. \A v \in Worker : found \in RangeOf(v) => v = w
    BY <1>6, RangeFacts
  <2>2. ~(found < cursor[w])
    BY <1>2, <1>5, <1>6
  <2> QED BY <2>1, <2>2 DEF Scanned
<1>9. {i \in wanted : Scanned(i)}' = old \cup {found}
  BY <1>1, <1>6, <1>7
<1>10. evaluated' = SetToBag({i \in wanted : Scanned(i)}')
  <2> HIDE DEF old
  <2> QED BY <1>1, <1>3, <1>8, <1>9, OneMore
<1>11. ASSUME NEW v \in Worker
       PROVE  /\ cursor'[v] \in FirstIndex(v) .. EndIndex(v) + 1
              /\ Bits(candidates') \cap RangeOf(v) =
                   IF cursor'[v] <= EndIndex(v) THEN wanted' \cap RangeOf(v) ELSE {}
  <2>1. CASE v = w
    <3>1. cursor'[w] = found + 1 /\ found + 1 <= EndIndex(w) /\ FirstIndex(w) <= found + 1
      BY <1>1, <1>2, <1>3, <1>5, <1>6
    <3> QED BY <1>1, <1>2, <1>3, <1>6, <2>1, <3>1
  <2>2. CASE v # w
    <3>1. cursor'[v] = cursor[v] /\ candidates' = candidates /\ wanted' = wanted
      BY <1>1, <1>2, <2>2
    <3> QED BY <1>1, <3>1 DEF CandidatesInv
  <2> QED BY <2>1, <2>2
<1>12. stage' = "scan" /\ Bits(candidates)' = Bits(candidates')
  BY <1>1 DEF Bits
<1> QED BY <1>10, <1>11, <1>12 DEF CandidatesInv

(* A range that was scanned to its end is cleared, and no other. *)
LEMMA ClearStep ==
  ASSUME WordsInv, CandidatesInv, NEW w \in Worker, ClearRange(w)
  PROVE  CandidatesInv'
<1>1. /\ stage = "scan" /\ cursor[w] <= EndIndex(w)
      /\ FindNext(candidates, cursor[w], EndIndex(w)) = EndIndex(w)
      /\ candidates' = Cleared(candidates, FirstIndex(w), EndIndex(w))
      /\ cursor' = [cursor EXCEPT ![w] = EndIndex(w) + 1]
      /\ UNCHANGED <<stage, wanted, evaluated>>
  BY DEF ClearRange, Scanning
<1>2. /\ EndIndex(w) \in 0 .. Positions /\ FirstIndex(w) \in 0 .. Positions
      /\ candidates \in [Word -> SUBSET Bit] /\ wanted \subseteq Index /\ Index \subseteq Nat
      /\ cursor \in [Worker -> Nat] /\ Positions \in Nat
  BY RangeFacts, IndexFacts, PartitionAssumption DEF WordsInv
<1>3. /\ cursor[w] \in FirstIndex(w) .. EndIndex(w) + 1
      /\ Bits(candidates) \cap RangeOf(w) = wanted \cap RangeOf(w)
      /\ evaluated = SetToBag({i \in wanted : Scanned(i)})
  BY <1>1 DEF CandidatesInv
<1>4. cursor[w] \in 0 .. Positions
  BY <1>1, <1>2, <1>3
<1>5. \A i \in Bits(candidates) : cursor[w] <= i => EndIndex(w) <= i
  BY <1>1, <1>2, <1>4, FindNextFacts
<1>6. Bits(candidates') = Bits(candidates) \ RangeOf(w)
  <2>1. Bits(candidates') =
          {i \in Bits(candidates) : i < FirstIndex(w) \/ i >= EndIndex(w)}
    BY <1>1, <1>2, ClearedFacts
  <2>2. \A i \in Bits(candidates) : i \in Nat
    BY <1>2 DEF Bits
  <2> QED BY <1>2, <2>1, <2>2 DEF RangeOf
<1>7. \A v \in Worker : cursor'[v] = IF v = w THEN EndIndex(w) + 1 ELSE cursor[v]
  BY <1>1, <1>2
<1>8. ASSUME NEW i \in wanted PROVE Scanned(i)' <=> Scanned(i)
  <2>1. Scanned(i)' <=> \E v \in Worker : i \in RangeOf(v) /\ i < cursor'[v]
    BY DEF Scanned
  <2>2. CASE i \in RangeOf(w)
    <3>1. i \in Nat /\ i < EndIndex(w) /\ i \in Bits(candidates) /\ cursor[w] \in Nat
      BY <1>2, <1>3, <2>2 DEF RangeOf
    <3>2. i < cursor[w]
      BY <1>2, <1>5, <3>1
    <3>3. i < EndIndex(w) + 1
      BY <1>2, <3>1
    <3> QED BY <1>7, <2>1, <2>2, <3>2, <3>3 DEF Scanned
  <2>3. CASE i \notin RangeOf(w)
    BY <1>7, <2>1, <2>3 DEF Scanned
  <2> QED BY <2>2, <2>3
<1>9. {i \in wanted : Scanned(i)}' = {i \in wanted : Scanned(i)}
  BY <1>1, <1>8
<1>10. ASSUME NEW v \in Worker
       PROVE  /\ cursor'[v] \in FirstIndex(v) .. EndIndex(v) + 1
              /\ Bits(candidates') \cap RangeOf(v) =
                   IF cursor'[v] <= EndIndex(v) THEN wanted' \cap RangeOf(v) ELSE {}
  <2>1. CASE v = w
    <3>1. cursor'[w] = EndIndex(w) + 1 /\ ~(EndIndex(w) + 1 <= EndIndex(w))
          /\ FirstIndex(w) <= EndIndex(w)
      BY <1>2, <1>7, RangeFacts
    <3> QED BY <1>2, <1>6, <2>1, <3>1
  <2>2. CASE v # w
    <3>1. cursor'[v] = cursor[v] /\ wanted' = wanted
      BY <1>1, <1>7, <2>2
    <3>2. RangeOf(v) \cap RangeOf(w) = {}
      BY <2>2, RangeFacts
    <3>3. Bits(candidates') \cap RangeOf(v) = Bits(candidates) \cap RangeOf(v)
      BY <1>6, <3>2
    <3> QED BY <1>1, <3>1, <3>3 DEF CandidatesInv
  <2> QED BY <2>1, <2>2
<1>11. stage' = "scan" /\ Bits(candidates)' = Bits(candidates')
  BY <1>1 DEF Bits
<1>12. evaluated' = SetToBag({i \in wanted : Scanned(i)}')
  BY <1>1, <1>3, <1>9
<1> QED BY <1>10, <1>11, <1>12 DEF CandidatesInv

LEMMA CandidatesStep ==
  ASSUME WordsInv, WordsInv', CandidatesInv, [BitmapNext]_bitmapVars
  PROVE  CandidatesInv'
<1>1. CASE StartLayer
  <2>1. /\ stage = "idle" /\ stage' = "sources" /\ candidates' = candidates
        /\ wanted' = UNION {marks'[w] : w \in Worker}
        /\ fresh' = [w \in Worker |-> 0] /\ evaluated' = EmptyBag
    BY <1>1 DEF StartLayer
  <2>2. Bits(candidates) = {} /\ Bits(candidates') = {}
    BY <2>1 DEF CandidatesInv
  <2>3. Total' = 0
    BY <2>1, AddedZero DEF Total
  <2>4. Bits(candidates)' = Bits(candidates')
    BY DEF Bits
  <2> QED BY <2>1, <2>2, <2>3, <2>4, FS_EmptySet DEF CandidatesInv
<1>2. ASSUME NEW w \in Worker, Load(w) PROVE CandidatesInv'
  BY <1>2 DEF Load, CandidatesInv, Bits, Total
<1>3. ASSUME NEW w \in Worker, Store(w) PROVE CandidatesInv'
  BY <1>3 DEF Store, CandidatesInv, Bits, Total, Scanned
<1>4. ASSUME NEW w \in Worker, Mark(w) PROVE CandidatesInv'
  BY <1>4, MarkStep
<1>5. CASE JoinSources
  <2>1. /\ stage = "sources" /\ \A w \in Worker : marks[w] = {}
        /\ stage' = IF Total = 0 THEN "idle" ELSE "scan"
        /\ cursor' = [w \in Worker |-> FirstIndex(w)]
        /\ UNCHANGED <<candidates, evaluated, wanted>>
    BY <1>5 DEF JoinSources
  <2>2. /\ evaluated = EmptyBag /\ wanted = Bits(candidates)
        /\ Total = Cardinality(Bits(candidates))
    BY <2>1 DEF CandidatesInv
  <2>3. Bits(candidates)' = Bits(candidates) /\ wanted' = wanted /\ evaluated' = evaluated
    BY <2>1 DEF Bits
  <2>4. CASE Total = 0
    <3>1. Bits(candidates) = {}
      BY <2>2, <2>4, BitsFacts, FS_EmptySet DEF WordsInv
    <3> QED BY <2>1, <2>2, <2>3, <2>4, <3>1 DEF CandidatesInv, EmptyBag
  <2>5. CASE Total # 0
    <3>1. \A i \in wanted : ~Scanned(i)'
      <4>1. \A w \in Worker : \A i \in RangeOf(w) : ~(i < FirstIndex(w))
        BY RangeFacts DEF RangeOf
      <4> QED BY <2>1, <4>1 DEF Scanned
    <3>2. {i \in wanted : Scanned(i)}' = {}
      BY <2>3, <3>1
    <3>3. \A w \in Worker : /\ cursor'[w] = FirstIndex(w)
                            /\ FirstIndex(w) \in FirstIndex(w) .. EndIndex(w) + 1
                            /\ FirstIndex(w) <= EndIndex(w)
      BY <2>1, RangeFacts
    <3>4. stage' = "scan"
      BY <2>1, <2>5
    <3> QED BY <2>2, <2>3, <3>2, <3>3, <3>4 DEF CandidatesInv, EmptyBag
  <2> QED BY <2>4, <2>5
<1>6. ASSUME NEW w \in Worker, Evaluate(w) PROVE CandidatesInv'
  BY <1>6, EvaluateStep
<1>7. ASSUME NEW w \in Worker, ClearRange(w) PROVE CandidatesInv'
  BY <1>7, ClearStep
<1>8. CASE JoinScan
  <2>1. /\ stage = "scan" /\ \A w \in Worker : ~(cursor[w] <= EndIndex(w))
        /\ stage' = "idle" /\ UNCHANGED <<candidates, evaluated, wanted>>
    BY <1>8 DEF JoinScan, Scanning
  <2>2. /\ evaluated = SetToBag({i \in wanted : Scanned(i)})
        /\ \A w \in Worker : Bits(candidates) \cap RangeOf(w) = {}
    BY <2>1 DEF CandidatesInv
  <2>3. Bits(candidates) = {}
    BY <2>2, RangeFacts DEF Bits
  <2>4. ASSUME NEW i \in wanted PROVE Scanned(i)
    <3>1. PICK w \in Worker : i \in RangeOf(w)
      BY RangeFacts DEF WordsInv
    <3>2. i \in Nat /\ i < EndIndex(w) /\ cursor[w] \in Nat /\ EndIndex(w) \in Nat
      BY <3>1, RangeFacts DEF RangeOf, WordsInv
    <3> QED BY <2>1, <3>1, <3>2 DEF Scanned
  <2>5. {i \in wanted : Scanned(i)} = wanted
    BY <2>4
  <2> QED BY <2>1, <2>2, <2>3, <2>5 DEF CandidatesInv, Bits
<1>9. CASE UNCHANGED bitmapVars
  BY <1>9 DEF bitmapVars, CandidatesInv, Bits, Total, Scanned
<1> QED BY <1>1, <1>2, <1>3, <1>4, <1>5, <1>6, <1>7, <1>8, <1>9 DEF BitmapNext

LEMMA OnceOnly ==
  ASSUME WordsInv, CandidatesInv
  PROVE  EveryCandidateOnce
<1>1. PICK S \in SUBSET wanted : evaluated = SetToBag(S)
  BY DEF CandidatesInv, WordsInv, EmptyBag
<1>2. evaluated \sqsubseteq SetToBag(wanted)
  BY <1>1 DEF SetToBag, \sqsubseteq
<1> QED BY <1>2 DEF CandidatesInv, EveryCandidateOnce

-----------------------------------------------------------------------------
LEMMA BitmapInvariant == BitmapSpec => [](WordsInv /\ SettledInv /\ CandidatesInv)
<1>1. BitmapInit => WordsInv /\ SettledInv /\ CandidatesInv
  BY WordsInitially, SettledInitially, CandidatesInitially
<1>2. WordsInv /\ SettledInv /\ CandidatesInv /\ [BitmapNext]_bitmapVars
        => (WordsInv /\ SettledInv /\ CandidatesInv)'
  BY WordsStep, SettledStep, CandidatesStep
<1> QED BY <1>1, <1>2, PTL DEF BitmapSpec

(* Whatever the workers mark, settle and interleave, every candidate of a  *)
(* layer is handed out exactly once, none is left behind for the next      *)
(* layer, and a layer is skipped only if it has none (bitmap_find_next_    *)
(* range, bitmap_clear_range, run_frontier_workers).                       *)
THEOREM CandidatesCorrect == BitmapSpec => []EveryCandidateOnce
<1>1. WordsInv /\ SettledInv /\ CandidatesInv => EveryCandidateOnce
  BY OnceOnly
<1> QED BY <1>1, BitmapInvariant, PTL

(* A fetch-or reports a new bit to exactly one worker, and no plain store  *)
(* to a result bitmap undoes another worker's bit (bitmap_set_new_atomic,  *)
(* bitmap_set).                                                            *)
THEOREM MarksCorrect == BitmapSpec => []MarksAreRight
<1>1. WordsInv /\ SettledInv /\ CandidatesInv => MarksAreRight
  BY DEF SettledInv, CandidatesInv, MarksAreRight, FreshIsExact
<1> QED BY <1>1, BitmapInvariant, PTL

-----------------------------------------------------------------------------
(***************************************************************************)
(* The longest distance of the streams.                                    *)
(***************************************************************************)
LEMMA MaxFacts ==
  ASSUME NEW n \in Nat, NEW T \in SUBSET (0 .. n), T # {}
  PROVE  Max(T) \in T /\ \A y \in T : Max(T) >= y
<1> DEFINE U == {n - y : y \in T}
<1>1. U \in SUBSET Nat /\ U # {}
  <2>1. \A y \in T : n - y \in Nat
    OBVIOUS
  <2>2. PICK y \in T : TRUE
    OBVIOUS
  <2>3. n - y \in U
    BY <2>2
  <2> QED BY <2>1, <2>3
<1>2. PICK u \in U : \A v \in U : u <= v
  <2> HIDE DEF U
  <2> QED BY <1>1, LeastNatural
<1>3. PICK x \in T : u = n - x
  BY <1>2
<1>4. ASSUME NEW y \in T PROVE x >= y
  <2>1. n - y \in U /\ x \in 0 .. n /\ y \in 0 .. n
    BY <1>3
  <2>2. n - x <= n - y
    BY <1>2, <1>3, <2>1
  <2> QED BY <2>1, <2>2
<1> QED BY <1>3, <1>4 DEF Max

(* A sequence with one more element is not empty. *)
LEMMA AppendFacts ==
  ASSUME NEW S, NEW s \in Seq(S), NEW e \in S
  PROVE  Append(s, e) \in Seq(S) /\ Append(s, e) # << >>
<1>1. Append(s, e) \in Seq(S) /\ Len(Append(s, e)) = Len(s) + 1 /\ Len(s) \in Nat
  OBVIOUS
<1>2. Len(<< >>) = 0
  OBVIOUS
<1> QED BY <1>1, <1>2

LEMMA ToSetFacts ==
  ASSUME NEW S, NEW s \in Seq(S), s # << >>
  PROVE  ToSet(s) \subseteq S /\ ToSet(s) # {}
<1>1. DOMAIN s = 1 .. Len(s) /\ Len(s) \in Nat /\ \A n \in 1 .. Len(s) : s[n] \in S
  OBVIOUS
<1>2. Len(s) # 0
  OBVIOUS
<1>3. 1 \in DOMAIN s
  BY <1>1, <1>2
<1> QED BY <1>1, <1>3 DEF ToSet

(* What a flush makes of the buffer and the directory of one stream.       *)
LEMMA FlushFacts ==
  ASSUME StoreTypeOK, NEW o \in Owner, NEW d \in Distances, pending[o][d] # << >>,
         NEW size \in BlockSizes, Flush(o, d, size), pending' = [pending EXCEPT ![o][d] = << >>]
  PROVE  /\ pending' \in [Owner -> [Distances -> Seq(Records)]]
         /\ blocks' \in [Owner -> [Distances -> Seq(Block)]]
         /\ endOffset' \in [Owner -> Nat]
         /\ Stocked' = Stocked
<1> DEFINE records == pending[o][d]
           new == NewBlock(o, records, size)
<1>1. records \in Seq(Records) /\ records # << >>
  BY DEF StoreTypeOK
<1>2. Records \subseteq 0 .. Positions - 1 /\ Positions - 1 \in Nat /\ size \in Nat
  BY StoreAssumption, PartitionAssumption DEF Index
<1>3. ToSet(records) \subseteq Records /\ ToSet(records) # {}
  BY <1>1, ToSetFacts
<1>4. Min(ToSet(records)) \in Records /\ Max(ToSet(records)) \in Records
  <2>1. ToSet(records) \in SUBSET Nat /\ ToSet(records) \in SUBSET (0 .. Positions - 1)
    BY <1>2, <1>3
  <2> QED BY <1>2, <1>3, <2>1, MinFacts, MaxFacts
<1>5. new \in Block
  BY <1>1, <1>2, <1>4 DEF NewBlock, Block, StoreTypeOK
<1>6. blocks' = [blocks EXCEPT ![o][d] = Append(@, new)]
  BY DEF Flush
<1> HIDE DEF new, records
<1>7. /\ blocks[o][d] \in Seq(Block) /\ Append(blocks[o][d], new) \in Seq(Block)
      /\ Append(blocks[o][d], new) # << >>
  <2>1. blocks[o][d] \in Seq(Block)
    BY DEF StoreTypeOK
  <2> QED BY <1>5, <2>1, AppendFacts
<1>8. /\ blocks' \in [Owner -> [Distances -> Seq(Block)]]
      /\ \A v \in Owner, e \in Distances :
           blocks'[v][e] = IF v = o /\ e = d THEN Append(blocks[o][d], new) ELSE blocks[v][e]
  BY <1>6, <1>7 DEF StoreTypeOK
<1>9. /\ pending' \in [Owner -> [Distances -> Seq(Records)]]
      /\ \A v \in Owner, e \in Distances :
           pending'[v][e] = IF v = o /\ e = d THEN << >> ELSE pending[v][e]
  BY DEF StoreTypeOK
<1>10. endOffset' \in [Owner -> Nat]
  BY <1>2 DEF Flush, Advanced, StoreTypeOK
<1>11. Stocked' = Stocked
  <2>1. ASSUME NEW e \in Distances
        PROVE  (\E v \in Owner : pending'[v][e] # << >> \/ blocks'[v][e] # << >>)
                 <=> (\E v \in Owner : pending[v][e] # << >> \/ blocks[v][e] # << >>)
    <3>1. CASE e = d
      BY <1>7, <1>8, <3>1
    <3>2. CASE e # d
      <4>1. \A v \in Owner : blocks'[v][e] = blocks[v][e] /\ pending'[v][e] = pending[v][e]
        BY <1>8, <1>9, <3>2
      <4> QED BY ONLY <4>1
    <3> QED BY <3>1, <3>2
  <2> QED BY <2>1 DEF Stocked
<1> QED BY <1>8, <1>9, <1>10, <1>11

LEMMA StoreInitially == ASSUME Init PROVE StoreTypeOK /\ MaximumInv
<1>1. /\ pending = [o \in Owner |-> [d \in Distances |-> << >>]] /\ blocks = pending
      /\ endOffset = [o \in Owner |-> 0] /\ maximum = 0 /\ thread = [o \in Owner |-> Idle]
  BY DEF Init, StoreFrom
<1>2. Stocked = {}
  BY <1>1 DEF Stocked
<1>3. Idle.op # "raise"
  BY DEF Idle
<1> QED BY <1>1, <1>2, <1>3 DEF StoreTypeOK, MaximumInv

(* What a worker is doing. *)
Raising == [op : {"raise"}, distance : Distances, observed : Nat]
Flushing == [op : {"flush"}, distance : Distances]

LEMMA ThreadFacts ==
  ASSUME StoreTypeOK
  PROVE  /\ thread \in [Owner -> {Idle} \cup Raising \cup Flushing] /\ maximum \in Nat
         /\ Distances \subseteq Nat /\ Stocked \subseteq Distances /\ Idle.op = "idle"
         /\ \A t \in Raising : /\ t.op = "raise" /\ t.distance \in Distances /\ t.observed \in Nat
         /\ \A t \in Flushing : t.op = "flush" /\ t.distance \in Distances
BY StoreAssumption DEF StoreTypeOK, Idle, Raising, Flushing, Stocked

(* A worker that stops raising leaves nothing beyond the longest distance. *)
LEMMA ThreadStep ==
  ASSUME StoreTypeOK, MaximumInv, NEW o \in Owner,
         NEW t \in {Idle} \cup Flushing, thread' = [thread EXCEPT ![o] = t],
         Stocked' = Stocked, maximum' \in Nat, maximum <= maximum',
         maximum' \in {0} \cup Stocked,
         thread[o].op = "raise" => thread[o].distance <= maximum'
  PROVE  MaximumInv' /\ thread' \in [Owner -> {Idle} \cup Raising \cup Flushing]
<1>1. /\ thread \in [Owner -> {Idle} \cup Raising \cup Flushing] /\ t.op # "raise"
      /\ Distances \subseteq Nat /\ Stocked \subseteq Distances /\ maximum \in Nat
  BY ThreadFacts
<1>2. \A v \in Owner : thread'[v] = IF v = o THEN t ELSE thread[v]
  BY <1>1
<1>3. thread' \in [Owner -> {Idle} \cup Raising \cup Flushing]
  BY <1>1
<1>4. ASSUME NEW v \in Owner, thread'[v].op = "raise"
      PROVE  thread'[v].observed <= maximum' /\ thread'[v].distance \in Stocked
  <2>1. thread'[v] = thread[v]
    BY <1>1, <1>2, <1>4
  <2>2. thread[v].observed <= maximum /\ thread[v].distance \in Stocked
    BY <1>4, <2>1 DEF MaximumInv
  <2>3. thread[v].observed \in Nat
    BY <1>1, <1>4, <2>1, ThreadFacts
  <2> QED BY <1>1, <2>1, <2>2, <2>3
<1>5. ASSUME NEW d \in Stocked
      PROVE  d <= maximum' \/ \E v \in Owner : thread'[v].op = "raise" /\ thread'[v].distance = d
  <2>1. d <= maximum \/ \E v \in Owner : thread[v].op = "raise" /\ thread[v].distance = d
    BY DEF MaximumInv
  <2>2. CASE d <= maximum
    BY <1>1, <2>2
  <2>3. CASE \E v \in Owner : thread[v].op = "raise" /\ thread[v].distance = d
    BY <1>2, <2>3
  <2> QED BY <2>1, <2>2, <2>3
<1> QED BY <1>3, <1>4, <1>5 DEF MaximumInv

LEMMA AppendStep ==
  ASSUME StoreTypeOK, MaximumInv, NEW o \in Owner, NEW d \in Distances, NEW i \in Records,
         AppendRecord(o, d, i)
  PROVE  StoreTypeOK' /\ MaximumInv'
<1> DEFINE t == [op |-> "raise", distance |-> d, observed |-> maximum]
<1>1. /\ thread \in [Owner -> {Idle} \cup Raising \cup Flushing] /\ maximum \in Nat
      /\ Distances \subseteq Nat /\ Stocked \subseteq Distances
  BY ThreadFacts
<1>2. /\ pending' = [pending EXCEPT ![o][d] = Append(@, i)]
      /\ thread' = [thread EXCEPT ![o] = t] /\ thread[o].op = "idle"
      /\ UNCHANGED <<blocks, endOffset, maximum>>
  BY DEF AppendRecord, Idle
<1>3. t \in Raising /\ t.distance = d /\ t.observed = maximum /\ t.op = "raise"
  BY <1>1 DEF Raising
<1> HIDE DEF t
<1>4. /\ pending[o][d] \in Seq(Records) /\ Append(pending[o][d], i) # << >>
      /\ Append(pending[o][d], i) \in Seq(Records)
  <2>1. pending[o][d] \in Seq(Records)
    BY DEF StoreTypeOK
  <2> QED BY <2>1, AppendFacts
<1>5. /\ pending' \in [Owner -> [Distances -> Seq(Records)]]
      /\ \A v \in Owner, e \in Distances :
           pending'[v][e] = IF v = o /\ e = d THEN Append(pending[o][d], i) ELSE pending[v][e]
  BY <1>2, <1>4 DEF StoreTypeOK
<1>6. /\ thread' \in [Owner -> {Idle} \cup Raising \cup Flushing]
      /\ \A v \in Owner : thread'[v] = IF v = o THEN t ELSE thread[v]
  BY <1>1, <1>2, <1>3
<1>7. StoreTypeOK'
  BY <1>2, <1>5, <1>6 DEF StoreTypeOK, Raising, Flushing
<1>8. Stocked' = Stocked \cup {d}
  <2>1. ASSUME NEW e \in Distances
        PROVE  (\E v \in Owner : pending'[v][e] # << >> \/ blocks[v][e] # << >>)
                 <=> (\E v \in Owner : pending[v][e] # << >> \/ blocks[v][e] # << >>) \/ e = d
    <3>1. CASE e = d
      BY <1>4, <1>5, <3>1
    <3>2. CASE e # d
      BY <1>5, <3>2
    <3> QED BY <3>1, <3>2
  <2> QED BY <1>2, <2>1 DEF Stocked
<1>9. ASSUME NEW v \in Owner, thread'[v].op = "raise"
      PROVE  thread'[v].observed <= maximum' /\ thread'[v].distance \in Stocked'
  <2>1. CASE v = o
    BY <1>1, <1>2, <1>3, <1>6, <1>8, <2>1
  <2>2. CASE v # o
    BY <1>2, <1>6, <1>8, <1>9, <2>2 DEF MaximumInv
  <2> QED BY <2>1, <2>2
<1>10. ASSUME NEW e \in Stocked'
       PROVE  e <= maximum' \/ \E v \in Owner : thread'[v].op = "raise" /\ thread'[v].distance = e
  <2>1. CASE e = d
    BY <1>3, <1>6, <2>1
  <2>2. CASE e # d
    <3>1. e <= maximum \/ \E v \in Owner : thread[v].op = "raise" /\ thread[v].distance = e
      BY <1>8, <2>2 DEF MaximumInv
    <3> QED BY <1>2, <1>6, <3>1
  <2> QED BY <2>1, <2>2
<1>11. maximum' \in {0} \cup Stocked'
  BY <1>2, <1>8 DEF MaximumInv
<1> QED BY <1>7, <1>9, <1>10, <1>11 DEF MaximumInv

(* The compare-and-swap: the longest distance only goes up, and to the     *)
(* distance of the record at least.                                        *)
LEMMA RaiseStep ==
  ASSUME StoreTypeOK, MaximumInv, NEW o \in Owner, Raise(o)
  PROVE  StoreTypeOK' /\ MaximumInv'
<1> DEFINE t == thread[o]
<1>1. /\ thread \in [Owner -> {Idle} \cup Raising \cup Flushing] /\ maximum \in Nat
      /\ Distances \subseteq Nat /\ Stocked \subseteq Distances
  BY ThreadFacts
<1>2. /\ t \in Raising /\ t.op = "raise" /\ t.distance \in Distances /\ t.observed \in Nat
      /\ t.observed <= maximum /\ t.distance \in Stocked /\ t.distance \in Nat
  <2>1. t.op = "raise"
    BY DEF Raise
  <2>2. t \in Raising
    BY <1>1, <2>1, ThreadFacts
  <2> QED BY <1>1, <2>1, <2>2, ThreadFacts DEF MaximumInv
<1>3. UNCHANGED <<pending, blocks, endOffset>> /\ Stocked' = Stocked
  BY DEF Raise, Stocked
<1> HIDE DEF t
<1>4. CASE t.distance > t.observed /\ maximum # t.observed
  <2>1. thread' = [thread EXCEPT ![o].observed = maximum] /\ maximum' = maximum
    BY <1>4 DEF Raise, t
  <2>2. /\ \A v \in Owner : thread'[v] = IF v = o THEN [t EXCEPT !.observed = maximum]
                                                  ELSE thread[v]
        /\ thread' \in [Owner -> {Idle} \cup Raising \cup Flushing]
    <3>1. [t EXCEPT !.observed = maximum] \in Raising
      BY <1>1, <1>2 DEF Raising
    <3>2. thread' = [thread EXCEPT ![o] = [t EXCEPT !.observed = maximum]]
      BY <2>1 DEF t
    <3> QED BY <1>1, <3>1, <3>2
  <2>3. \A v \in Owner : /\ thread'[v].op = thread[v].op
                         /\ thread'[v].op = "raise" =>
                              /\ thread'[v].distance = thread[v].distance
                              /\ thread'[v].observed \in {maximum, thread[v].observed}
    <3>1. /\ [t EXCEPT !.observed = maximum].op = t.op
          /\ [t EXCEPT !.observed = maximum].distance = t.distance
          /\ [t EXCEPT !.observed = maximum].observed = maximum
      BY <1>2 DEF Raising
    <3> QED BY <2>2, <3>1 DEF t
  <2>4. MaximumInv'
    BY <1>1, <1>3, <2>1, <2>3 DEF MaximumInv
  <2>5. StoreTypeOK'
    BY <1>3, <2>1, <2>2 DEF StoreTypeOK, Raising, Flushing
  <2> QED BY <2>4, <2>5
<1>5. CASE ~(t.distance > t.observed /\ maximum # t.observed)
  <2>1. /\ maximum' = IF t.distance > t.observed THEN t.distance ELSE maximum
        /\ thread' = [thread EXCEPT ![o] = [op |-> "flush", distance |-> t.distance]]
    BY <1>5 DEF Raise, t
  <2>2. /\ maximum' \in Nat /\ maximum <= maximum' /\ t.distance <= maximum'
        /\ maximum' \in {0} \cup Stocked
    BY <1>1, <1>2, <1>5, <2>1 DEF MaximumInv
  <2>3. [op |-> "flush", distance |-> t.distance] \in {Idle} \cup Flushing
    BY <1>2 DEF Flushing
  <2>4. MaximumInv' /\ thread' \in [Owner -> {Idle} \cup Raising \cup Flushing]
    BY <1>3, <2>1, <2>2, <2>3, ThreadStep DEF t
  <2>5. StoreTypeOK'
    BY <1>3, <2>2, <2>4 DEF StoreTypeOK, Raising, Flushing
  <2> QED BY <2>4, <2>5
<1> QED BY <1>4, <1>5

(* The steps that write a block or none. *)
LEMMA FlushStep ==
  ASSUME StoreTypeOK, MaximumInv, NEW o \in Owner, NEW d \in Distances,
         \/ /\ pending[o][d] # << >>
            /\ \E size \in BlockSizes : Flush(o, d, size)
            /\ pending' = [pending EXCEPT ![o][d] = << >>]
         \/ UNCHANGED <<pending, blocks, endOffset>>,
         \/ thread[o].op # "raise" /\ thread' = [thread EXCEPT ![o] = Idle]
         \/ UNCHANGED thread,
         UNCHANGED maximum
  PROVE  StoreTypeOK' /\ MaximumInv'
<1>1. /\ pending' \in [Owner -> [Distances -> Seq(Records)]]
      /\ blocks' \in [Owner -> [Distances -> Seq(Block)]]
      /\ endOffset' \in [Owner -> Nat] /\ Stocked' = Stocked
  <2>1. CASE UNCHANGED <<pending, blocks, endOffset>>
    BY <2>1 DEF StoreTypeOK, Stocked
  <2>2. CASE /\ pending[o][d] # << >>
             /\ \E size \in BlockSizes : Flush(o, d, size)
             /\ pending' = [pending EXCEPT ![o][d] = << >>]
    BY <2>2, FlushFacts
  <2> QED BY <2>1, <2>2
<1>2. maximum \in Nat /\ maximum <= maximum /\ maximum \in {0} \cup Stocked
  BY DEF StoreTypeOK, MaximumInv
<1>3. CASE thread[o].op # "raise" /\ thread' = [thread EXCEPT ![o] = Idle]
  <2>1. MaximumInv' /\ thread' \in [Owner -> {Idle} \cup Raising \cup Flushing]
    BY <1>1, <1>2, <1>3, ThreadStep
  <2> QED BY <1>1, <1>2, <2>1 DEF StoreTypeOK, Raising, Flushing
<1>4. CASE UNCHANGED thread
  BY <1>1, <1>4 DEF StoreTypeOK, MaximumInv
<1> QED BY <1>3, <1>4

LEMMA StoreStep ==
  ASSUME StoreTypeOK, MaximumInv, [Next]_storeVars
  PROVE  StoreTypeOK' /\ MaximumInv'
<1>1. ASSUME NEW o \in Owner, NEW d \in Distances, NEW i \in Records, AppendRecord(o, d, i)
      PROVE  StoreTypeOK' /\ MaximumInv'
  BY <1>1, AppendStep
<1>2. ASSUME NEW o \in Owner, Raise(o) PROVE StoreTypeOK' /\ MaximumInv'
  BY <1>2, RaiseStep
<1>3. ASSUME NEW o \in Owner, FlushFull(o) PROVE StoreTypeOK' /\ MaximumInv'
  <2>1. thread[o].op = "flush" /\ thread[o].distance \in Distances
    <3>1. thread[o].op = "flush" /\ thread[o] \in {Idle} \cup Raising \cup Flushing
      BY <1>3, ThreadFacts DEF FlushFull
    <3> QED BY <3>1, ThreadFacts
  <2>2. Len(pending[o][thread[o].distance]) = BlockRecords => pending[o][thread[o].distance] # << >>
    BY StoreAssumption
  <2> QED BY <1>3, <2>1, <2>2, FlushStep DEF FlushFull
<1>4. ASSUME NEW o \in Owner, FlushFails(o) PROVE StoreTypeOK' /\ MaximumInv'
  <2>1. thread[o].op = "flush" /\ thread[o].distance \in Distances
    <3>1. thread[o].op = "flush" /\ thread[o] \in {Idle} \cup Raising \cup Flushing
      BY <1>4, ThreadFacts DEF FlushFails
    <3> QED BY <3>1, ThreadFacts
  <2> QED BY <1>4, <2>1, FlushStep DEF FlushFails
<1>5. ASSUME NEW o \in Owner, NEW d \in Distances, NEW r \in Ranges, VisitRange(o, d, r[1], r[2])
      PROVE  StoreTypeOK' /\ MaximumInv'
  BY <1>5, FlushStep DEF VisitRange
<1>6. ASSUME NEW o \in Owner, NEW d \in Distances, VisitFails(o, d)
      PROVE  StoreTypeOK' /\ MaximumInv'
  BY <1>6, FlushStep DEF VisitFails
<1>7. ASSUME NEW o \in Owner, NEW d \in Distances, FinishStream(o, d)
      PROVE  StoreTypeOK' /\ MaximumInv'
  BY <1>7, FlushStep DEF FinishStream
<1>8. CASE UNCHANGED storeVars
  BY <1>8 DEF storeVars, StoreTypeOK, MaximumInv, Stocked
<1> QED BY <1>1, <1>2, <1>3, <1>4, <1>5, <1>6, <1>7, <1>8 DEF Next

(* Whatever the workers append at the same time, the longest distance ends *)
(* up as that of the longest record: no compare-and-swap lowers it, and    *)
(* none is given up too early (frontier_store_append).                     *)
THEOREM MaximumCorrect == Spec => []MaximumIsReached
<1>1. Init => StoreTypeOK /\ MaximumInv
  BY StoreInitially
<1>2. StoreTypeOK /\ MaximumInv /\ [Next]_storeVars => (StoreTypeOK /\ MaximumInv)'
  BY StoreStep
<1>3. ASSUME StoreTypeOK, MaximumInv PROVE MaximumIsReached
  <2> SUFFICES ASSUME \A o \in Owner : thread[o].op # "raise"
               PROVE  maximum = Max({0} \cup Stocked)
    BY DEF MaximumIsReached, Stocked
  <2> DEFINE T == {0} \cup Stocked
  <2>1. maximum \in Nat /\ Stocked \subseteq Nat
    BY <1>3, ThreadFacts
  <2>2. maximum \in T /\ \A d \in T : d \in 0 .. maximum
    <3>1. maximum \in T /\ \A d \in Stocked : d <= maximum
      BY <1>3 DEF MaximumInv
    <3>2. ASSUME NEW d \in T PROVE d \in 0 .. maximum
      <4>1. CASE d = 0
        BY <2>1, <4>1
      <4>2. CASE d \in Stocked
        BY <2>1, <3>1, <4>2
      <4> QED BY <4>1, <4>2
    <3> QED BY <3>1, <3>2
  <2> HIDE DEF T
  <2>3. T \in SUBSET (0 .. maximum) /\ T # {}
    BY <2>2
  <2>4. Max(T) \in T /\ \A y \in T : Max(T) >= y
    BY <2>1, <2>3, MaxFacts
  <2>5. maximum = Max(T)
    <3>1. Max(T) \in 0 .. maximum /\ Max(T) >= maximum
      BY <2>2, <2>4
    <3> QED BY <2>1, <3>1
  <2> QED BY <2>5 DEF T
<1> QED BY <1>1, <1>2, <1>3, PTL DEF Spec
-----------------------------------------------------------------------------
(***************************************************************************)
(* Sequences of sequences, end to end.                                     *)
(***************************************************************************)
(* A sequence and one more element.                                        *)
LEMMA LongerSeq ==
  ASSUME NEW S, NEW s \in Seq(S), NEW e \in S
  PROVE  /\ Append(s, e) \in Seq(S) /\ Len(Append(s, e)) = Len(s) + 1 /\ Len(s) \in Nat
         /\ \A n \in 1 .. Len(s) : Append(s, e)[n] = s[n] /\ s[n] \in S
         /\ Append(s, e)[Len(s) + 1] = e
         /\ DOMAIN s = 1 .. Len(s)
OBVIOUS

(* g holds what the first sequences are end to end, as FlattenSeq's own    *)
(* recursion does.                                                         *)
Glues(ss, g, n) ==
  /\ DOMAIN g = 1 .. n
  /\ \A k \in 1 .. n : g[k] = IF k = 1 THEN ss[k] ELSE g[k - 1] \o ss[k]

LEMMA GluesExtend ==
  ASSUME NEW R, NEW ss \in Seq(Seq(R)), NEW n \in 1 .. Len(ss), NEW g,
         n > 1 => Glues(ss, g, n - 1)
  PROVE  \E h : Glues(ss, h, n)
<1> DEFINE h == [k \in 1 .. n |-> IF k < n THEN g[k] ELSE IF n = 1 THEN ss[n] ELSE g[n - 1] \o ss[n]]
<1>1. n \in Nat \ {0}
  OBVIOUS
<1>2. ASSUME NEW k \in 1 .. n
      PROVE  h[k] = IF k = 1 THEN ss[k] ELSE h[k - 1] \o ss[k]
  <2>1. CASE k = n
    BY <1>1, <2>1
  <2>2. CASE k < n
    <3>1. k \in 1 .. n - 1 /\ n > 1
      BY <1>1, <2>2
    <3>2. g[k] = IF k = 1 THEN ss[k] ELSE g[k - 1] \o ss[k]
      BY <3>1 DEF Glues
    <3> QED BY <1>1, <2>2, <3>2
  <2> QED BY <1>1, <2>1, <2>2
<1> HIDE DEF h
<1>3. DOMAIN h = 1 .. n
  BY DEF h
<1>4. Glues(ss, h, n)
  BY <1>2, <1>3 DEF Glues
<1> QED BY <1>4

(* The recursion of FlattenSeq has a solution, so that it is unfolded.     *)
LEMMA FlattenGlues ==
  ASSUME NEW R, NEW ss \in Seq(Seq(R)), Len(ss) # 0
  PROVE  \E g : Glues(ss, g, Len(ss)) /\ FlattenSeq(ss) = g[Len(ss)]
<1> DEFINE Without == {n \in 1 .. Len(ss) : ~\E g : Glues(ss, g, n)}
<1>1. Len(ss) \in Nat \ {0}
  OBVIOUS
<1>2. Without = {}
  <2> SUFFICES ASSUME Without # {} PROVE FALSE
    OBVIOUS
  <2>1. PICK m \in Without : \A y \in Without : m <= y
    <3>1. Without \in SUBSET Nat
      BY <1>1
    <3> HIDE DEF Without
    <3> QED BY <3>1, LeastNatural
  <2>2. m \in 1 .. Len(ss)
    OBVIOUS
  <2>3. m > 1 => \E g : Glues(ss, g, m - 1)
    <3> SUFFICES ASSUME m > 1, ~\E g : Glues(ss, g, m - 1) PROVE FALSE
      OBVIOUS
    <3>1. m - 1 \in 1 .. Len(ss)
      BY <1>1, <2>2
    <3>2. m - 1 \in Without
      BY <3>1
    <3> HIDE DEF Without
    <3>3. m <= m - 1
      BY <2>1, <3>2
    <3> QED BY <1>1, <2>2, <3>3
  <2>4. \E h : Glues(ss, h, m)
    BY <2>2, <2>3, GluesExtend
  <2> QED BY <2>1, <2>4
<1>3. PICK g : Glues(ss, g, Len(ss))
  <2>1. Len(ss) \in 1 .. Len(ss)
    BY <1>1
  <2> QED BY <1>2, <2>1
<1> DEFINE h == CHOOSE f : f = [i \in 1 .. Len(ss) |-> IF i = 1 THEN ss[i] ELSE f[i - 1] \o ss[i]]
<1>4. PICK e : e = [i \in 1 .. Len(ss) |-> g[i]]
  OBVIOUS
<1>5. e = [i \in 1 .. Len(ss) |-> IF i = 1 THEN ss[i] ELSE e[i - 1] \o ss[i]]
  <2>1. \A i \in 1 .. Len(ss) : i # 1 => i - 1 \in 1 .. Len(ss)
    BY <1>1
  <2> QED BY <1>3, <1>4, <2>1 DEF Glues
<1>6. h = [i \in 1 .. Len(ss) |-> IF i = 1 THEN ss[i] ELSE h[i - 1] \o ss[i]]
  BY <1>5
<1>7. FlattenSeq(ss) = h[Len(ss)]
  BY <1>1 DEF FlattenSeq
<1> HIDE DEF h
<1>8. Glues(ss, h, Len(ss))
  BY <1>6 DEF Glues
<1> QED BY <1>7, <1>8

LEMMA FlattenEmpty == FlattenSeq(<< >>) = << >>
<1>1. Len(<< >>) = 0
  OBVIOUS
<1> QED BY <1>1 DEF FlattenSeq

(* The last sequence comes last.                                           *)
LEMMA FlattenAppend ==
  ASSUME NEW R, NEW ss \in Seq(Seq(R)), NEW s \in Seq(R)
  PROVE  FlattenSeq(Append(ss, s)) = FlattenSeq(ss) \o s
<1> DEFINE L == Len(ss)
           tt == Append(ss, s)
<1>1. /\ tt \in Seq(Seq(R)) /\ Len(tt) = L + 1 /\ L \in Nat
      /\ (\A n \in 1 .. L : tt[n] = ss[n]) /\ tt[L + 1] = s
  BY LongerSeq
<1> HIDE DEF tt
<1>2. PICK h : Glues(tt, h, L + 1) /\ FlattenSeq(tt) = h[L + 1]
  BY <1>1, FlattenGlues
<1>3. CASE L = 0
  <2>1. ss = << >> /\ << >> \o s = s
    BY <1>3
  <2>2. h[1] = tt[1]
    BY <1>1, <1>2, <1>3 DEF Glues
  <2> QED BY <1>1, <1>2, <1>3, <2>1, <2>2, FlattenEmpty DEF tt
<1>4. CASE L # 0
  <2>1. PICK g : Glues(ss, g, L) /\ FlattenSeq(ss) = g[L]
    BY <1>4, FlattenGlues
  <2> DEFINE Wrong == {k \in 1 .. L : h[k] # g[k]}
  <2>2. Wrong = {}
    <3> SUFFICES ASSUME Wrong # {} PROVE FALSE
      OBVIOUS
    <3>1. PICK m \in Wrong : \A y \in Wrong : m <= y
      <4>1. Wrong \in SUBSET Nat
        BY <1>1
      <4> HIDE DEF Wrong
      <4> QED BY <4>1, LeastNatural
    <3>2. m \in 1 .. L /\ h[m] # g[m]
      OBVIOUS
    <3>3. m # 1 => m - 1 \in 1 .. L /\ h[m - 1] = g[m - 1]
      <4> SUFFICES ASSUME m # 1, h[m - 1] # g[m - 1] PROVE FALSE
        BY <1>1, <3>2
      <4>1. m - 1 \in Wrong
        BY <1>1, <3>2
      <4> HIDE DEF Wrong
      <4>2. m <= m - 1
        BY <3>1, <4>1
      <4> QED BY <1>1, <3>2, <4>2
    <3>4. m \in 1 .. L + 1 /\ tt[m] = ss[m]
      BY <1>1, <3>2
    <3>5. /\ h[m] = IF m = 1 THEN tt[1] ELSE h[m - 1] \o tt[m]
          /\ g[m] = IF m = 1 THEN ss[1] ELSE g[m - 1] \o ss[m]
      BY <1>2, <2>1, <3>2, <3>4 DEF Glues
    <3>6. CASE m = 1
      BY ONLY <3>2, <3>4, <3>5, <3>6
    <3>7. CASE m # 1
      BY ONLY <3>2, <3>3, <3>4, <3>5, <3>7
    <3> QED BY <3>6, <3>7
  <2>3. L \in 1 .. L /\ L + 1 \in 1 .. L + 1 /\ L + 1 # 1 /\ L + 1 - 1 = L
    BY <1>1, <1>4
  <2>4. h[L + 1] = h[L] \o tt[L + 1]
    <3>1. \A k \in 1 .. L + 1 : h[k] = IF k = 1 THEN tt[k] ELSE h[k - 1] \o tt[k]
      BY <1>2 DEF Glues
    <3>2. PICK k : k = L + 1
      OBVIOUS
    <3>3. k \in 1 .. L + 1 /\ k # 1 /\ k - 1 = L
      BY <2>3, <3>2
    <3>4. h[k] = h[k - 1] \o tt[k]
      BY <3>1, <3>3
    <3> QED BY <3>2, <3>3, <3>4
  <2>5. h[L] = g[L]
    BY <2>2, <2>3
  <2> QED BY <1>1, <1>2, <2>1, <2>4, <2>5 DEF tt
<1> QED BY <1>3, <1>4

LEMMA EmptyOrAppend ==
  ASSUME NEW S, NEW s \in Seq(S), s # << >>
  PROVE  \E t \in Seq(S), e \in S : s = Append(t, e) /\ Len(s) = Len(t) + 1 /\ Len(t) \in Nat
BY SequenceEmptyOrAppend, LongerSeq

LEMMA FlattenType ==
  ASSUME NEW R
  PROVE  \A ss \in Seq(Seq(R)) : FlattenSeq(ss) \in Seq(R)
<1> DEFINE Wrong == {n \in Nat : \E ss \in Seq(Seq(R)) : Len(ss) = n /\ FlattenSeq(ss) \notin Seq(R)}
<1>1. Wrong = {}
  <2> SUFFICES ASSUME Wrong # {} PROVE FALSE
    OBVIOUS
  <2>1. PICK m \in Wrong : \A y \in Wrong : m <= y
    <3>1. Wrong \in SUBSET Nat
      OBVIOUS
    <3> HIDE DEF Wrong
    <3> QED BY <3>1, LeastNatural
  <2>2. PICK ss \in Seq(Seq(R)) : Len(ss) = m /\ FlattenSeq(ss) \notin Seq(R)
    OBVIOUS
  <2>3. ss # << >>
    BY <2>2, FlattenEmpty
  <2>4. PICK t \in Seq(Seq(R)), s \in Seq(R) : ss = Append(t, s) /\ m = Len(t) + 1 /\ Len(t) \in Nat
    BY <2>2, <2>3, EmptyOrAppend
  <2>5. Len(t) \notin Wrong
    <3> HIDE DEF Wrong
    <3> QED BY <2>1, <2>4
  <2>6. FlattenSeq(t) \in Seq(R)
    BY <2>4, <2>5
  <2>7. FlattenSeq(ss) = FlattenSeq(t) \o s
    BY <2>4, FlattenAppend
  <2> QED BY <2>2, <2>6, <2>7, ConcatProperties
<1> QED BY <1>1

LEMMA AppendRight ==
  ASSUME NEW S, NEW u \in Seq(S), NEW v \in Seq(S), NEW e \in S
  PROVE  u \o Append(v, e) = Append(u \o v, e) /\ u \o v \in Seq(S)
<1>1. PICK w \in Seq(S) : w = <<e>>
  <2>1. <<e>> \in Seq(S)
    OBVIOUS
  <2>2. \E w \in Seq(S) : w = <<e>>
    BY <2>1, Zenon
  <2> QED BY <2>2, Zenon
<1>2. (u \o v) \o w = u \o (v \o w)
  BY ConcatAssociative
<1>3. u \o v \in Seq(S)
  BY ConcatProperties
<1>4. Append(v, e) = v \o w
  BY <1>1, AppendIsConcat
<1>5. Append(u \o v, e) = (u \o v) \o w
  BY <1>1, <1>3, AppendIsConcat
<1> QED BY <1>2, <1>3, <1>4, <1>5

LEMMA FlattenConcatStep ==
  ASSUME NEW R, NEW ss \in Seq(Seq(R)), NEW t \in Seq(Seq(R)), NEW s \in Seq(R),
         FlattenSeq(ss \o t) = FlattenSeq(ss) \o FlattenSeq(t)
  PROVE  FlattenSeq(ss \o Append(t, s)) = FlattenSeq(ss) \o FlattenSeq(Append(t, s))
<1>1. ss \o Append(t, s) = Append(ss \o t, s) /\ ss \o t \in Seq(Seq(R))
  BY AppendRight
<1>2. /\ FlattenSeq(Append(ss \o t, s)) = FlattenSeq(ss \o t) \o s
      /\ FlattenSeq(Append(t, s)) = FlattenSeq(t) \o s
  BY <1>1, FlattenAppend
<1>3. PICK x \in Seq(R) : x = FlattenSeq(ss)
  BY FlattenType
<1>4. PICK y \in Seq(R) : y = FlattenSeq(t)
  BY FlattenType
<1>5. (x \o y) \o s = x \o (y \o s)
  BY ConcatAssociative
<1> QED BY <1>1, <1>2, <1>3, <1>4, <1>5

(* Two rows of sequences, end to end.                                      *)
LEMMA FlattenConcat ==
  ASSUME NEW R, NEW ss \in Seq(Seq(R))
  PROVE  \A tt \in Seq(Seq(R)) : FlattenSeq(ss \o tt) = FlattenSeq(ss) \o FlattenSeq(tt)
<1> DEFINE P(tt) == FlattenSeq(ss \o tt) = FlattenSeq(ss) \o FlattenSeq(tt)
           Wrong == {n \in Nat : \E tt \in Seq(Seq(R)) : Len(tt) = n /\ ~P(tt)}
<1>0. FlattenSeq(ss) \in Seq(R)
  BY FlattenType
<1>1. Wrong = {}
  <2> SUFFICES ASSUME Wrong # {} PROVE FALSE
    OBVIOUS
  <2>1. PICK m \in Wrong : \A y \in Wrong : m <= y
    <3>1. Wrong \in SUBSET Nat
      OBVIOUS
    <3> HIDE DEF Wrong
    <3> QED BY <3>1, LeastNatural
  <2>2. PICK tt \in Seq(Seq(R)) : Len(tt) = m /\ ~P(tt)
    OBVIOUS
  <2>3. tt # << >>
    <3>1. ss \o << >> = ss /\ FlattenSeq(ss) \o << >> = FlattenSeq(ss)
      BY <1>0, ConcatEmptySeq
    <3> QED BY <2>2, <3>1, FlattenEmpty
  <2>4. PICK t \in Seq(Seq(R)), s \in Seq(R) : tt = Append(t, s) /\ m = Len(t) + 1 /\ Len(t) \in Nat
    BY <2>2, <2>3, EmptyOrAppend
  <2>5. Len(t) \notin Wrong
    <3> HIDE DEF Wrong
    <3> QED BY <2>1, <2>4
  <2>6. P(t)
    <3> HIDE DEF P
    <3> QED BY <2>4, <2>5
  <2>10. P(tt)
    BY <2>4, <2>6, FlattenConcatStep
  <2> HIDE DEF P
  <2> QED BY <2>2, <2>10
<1>2. ASSUME NEW tt \in Seq(Seq(R)) PROVE P(tt)
  <2>1. Len(tt) \in Nat /\ Len(tt) \notin Wrong
    BY <1>1
  <2> HIDE DEF P
  <2> QED BY <2>1
<1> QED BY <1>2

(* What is made of empty pieces is empty. *)
LEMMA FlattenNothing ==
  ASSUME NEW R
  PROVE  \A ss \in Seq(Seq(R)) : (\A n \in 1 .. Len(ss) : ss[n] = << >>) => FlattenSeq(ss) = << >>
<1> DEFINE P(ss) == (\A n \in 1 .. Len(ss) : ss[n] = << >>) => FlattenSeq(ss) = << >>
           Wrong == {n \in Nat : \E ss \in Seq(Seq(R)) : Len(ss) = n /\ ~P(ss)}
<1>1. Wrong = {}
  <2> SUFFICES ASSUME Wrong # {} PROVE FALSE
    OBVIOUS
  <2>1. PICK m \in Wrong : \A y \in Wrong : m <= y
    <3>1. Wrong \in SUBSET Nat
      OBVIOUS
    <3> HIDE DEF Wrong
    <3> QED BY <3>1, LeastNatural
  <2>2. PICK ss \in Seq(Seq(R)) : Len(ss) = m /\ ~P(ss)
    OBVIOUS
  <2>3. ss # << >>
    BY <2>2, FlattenEmpty
  <2>4. PICK t \in Seq(Seq(R)), s \in Seq(R) : ss = Append(t, s) /\ m = Len(t) + 1 /\ Len(t) \in Nat
    BY <2>2, <2>3, EmptyOrAppend
  <2>5. Len(t) \notin Wrong
    <3> HIDE DEF Wrong
    <3> QED BY <2>1, <2>4
  <2>6. P(t)
    <3> HIDE DEF P
    <3> QED BY <2>4, <2>5
  <2>7. s = << >> /\ \A n \in 1 .. Len(t) : t[n] = << >>
    <3>1. /\ \A n \in 1 .. Len(t) : ss[n] = t[n] /\ n \in 1 .. Len(ss)
          /\ ss[Len(t) + 1] = s /\ Len(t) + 1 \in 1 .. Len(ss)
      BY <2>2, <2>4, LongerSeq
    <3> QED BY <2>2, <3>1
  <2>8. FlattenSeq(ss) = FlattenSeq(t) \o s
    BY <2>4, FlattenAppend
  <2>9. << >> \o << >> = << >>
    OBVIOUS
  <2> QED BY <2>2, <2>6, <2>7, <2>8, <2>9
<1> QED BY <1>1

(***************************************************************************)
(* What a visitor gets.                                                    *)
(***************************************************************************)
One(i, first, end) == IF first <= i /\ i < end THEN <<i>> ELSE << >>
Ones(records, first, end) == [n \in 1 .. Len(records) |-> One(records[n], first, end)]

LEMMA PassedIsOnes ==
  ASSUME NEW records, NEW first, NEW end
  PROVE  Passed(records, first, end) = FlattenSeq(Ones(records, first, end))
BY DEF Passed, Ones, One

LEMMA OnesFacts ==
  ASSUME NEW R, NEW s \in Seq(R), NEW first, NEW end
  PROVE  /\ Ones(s, first, end) \in Seq(Seq(R))
         /\ Len(Ones(s, first, end)) = Len(s) /\ Len(s) \in Nat
         /\ \A n \in 1 .. Len(s) : Ones(s, first, end)[n] = One(s[n], first, end)
<1>1. Len(s) \in Nat /\ \A n \in 1 .. Len(s) : s[n] \in R
  OBVIOUS
<1>2. \A n \in 1 .. Len(s) : One(s[n], first, end) \in Seq(R)
  BY <1>1 DEF One
<1> QED BY <1>1, <1>2 DEF Ones

LEMMA PassedType ==
  ASSUME NEW R, NEW s \in Seq(R), NEW first, NEW end
  PROVE  Passed(s, first, end) \in Seq(R)
BY OnesFacts, PassedIsOnes, FlattenType

(* What is passed of two sequences is that of each in turn.                *)
LEMMA PassedConcat ==
  ASSUME NEW R, NEW s \in Seq(R), NEW t \in Seq(R), NEW first, NEW end
  PROVE  Passed(s \o t, first, end) = Passed(s, first, end) \o Passed(t, first, end)
<1>1. PICK S1 \in Seq(Seq(R)) : S1 = Ones(s, first, end)
  BY OnesFacts
<1>2. PICK T1 \in Seq(Seq(R)) : T1 = Ones(t, first, end)
  BY OnesFacts
<1>3. PICK u \in Seq(R) : u = s \o t
  BY ConcatProperties
<1>4. PICK U1 : U1 = Ones(u, first, end)
  OBVIOUS
<1>5. /\ u \in Seq(R) /\ Len(u) = Len(s) + Len(t) /\ Len(s) \in Nat /\ Len(t) \in Nat
      /\ \A n \in 1 .. Len(s) + Len(t) : u[n] = IF n <= Len(s) THEN s[n] ELSE t[n - Len(s)]
  BY <1>3, ConcatProperties
<1>6. S1 \in Seq(Seq(R)) /\ Len(S1) = Len(s) /\ \A n \in 1 .. Len(s) : S1[n] = One(s[n], first, end)
  BY <1>1, OnesFacts
<1>7. T1 \in Seq(Seq(R)) /\ Len(T1) = Len(t) /\ \A n \in 1 .. Len(t) : T1[n] = One(t[n], first, end)
  BY <1>2, OnesFacts
<1>8. U1 \in Seq(Seq(R)) /\ Len(U1) = Len(u) /\ \A n \in 1 .. Len(u) : U1[n] = One(u[n], first, end)
  BY <1>4, OnesFacts
<1>9. /\ S1 \o T1 \in Seq(Seq(R)) /\ Len(S1 \o T1) = Len(S1) + Len(T1)
      /\ \A n \in 1 .. Len(S1) + Len(T1) :
           (S1 \o T1)[n] = IF n <= Len(S1) THEN S1[n] ELSE T1[n - Len(S1)]
  BY ConcatProperties
<1>10. ASSUME NEW n \in 1 .. Len(U1)
       PROVE  U1[n] = (S1 \o T1)[n]
  <2>1. U1[n] = One(u[n], first, end) /\ n \in 1 .. Len(s) + Len(t)
    BY <1>5, <1>8
  <2>2. CASE n <= Len(s)
    <3>1. n \in 1 .. Len(s)
      BY <1>5, <2>1, <2>2
    <3>2. u[n] = s[n] /\ (S1 \o T1)[n] = S1[n]
      BY <1>5, <1>6, <1>7, <1>9, <2>1, <2>2
    <3> QED BY <1>6, <2>1, <3>1, <3>2
  <2>3. CASE ~(n <= Len(s))
    <3>1. n - Len(s) \in 1 .. Len(t)
      BY <1>5, <2>1, <2>3
    <3>2. u[n] = t[n - Len(s)] /\ (S1 \o T1)[n] = T1[n - Len(s)]
      BY <1>5, <1>6, <1>7, <1>9, <2>1, <2>3
    <3> QED BY <1>7, <2>1, <3>1, <3>2
  <2> QED BY <2>2, <2>3
<1>11. U1 = S1 \o T1
  BY <1>5, <1>6, <1>7, <1>8, <1>9, <1>10, SeqEqual
<1>12. FlattenSeq(S1 \o T1) = FlattenSeq(S1) \o FlattenSeq(T1)
  BY <1>6, <1>7, FlattenConcat
<1> QED BY <1>1, <1>2, <1>3, <1>4, <1>11, <1>12, PassedIsOnes

(* Nothing is passed of records that are outside the range.                *)
LEMMA PassedNothing ==
  ASSUME NEW R, NEW s \in Seq(R), NEW first, NEW end,
         \A n \in 1 .. Len(s) : ~(first <= s[n] /\ s[n] < end)
  PROVE  Passed(s, first, end) = << >>
<1>1. \A n \in 1 .. Len(s) : One(s[n], first, end) = << >>
  BY DEF One
<1>2. /\ Ones(s, first, end) \in Seq(Seq(R)) /\ Len(Ones(s, first, end)) = Len(s)
      /\ \A n \in 1 .. Len(s) : Ones(s, first, end)[n] = << >>
  BY <1>1, OnesFacts
<1> QED BY <1>2, FlattenNothing, PassedIsOnes

(* A visitor of the pieces gets what one of the whole gets. *)
LEMMA PassedFlatten ==
  ASSUME NEW R, NEW first, NEW end
  PROVE  \A ss \in Seq(Seq(R)) :
           FlattenSeq([n \in 1 .. Len(ss) |-> Passed(ss[n], first, end)])
             = Passed(FlattenSeq(ss), first, end)
<1> DEFINE K(s) == Passed(s, first, end)
           Each(ss) == [n \in 1 .. Len(ss) |-> K(ss[n])]
           P(ss) == FlattenSeq(Each(ss)) = K(FlattenSeq(ss))
           Wrong == {n \in Nat : \E ss \in Seq(Seq(R)) : Len(ss) = n /\ ~P(ss)}
<1>1. Wrong = {}
  <2> SUFFICES ASSUME Wrong # {} PROVE FALSE
    OBVIOUS
  <2>1. PICK m \in Wrong : \A y \in Wrong : m <= y
    <3>1. Wrong \in SUBSET Nat
      OBVIOUS
    <3> HIDE DEF Wrong
    <3> QED BY <3>1, LeastNatural
  <2>2. PICK ss \in Seq(Seq(R)) : Len(ss) = m /\ ~P(ss)
    OBVIOUS
  <2>3. ss # << >>
    <3>1. Each(<< >>) = << >>
      OBVIOUS
    <3>2. K(<< >>) = << >>
      BY FlattenEmpty DEF Passed
    <3>3. P(<< >>)
      BY <3>1, <3>2, FlattenEmpty
    <3> QED BY <2>2, <3>3
  <2>4. PICK t \in Seq(Seq(R)), s \in Seq(R) : ss = Append(t, s) /\ m = Len(t) + 1 /\ Len(t) \in Nat
    BY <2>2, <2>3, EmptyOrAppend
  <2>5. Len(t) \notin Wrong
    <3> HIDE DEF Wrong
    <3> QED BY <2>1, <2>4
  <2>6. P(t)
    <3> HIDE DEF P
    <3> QED BY <2>4, <2>5
  <2>7. FlattenSeq(ss) = FlattenSeq(t) \o s /\ FlattenSeq(t) \in Seq(R)
    BY <2>4, FlattenAppend, FlattenType
  <2>8. K(FlattenSeq(ss)) = K(FlattenSeq(t)) \o K(s)
    BY <2>7, PassedConcat
  <2>9. /\ \A n \in 1 .. Len(t) : K(t[n]) \in Seq(R) /\ ss[n] = t[n]
        /\ K(s) \in Seq(R) /\ ss[Len(t) + 1] = s /\ Len(ss) = Len(t) + 1
    BY <2>4, PassedType, LongerSeq
  <2>10. Each(t) \in Seq(Seq(R)) /\ Len(Each(t)) = Len(t)
    <3> HIDE DEF K
    <3> QED BY <2>4, <2>9
  <2>11. Each(ss) = Append(Each(t), K(s))
    <3> HIDE DEF K
    <3>1. /\ Append(Each(t), K(s)) \in Seq(Seq(R)) /\ Len(Append(Each(t), K(s))) = Len(t) + 1
          /\ \A n \in 1 .. Len(t) : Append(Each(t), K(s))[n] = Each(t)[n]
          /\ Append(Each(t), K(s))[Len(t) + 1] = K(s)
      <4> HIDE DEF Each
      <4> QED BY <2>9, <2>10, LongerSeq
    <3>2. /\ Each(ss) \in Seq(Seq(R)) /\ Len(Each(ss)) = Len(t) + 1
          /\ \A n \in 1 .. Len(t) : Each(ss)[n] = K(t[n]) /\ Each(t)[n] = K(t[n])
          /\ Each(ss)[Len(t) + 1] = K(s)
      BY <2>4, <2>9
    <3>3. \A n \in 1 .. Len(t) + 1 : n \in 1 .. Len(t) \/ n = Len(t) + 1
      BY <2>4
    <3>4. \A n \in 1 .. Len(t) + 1 : Each(ss)[n] = Append(Each(t), K(s))[n]
      BY <3>1, <3>2, <3>3
    <3> HIDE DEF Each
    <3> QED BY <3>1, <3>2, <3>4, SeqEqual
  <2>12. FlattenSeq(Each(ss)) = FlattenSeq(Each(t)) \o K(s)
    <3> HIDE DEF Each, K
    <3> QED BY <2>9, <2>10, <2>11, FlattenAppend
  <2>13. P(ss)
    BY <2>6, <2>8, <2>12
  <2> HIDE DEF P
  <2> QED BY <2>2, <2>13
<1>2. ASSUME NEW ss \in Seq(Seq(R)) PROVE P(ss)
  <2>1. Len(ss) \in Nat /\ Len(ss) \notin Wrong
    BY <1>1
  <2> HIDE DEF P
  <2> QED BY <2>1
<1> QED BY <1>2

-----------------------------------------------------------------------------
(***************************************************************************)
(* The blocks of a stream can be read back, and what a visit skips has no  *)
(* record of its range.                                                    *)
(***************************************************************************)
Checksums(bs) == [n \in 1 .. Len(bs) |-> bs[n].checksum]

LEMMA ChecksumFacts ==
  ASSUME NEW bs \in Seq(Block)
  PROVE  /\ Checksums(bs) \in Seq(Seq(Records)) /\ Len(Checksums(bs)) = Len(bs) /\ Len(bs) \in Nat
         /\ \A n \in 1 .. Len(bs) : Checksums(bs)[n] = bs[n].checksum /\ bs[n] \in Block
<1>1. Len(bs) \in Nat /\ \A n \in 1 .. Len(bs) : bs[n] \in Block
  OBVIOUS
<1>2. \A b \in Block : b.checksum \in Seq(Records)
  BY DEF Block
<1> QED BY <1>1, <1>2 DEF Checksums

(* One block more is its records more.                                     *)
LEMMA ChecksumsAppend ==
  ASSUME NEW bs \in Seq(Block), NEW b \in Block
  PROVE  /\ FlattenSeq(Checksums(Append(bs, b))) = FlattenSeq(Checksums(bs)) \o b.checksum
         /\ FlattenSeq(Checksums(bs)) \in Seq(Records) /\ b.checksum \in Seq(Records)
<1>1. b.checksum \in Seq(Records)
  BY DEF Block
<1>2. /\ Append(bs, b) \in Seq(Block) /\ Len(Append(bs, b)) = Len(bs) + 1 /\ Len(bs) \in Nat
      /\ \A n \in 1 .. Len(bs) : Append(bs, b)[n] = bs[n]
      /\ Append(bs, b)[Len(bs) + 1] = b
  BY LongerSeq
<1>3. PICK c \in Seq(Seq(Records)) : c = Checksums(bs)
  BY ChecksumFacts
<1>4. Len(c) = Len(bs) /\ \A n \in 1 .. Len(bs) : c[n] = bs[n].checksum
  BY <1>3, ChecksumFacts
<1>5. PICK more \in Seq(Seq(Records)) : more = Checksums(Append(bs, b))
  BY <1>2, ChecksumFacts
<1>6. /\ Len(more) = Len(bs) + 1
      /\ \A n \in 1 .. Len(bs) + 1 : more[n] = Append(bs, b)[n].checksum
  BY <1>2, <1>5, ChecksumFacts
<1>7. /\ Append(c, b.checksum) \in Seq(Seq(Records)) /\ Len(Append(c, b.checksum)) = Len(c) + 1
      /\ \A n \in 1 .. Len(c) : Append(c, b.checksum)[n] = c[n]
      /\ Append(c, b.checksum)[Len(c) + 1] = b.checksum
  BY <1>1, LongerSeq
<1>8. ASSUME NEW n \in 1 .. Len(more) PROVE more[n] = Append(c, b.checksum)[n]
  <2>1. CASE n = Len(bs) + 1
    BY <1>2, <1>4, <1>6, <1>7, <2>1
  <2>2. CASE n \in 1 .. Len(bs)
    BY <1>2, <1>4, <1>6, <1>7, <2>2
  <2>3. n = Len(bs) + 1 \/ n \in 1 .. Len(bs)
    BY <1>2, <1>6
  <2> QED BY <2>1, <2>2, <2>3
<1>9. more = Append(c, b.checksum)
  BY <1>2, <1>4, <1>6, <1>7, <1>8, SeqEqual
<1>10. FlattenSeq(more) = FlattenSeq(c) \o b.checksum /\ FlattenSeq(c) \in Seq(Records)
  BY <1>1, <1>9, FlattenAppend, FlattenType
<1> QED BY <1>1, <1>3, <1>5, <1>10

(* A block that is skipped has no record of the range.                     *)
LEMMA SkippedFacts ==
  ASSUME NEW b \in Block, NEW first \in Nat, NEW end \in Nat, Skipped(b, first, end),
         \A i \in ToSet(b.checksum) : b.minimum <= i /\ i <= b.maximum
  PROVE  Passed(b.checksum, first, end) = << >>
<1>1. /\ Records \subseteq Nat
      /\ b.checksum \in Seq(Records) /\ b.minimum \in Records /\ b.maximum \in Records
  <2>1. Records \subseteq Nat
    BY StoreAssumption, PartitionAssumption DEF Index
  <2> QED BY <2>1 DEF Block
<1>2. ASSUME NEW n \in 1 .. Len(b.checksum)
      PROVE  ~(first <= b.checksum[n] /\ b.checksum[n] < end)
  <2>1. b.checksum[n] \in ToSet(b.checksum) /\ b.checksum[n] \in Nat
    <3>1. PICK c \in Seq(Records) : c = b.checksum
      BY <1>1
    <3>2. DOMAIN c = 1 .. Len(c) /\ c[n] \in Records
      BY <3>1
    <3> QED BY <1>1, <3>1, <3>2 DEF ToSet
  <2>2. b.minimum <= b.checksum[n] /\ b.checksum[n] <= b.maximum
    BY <2>1
  <2>3. b.minimum \in Nat /\ b.maximum \in Nat
    BY <1>1
  <2> QED BY <2>1, <2>2, <2>3 DEF Skipped
<1> QED BY <1>1, <1>2, PassedNothing

(* The blocks that are not skipped have all of them.                       *)
LEMMA MetFacts ==
  ASSUME NEW bs \in Seq(Block), NEW first \in Nat, NEW end \in Nat,
         \A n \in 1 .. Len(bs) : \A i \in ToSet(bs[n].checksum) : bs[n].minimum <= i /\ i <= bs[n].maximum
  PROVE  Met(bs, first, end) = Passed(FlattenSeq(Checksums(bs)), first, end)
<1>1. PICK c \in Seq(Seq(Records)) : c = Checksums(bs)
  BY ChecksumFacts
<1>2. Len(c) = Len(bs) /\ \A n \in 1 .. Len(bs) : c[n] = bs[n].checksum /\ bs[n] \in Block
  BY <1>1, ChecksumFacts
<1>3. ASSUME NEW n \in 1 .. Len(bs)
      PROVE  (IF Skipped(bs[n], first, end) THEN << >> ELSE Passed(bs[n].checksum, first, end))
               = Passed(c[n], first, end)
  BY <1>2, SkippedFacts
<1>4. Met(bs, first, end) = FlattenSeq([n \in 1 .. Len(c) |-> Passed(c[n], first, end)])
  BY <1>2, <1>3 DEF Met
<1> QED BY <1>1, <1>4, PassedFlatten

(* A block is written where the file ends: those before it stay whole.     *)
LEMMA FlushBlocks ==
  ASSUME StoreTypeOK, BlocksInv, NEW o \in Owner, NEW d \in Distances, pending[o][d] # << >>,
         NEW size \in BlockSizes, Flush(o, d, size)
  PROVE  BlocksInv'
<1>1. PICK records : records = pending[o][d]
  OBVIOUS
<1>2. PICK at : at = endOffset[o]
  OBVIOUS
<1>3. PICK new : new = NewBlock(o, records, size)
  OBVIOUS
<1>4. PICK f : f = file[o]
  OBVIOUS
<1>5. PICK g : g = Written(f, at, Cells(records, size))
  OBVIOUS
<1>6. /\ at \in Nat /\ size \in Nat /\ FileSize \in Nat /\ at + size <= FileSize
      /\ DOMAIN f = 1 .. FileSize
  BY <1>2, <1>4, StoreAssumption DEF StoreTypeOK, BlocksInv, Flush
<1>7. /\ file' = [file EXCEPT ![o] = g] /\ endOffset' = [endOffset EXCEPT ![o] = at + size]
      /\ blocks' = [blocks EXCEPT ![o][d] = Append(@, new)]
  BY <1>1, <1>2, <1>3, <1>4, <1>5 DEF Flush, Advanced
<1>8. /\ DOMAIN file' = Owner
      /\ \A v \in Owner : file'[v] = IF v = o THEN g ELSE file[v]
      /\ \A v \in Owner : endOffset'[v] = IF v = o THEN at + size ELSE endOffset[v]
  BY <1>7 DEF BlocksInv, StoreTypeOK
<1>9. /\ DOMAIN g = 1 .. FileSize
      /\ \A n \in 1 .. at : g[n] = f[n]
      /\ \A k \in 1 .. size : g[at + k] = [of |-> records, part |-> k]
  <2>1. DOMAIN Cells(records, size) = 1 .. size
    BY DEF Cells
  <2>2. g = [n \in 1 .. FileSize |-> IF n - at \in 1 .. size THEN Cells(records, size)[n - at] ELSE f[n]]
    BY <1>5, <1>6, <2>1 DEF Written
  <2>3. ASSUME NEW n \in 1 .. at PROVE g[n] = f[n]
    <3>1. n \in 1 .. FileSize /\ n - at \notin 1 .. size
      BY <1>6
    <3> QED BY <2>2, <3>1
  <2>4. ASSUME NEW k \in 1 .. size PROVE g[at + k] = [of |-> records, part |-> k]
    <3>1. at + k \in 1 .. FileSize /\ (at + k) - at = k
      BY <1>6
    <3>2. Cells(records, size)[k] = [of |-> records, part |-> k]
      BY DEF Cells
    <3> QED BY <2>2, <3>1, <3>2
  <2> QED BY <2>2, <2>3, <2>4
<1>10. /\ new.offset = at /\ new.size = size /\ new.checksum = records
       /\ \A i \in ToSet(records) : new.minimum <= i /\ i <= new.maximum
  <2>1. records \in Seq(Records) /\ records # << >>
    BY <1>1 DEF StoreTypeOK
  <2>2. Records \subseteq 0 .. Positions - 1 /\ Positions - 1 \in Nat
    BY StoreAssumption, PartitionAssumption DEF Index
  <2>3. /\ ToSet(records) \in SUBSET Nat /\ ToSet(records) \in SUBSET (0 .. Positions - 1)
        /\ ToSet(records) # {}
    <3>1. ToSet(records) \subseteq Records /\ ToSet(records) # {}
      BY <2>1, ToSetFacts
    <3>2. ToSet(records) \subseteq 0 .. Positions - 1
      BY <2>2, <3>1, Zenon
    <3>3. 0 .. Positions - 1 \subseteq Nat
      BY <2>2
    <3> QED BY <3>1, <3>2, <3>3, Zenon
  <2>4. \A i \in ToSet(records) : Min(ToSet(records)) <= i
    BY <2>3, MinFacts
  <2>5. \A i \in ToSet(records) : Max(ToSet(records)) >= i /\ Max(ToSet(records)) \in Nat
    <3>1. /\ Max(ToSet(records)) \in ToSet(records)
          /\ \A i \in ToSet(records) : Max(ToSet(records)) >= i
      BY <2>2, <2>3, MaxFacts
    <3> QED BY <2>3, <3>1
  <2> QED BY <1>2, <1>3, <2>3, <2>4, <2>5 DEF NewBlock
<1>11. /\ blocks[o][d] \in Seq(Block)
       /\ blocks \in [Owner -> [Distances -> Seq(Block)]]
  BY DEF StoreTypeOK
<1>12. ASSUME NEW v \in Owner, NEW e \in Distances, NEW b \in Block, BlockInv(v, b)
       PROVE  BlockInv(v, b)'
  <2>1. b.offset \in Nat /\ b.size \in Nat
    BY DEF Block
  <2>2. CASE v = o
    <3>1. b.offset + b.size <= at /\ b.offset + b.size <= endOffset'[v]
      BY <1>2, <1>6, <1>8, <1>12, <2>1, <2>2 DEF BlockInv
    <3>2. ASSUME NEW k \in 1 .. b.size
          PROVE  file'[v][b.offset + k] = [of |-> b.checksum, part |-> k]
      <4>1. b.offset + k \in 1 .. at
        BY <1>6, <2>1, <3>1
      <4>2. f[b.offset + k] = [of |-> b.checksum, part |-> k]
        BY <1>4, <1>12, <2>2 DEF BlockInv, Whole
      <4> QED BY <1>8, <1>9, <2>2, <4>1, <4>2
    <3> QED BY <1>12, <3>1, <3>2 DEF BlockInv, Whole
  <2>3. CASE v # o
    BY <1>8, <1>12, <2>3 DEF BlockInv, Whole
  <2> QED BY <2>2, <2>3
<1>13. BlockInv(o, new)'
  <2>1. \A k \in 1 .. new.size : file'[o][new.offset + k] = [of |-> new.checksum, part |-> k]
    BY <1>8, <1>9, <1>10
  <2>2. new.offset + new.size <= endOffset'[o]
    BY <1>6, <1>8, <1>10
  <2> QED BY <1>10, <2>1, <2>2 DEF BlockInv, Whole
<1>14. ASSUME NEW v \in Owner, NEW e \in Distances, NEW n \in 1 .. Len(blocks'[v][e]),
              NEW b, b = blocks'[v][e][n]
       PROVE  BlockInv(v, b)'
  <2>1. CASE v = o /\ e = d
    <3>1. blocks'[v][e] = Append(blocks[o][d], new)
      BY <1>7, <1>11, <2>1
    <3>2. /\ Len(Append(blocks[o][d], new)) = Len(blocks[o][d]) + 1 /\ Len(blocks[o][d]) \in Nat
          /\ \A m \in 1 .. Len(blocks[o][d]) :
               Append(blocks[o][d], new)[m] = blocks[o][d][m] /\ blocks[o][d][m] \in Block
          /\ Append(blocks[o][d], new)[Len(blocks[o][d]) + 1] = new
      BY <1>11
    <3>3. CASE n = Len(blocks[o][d]) + 1
      <4>1. b = new
        BY <1>14, <3>1, <3>2, <3>3
      <4> QED BY <1>13, <2>1, <4>1
    <3>4. CASE n \in 1 .. Len(blocks[o][d])
      <4>1. b = blocks[o][d][n] /\ b \in Block
        BY <1>14, <3>1, <3>2, <3>4
      <4>2. BlockInv(v, b)
        BY <2>1, <3>4, <4>1 DEF BlocksInv
      <4> QED BY <1>12, <2>1, <4>1, <4>2
    <3>5. n = Len(blocks[o][d]) + 1 \/ n \in 1 .. Len(blocks[o][d])
      BY <3>1, <3>2
    <3> QED BY <3>3, <3>4, <3>5
  <2>2. CASE ~(v = o /\ e = d)
    <3>1. blocks'[v][e] = blocks[v][e] /\ blocks[v][e] \in Seq(Block)
      BY <1>7, <1>11, <2>2
    <3>2. n \in 1 .. Len(blocks[v][e]) /\ b = blocks[v][e][n] /\ b \in Block
      BY <1>14, <3>1
    <3>3. BlockInv(v, b)
      BY <3>2 DEF BlocksInv
    <3> QED BY <1>12, <3>2, <3>3
  <2> QED BY <2>1, <2>2
<1>15. \A v \in Owner : DOMAIN file'[v] = 1 .. FileSize /\ endOffset'[v] <= FileSize
  BY <1>6, <1>8, <1>9 DEF BlocksInv
<1>16. \A v \in Owner : \A e \in Distances : \A n \in 1 .. Len(blocks'[v][e]) :
         /\ blocks'[v][e][n].offset + blocks'[v][e][n].size <= endOffset'[v]
         /\ \A i \in ToSet(blocks'[v][e][n].checksum) :
              blocks'[v][e][n].minimum <= i /\ i <= blocks'[v][e][n].maximum
         /\ \A k \in 1 .. blocks'[v][e][n].size :
              file'[v][blocks'[v][e][n].offset + k] = [of |-> blocks'[v][e][n].checksum, part |-> k]
  <2> TAKE v \in Owner
  <2> TAKE e \in Distances
  <2> TAKE n \in 1 .. Len(blocks'[v][e])
  <2>1. PICK b : b = blocks'[v][e][n]
    OBVIOUS
  <2>2. BlockInv(v, b)'
    BY <1>14, <2>1
  <2> QED BY <2>1, <2>2 DEF BlockInv, Whole
<1> QED BY <1>8, <1>15, <1>16 DEF BlocksInv, BlockInv, Whole

LEMMA BlocksInitially == ASSUME Init PROVE BlocksInv
<1>1. \A o \in Owner : \A d \in Distances : blocks[o][d] = << >>
  BY DEF Init, StoreFrom
<1>2. \A o \in Owner : \A d \in Distances : 1 .. Len(blocks[o][d]) = {}
  BY <1>1
<1> QED BY <1>2, StoreAssumption DEF Init, StoreFrom, BlocksInv

LEMMA BlocksStep ==
  ASSUME StoreTypeOK, BlocksInv, [Next]_storeVars
  PROVE  BlocksInv'
<1>1. CASE UNCHANGED <<blocks, file, endOffset>>
  BY <1>1 DEF BlocksInv, BlockInv, Whole
<1>2. CASE \E o \in Owner : \E d \in Distances :
             pending[o][d] # << >> /\ \E size \in BlockSizes : Flush(o, d, size)
  BY <1>2, FlushBlocks
<1>3. ASSUME NEW o \in Owner, FlushFull(o), ~UNCHANGED <<blocks, file, endOffset>>
      PROVE  BlocksInv'
  <2>1. thread[o].op = "flush" /\ thread[o].distance \in Distances
    <3>1. thread[o].op = "flush" /\ thread[o] \in {Idle} \cup Raising \cup Flushing
      BY <1>3, ThreadFacts DEF FlushFull
    <3> QED BY <3>1, ThreadFacts
  <2>2. Len(pending[o][thread[o].distance]) = BlockRecords => pending[o][thread[o].distance] # << >>
    BY StoreAssumption
  <2> QED BY <1>2, <1>3, <2>1, <2>2 DEF FlushFull
<1>4. ASSUME NEW o \in Owner, NEW d \in Distances, NEW i \in Records,
             Raise(o) \/ FlushFails(o) \/ AppendRecord(o, d, i) \/ VisitFails(o, d)
      PROVE  UNCHANGED <<blocks, file, endOffset>>
  BY <1>4 DEF Raise, FlushFails, AppendRecord, VisitFails
<1>5. ASSUME NEW o \in Owner, NEW d \in Distances, NEW r \in Ranges,
             VisitRange(o, d, r[1], r[2]) \/ FinishStream(o, d)
      PROVE  BlocksInv'
  BY <1>1, <1>2, <1>5 DEF VisitRange, FinishStream
<1>6. CASE UNCHANGED storeVars
  BY <1>1, <1>6 DEF storeVars
<1>7. ASSUME NEW o \in Owner, Raise(o) \/ FlushFails(o)
      PROVE  UNCHANGED <<blocks, file, endOffset>>
  BY <1>7 DEF Raise, FlushFails
<1>8. ASSUME NEW o \in Owner, NEW d \in Distances, FinishStream(o, d)
      PROVE  BlocksInv'
  BY <1>2, <1>8 DEF FinishStream
<1>9. ASSUME NEW o \in Owner, NEW d \in Distances, VisitFails(o, d)
      PROVE  UNCHANGED <<blocks, file, endOffset>>
  BY <1>9 DEF VisitFails
<1> QED BY <1>1, <1>3, <1>4, <1>5, <1>6, <1>7, <1>8, <1>9 DEF Next

-----------------------------------------------------------------------------
(***************************************************************************)
(* The store implements plain sequences (RecordStreams).                   *)
(***************************************************************************)
StreamRecords(o, d) == FlattenSeq(Checksums(blocks[o][d])) \o pending[o][d]
Plain == [o \in Owner |-> [d \in Distances |-> StreamRecords(o, d)]]

(* What can be read of a stream is all of it. *)
LEMMA StoredFacts ==
  ASSUME BlocksInv
  PROVE  Contents = Plain
<1>1. ASSUME NEW o \in Owner, NEW d \in Distances PROVE Stored(o, d) = StreamRecords(o, d)
  <2>1. \A n \in 1 .. Len(blocks[o][d]) : Whole(file[o], blocks[o][d][n])
    BY DEF BlocksInv, BlockInv
  <2>2. [n \in 1 .. Len(blocks[o][d]) |->
          IF Whole(file[o], blocks[o][d][n]) THEN blocks[o][d][n].checksum ELSE << >>]
            = Checksums(blocks[o][d])
    BY <2>1 DEF Checksums
  <2> QED BY <2>2 DEF Stored, StreamRecords
<1> QED BY <1>1 DEF Contents, Plain

LEMMA RecordsFacts ==
  ASSUME StoreTypeOK, NEW o \in Owner, NEW d \in Distances
  PROVE  /\ FlattenSeq(Checksums(blocks[o][d])) \in Seq(Records)
         /\ blocks[o][d] \in Seq(Block) /\ pending[o][d] \in Seq(Records)
         /\ StreamRecords(o, d) \in Seq(Records)
<1>1. blocks[o][d] \in Seq(Block) /\ pending[o][d] \in Seq(Records)
  BY DEF StoreTypeOK
<1>2. FlattenSeq(Checksums(blocks[o][d])) \in Seq(Records)
  BY <1>1, ChecksumFacts, FlattenType
<1> QED BY <1>1, <1>2, ConcatProperties DEF StreamRecords

(* A flush changes nothing of what is in the stream.                       *)
LEMMA FlushKeeps ==
  ASSUME StoreTypeOK, NEW o \in Owner, NEW d \in Distances, pending[o][d] # << >>,
         NEW size \in BlockSizes, Flush(o, d, size), pending' = [pending EXCEPT ![o][d] = << >>]
  PROVE  /\ Plain' = Plain
         /\ FlattenSeq(Checksums(blocks'[o][d])) = StreamRecords(o, d)
         /\ blocks'[o][d] \in Seq(Block)
<1>1. blocks' \in [Owner -> [Distances -> Seq(Block)]]
  BY FlushFacts
<1>2. PICK new : new = NewBlock(o, pending[o][d], size)
  OBVIOUS
<1>3. blocks' = [blocks EXCEPT ![o][d] = Append(@, new)] /\ new.checksum = pending[o][d]
  BY <1>2 DEF Flush, NewBlock
<1>4. /\ blocks \in [Owner -> [Distances -> Seq(Block)]]
      /\ pending \in [Owner -> [Distances -> Seq(Records)]]
  BY DEF StoreTypeOK
<1>5. blocks'[o][d] = Append(blocks[o][d], new) /\ blocks'[o][d] \in Seq(Block) /\ blocks[o][d] \in Seq(Block)
  BY <1>1, <1>3, <1>4
<1>6. new \in Block
  <2>1. PICK bs \in Seq(Block) : bs = blocks'[o][d]
    BY <1>5
  <2>2. Len(bs) = Len(blocks[o][d]) + 1 /\ Len(blocks[o][d]) \in Nat /\ bs[Len(blocks[o][d]) + 1] = new
    BY <1>5, <2>1
  <2> QED BY <2>2
<1>7. FlattenSeq(Checksums(blocks'[o][d])) = StreamRecords(o, d)
  BY <1>3, <1>5, <1>6, ChecksumsAppend DEF StreamRecords
<1>8. StreamRecords(o, d)' = StreamRecords(o, d)
  <2>1. pending'[o][d] = << >>
    BY <1>4
  <2>2. StreamRecords(o, d) \in Seq(Records)
    BY RecordsFacts
  <2>3. StreamRecords(o, d) \o << >> = StreamRecords(o, d)
    BY <2>2, ConcatEmptySeq
  <2> QED BY <1>7, <2>1, <2>3 DEF StreamRecords
<1>9. ASSUME NEW v \in Owner, NEW e \in Distances PROVE StreamRecords(v, e)' = StreamRecords(v, e)
  <2>1. CASE v = o /\ e = d
    BY <1>8, <2>1
  <2>2. CASE ~(v = o /\ e = d)
    <3>1. blocks'[v][e] = blocks[v][e] /\ pending'[v][e] = pending[v][e]
      BY <1>3, <1>4, <2>2
    <3> QED BY <3>1 DEF StreamRecords
  <2> QED BY <2>1, <2>2
<1> QED BY <1>5, <1>7, <1>9 DEF Plain

(* A record that is appended goes behind all others of its stream, and     *)
(* nowhere else.                                                           *)
LEMMA AppendKeeps ==
  ASSUME StoreTypeOK, NEW o \in Owner, NEW d \in Distances, NEW i \in Records,
         AppendRecord(o, d, i)
  PROVE  Plain' = [Plain EXCEPT ![o][d] = Append(@, i)]
<1>1. /\ pending' = [pending EXCEPT ![o][d] = Append(@, i)] /\ blocks' = blocks
      /\ pending \in [Owner -> [Distances -> Seq(Records)]]
  BY DEF AppendRecord, StoreTypeOK
<1>2. StreamRecords(o, d)' = Append(StreamRecords(o, d), i)
  <2>1. pending'[o][d] = Append(pending[o][d], i)
    BY <1>1
  <2>2. PICK s \in Seq(Records) : s = FlattenSeq(Checksums(blocks[o][d]))
    BY RecordsFacts
  <2>3. PICK p \in Seq(Records) : p = pending[o][d]
    BY <1>1
  <2>4. s \o Append(p, i) = Append(s \o p, i)
    BY AppendRight
  <2> QED BY <1>1, <2>1, <2>2, <2>3, <2>4 DEF StreamRecords
<1>3. ASSUME NEW v \in Owner, NEW e \in Distances, ~(v = o /\ e = d)
      PROVE  StreamRecords(v, e)' = StreamRecords(v, e)
  <2>1. pending'[v][e] = pending[v][e]
    BY <1>1, <1>3
  <2> QED BY <1>1, <2>1 DEF StreamRecords
<1>4. Plain' = [v \in Owner |-> [e \in Distances |->
                  IF v = o /\ e = d THEN Append(StreamRecords(o, d), i) ELSE StreamRecords(v, e)]]
  BY <1>2, <1>3 DEF Plain
<1>5. [Plain EXCEPT ![o][d] = Append(@, i)]
        = [v \in Owner |-> [e \in Distances |->
             IF v = o /\ e = d THEN Append(StreamRecords(o, d), i) ELSE StreamRecords(v, e)]]
  BY DEF Plain
<1> QED BY <1>4, <1>5

(* A visit gets what is in its range, whichever blocks it skipped.         *)
LEMMA VisitMeets ==
  ASSUME StoreTypeOK, BlocksInv', NEW o \in Owner, NEW d \in Distances, NEW r \in Ranges,
         VisitRange(o, d, r[1], r[2])
  PROVE  /\ Plain' = Plain /\ UNCHANGED failed
         /\ answer' = Streams!InRange(Plain[o][d], r[1], r[2])
<1>1. r[1] \in Nat /\ r[2] \in Nat
  BY StoreAssumption
<1>2. /\ Plain' = Plain
      /\ FlattenSeq(Checksums(blocks'[o][d])) = StreamRecords(o, d)
      /\ blocks'[o][d] \in Seq(Block)
  <2>1. CASE pending[o][d] = << >>
    <3>1. UNCHANGED <<pending, blocks>>
      BY <2>1 DEF VisitRange
    <3>2. Plain' = Plain
      BY <3>1 DEF Plain, StreamRecords
    <3>3. FlattenSeq(Checksums(blocks[o][d])) \o << >> = FlattenSeq(Checksums(blocks[o][d]))
      BY RecordsFacts, ConcatEmptySeq
    <3> QED BY <2>1, <3>1, <3>2, <3>3, RecordsFacts DEF StreamRecords
  <2>2. CASE pending[o][d] # << >>
    BY <2>2, FlushKeeps DEF VisitRange
  <2> QED BY <2>1, <2>2
<1>3. PICK bs \in Seq(Block) : bs = blocks'[o][d]
  BY <1>2
<1>4. \A n \in 1 .. Len(bs) :
        /\ \A k \in 1 .. bs[n].size : file'[o][bs[n].offset + k] = [of |-> bs[n].checksum, part |-> k]
        /\ \A i \in ToSet(bs[n].checksum) : bs[n].minimum <= i /\ i <= bs[n].maximum
  BY <1>3 DEF BlocksInv, BlockInv, Whole
<1>5. answer' = Met(bs, r[1], r[2]) /\ UNCHANGED failed
  BY <1>3, <1>4 DEF VisitRange, Whole
<1>6. Met(bs, r[1], r[2]) = Passed(StreamRecords(o, d), r[1], r[2])
  BY <1>1, <1>2, <1>3, <1>4, MetFacts
<1>7. Plain[o][d] = StreamRecords(o, d)
  BY DEF Plain
<1>8. Streams!InRange(Plain[o][d], r[1], r[2]) = Passed(Plain[o][d], r[1], r[2])
  BY DEF Streams!InRange, Passed, Streams!FlattenSeq, FlattenSeq
<1> QED BY <1>2, <1>5, <1>6, <1>7, <1>8

(* Whatever the interleaving of the workers, their buffers, blocks and     *)
(* skipped blocks cannot be told from plain sequences: nothing that was    *)
(* appended is lost, changed or met twice (frontier_store_append,          *)
(* append_block and visit of frontier.c).                                  *)
THEOREM StreamsCorrect == Spec => RefinesStreams
<1> DEFINE StreamStep ==
      Streams!Break \/ \E o \in Owner, d \in Distances :
        \/ \E i \in Records : Streams!Append1(o, d, i)
        \/ \E r \in Ranges : Streams!Visit(o, d, r[1], r[2])
<1>1. Init => StoreTypeOK /\ MaximumInv /\ BlocksInv
  BY StoreInitially, BlocksInitially
<1>2. StoreTypeOK /\ MaximumInv /\ BlocksInv /\ [Next]_storeVars
        => (StoreTypeOK /\ MaximumInv /\ BlocksInv)'
  BY StoreStep, BlocksStep
<1>3. BlocksInv => Contents = Plain
  BY StoredFacts
<1>4. Init => Streams!Init
  <2> SUFFICES ASSUME Init PROVE Streams!Init
    OBVIOUS
  <2>1. /\ pending = [o \in Owner |-> [d \in Distances |-> << >>]]
        /\ blocks = [o \in Owner |-> [d \in Distances |-> << >>]]
        /\ answer = << >> /\ failed = FALSE
    BY DEF Init, StoreFrom
  <2>2. Checksums(<< >>) = << >> /\ << >> \o << >> = << >>
    BY DEF Checksums
  <2>3. Plain = [o \in Owner |-> [d \in Distances |-> << >>]]
    BY <2>1, <2>2, FlattenEmpty DEF Plain, StreamRecords
  <2> QED BY <1>1, <1>3, <2>1, <2>3 DEF Streams!Init, Streams!Nothing
<1>5. ASSUME StoreTypeOK, BlocksInv, BlocksInv', Contents = Plain, (Contents = Plain)',
             [Next]_storeVars
      PROVE  [StreamStep]_(Streams!streamVars)
  <2>1. ASSUME NEW o \in Owner, NEW d \in Distances, NEW i \in Records, AppendRecord(o, d, i)
        PROVE  Streams!Append1(o, d, i)
    <3>1. Contents' = [Contents EXCEPT ![o][d] = Append(@, i)]
      BY <1>5, <2>1, AppendKeeps
    <3> QED BY <2>1, <3>1 DEF AppendRecord, Streams!Append1, Streams!Nothing
  <2>2. ASSUME NEW o \in Owner, NEW d \in Distances, NEW r \in Ranges, VisitRange(o, d, r[1], r[2])
        PROVE  Streams!Visit(o, d, r[1], r[2])
    <3>1. ~failed
      BY <2>2 DEF VisitRange
    <3> QED BY <1>5, <2>2, <3>1, VisitMeets DEF Streams!Visit
  <2>3. CASE UNCHANGED <<pending, blocks, answer>> /\ failed' = TRUE
    <3>1. Contents' = Contents
      BY <1>5, <2>3 DEF Plain, StreamRecords
    <3> QED BY <2>3, <3>1 DEF Streams!Break
  <2>4. CASE UNCHANGED <<pending, blocks, answer, failed>>
    <3>1. Contents' = Contents
      BY <1>5, <2>4 DEF Plain, StreamRecords
    <3> QED BY <2>4, <3>1 DEF Streams!streamVars
  <2>5. ASSUME NEW o \in Owner, NEW d \in Distances, pending[o][d] # << >>,
               \E size \in BlockSizes : Flush(o, d, size),
               pending' = [pending EXCEPT ![o][d] = << >>], UNCHANGED <<answer, failed>>
        PROVE  UNCHANGED Streams!streamVars
    <3>1. Plain' = Plain
      BY <1>5, <2>5, FlushKeeps
    <3> QED BY <1>5, <2>5, <3>1 DEF Streams!streamVars
  <2>6. ASSUME NEW o \in Owner, FlushFull(o) PROVE UNCHANGED Streams!streamVars
    <3>1. thread[o].op = "flush" /\ thread[o].distance \in Distances
      <4>1. thread[o].op = "flush" /\ thread[o] \in {Idle} \cup Raising \cup Flushing
        BY <1>5, <2>6, ThreadFacts DEF FlushFull
      <4> QED BY <1>5, <4>1, ThreadFacts
    <3>2. Len(pending[o][thread[o].distance]) = BlockRecords
            => pending[o][thread[o].distance] # << >>
      BY StoreAssumption
    <3>3. CASE Len(pending[o][thread[o].distance]) = BlockRecords
      BY <2>5, <2>6, <3>1, <3>2, <3>3 DEF FlushFull
    <3>4. CASE Len(pending[o][thread[o].distance]) # BlockRecords
      <4>1. UNCHANGED <<pending, blocks, answer, failed>>
        BY <2>6, <3>4 DEF FlushFull
      <4>2. Contents' = Contents
        BY <1>5, <4>1 DEF Plain, StreamRecords
      <4> QED BY <4>1, <4>2 DEF Streams!streamVars
    <3> QED BY <3>3, <3>4
  <2>7. ASSUME NEW o \in Owner, NEW d \in Distances, FinishStream(o, d)
        PROVE  UNCHANGED Streams!streamVars
    BY <2>5, <2>7 DEF FinishStream
  <2>8. ASSUME NEW o \in Owner, Raise(o) PROVE UNCHANGED <<pending, blocks, answer, failed>>
    BY <2>8 DEF Raise
  <2>9. ASSUME NEW o \in Owner, FlushFails(o) \/ \E d \in Distances : VisitFails(o, d)
        PROVE  UNCHANGED <<pending, blocks, answer>> /\ failed' = TRUE
    BY <2>9 DEF FlushFails, VisitFails
  <2>10. CASE UNCHANGED storeVars
    BY <2>4, <2>10 DEF storeVars
  <2>11. CASE Next
    <3>1. PICK o \in Owner :
            \/ Raise(o) \/ FlushFull(o) \/ FlushFails(o)
            \/ \E d \in Distances :
                 \/ \E i \in Records : AppendRecord(o, d, i)
                 \/ \E r \in Ranges : VisitRange(o, d, r[1], r[2])
                 \/ VisitFails(o, d)
                 \/ FinishStream(o, d)
      BY <2>11 DEF Next
    <3> QED BY <2>1, <2>2, <2>3, <2>4, <2>6, <2>7, <2>8, <2>9, <3>1
  <2> QED BY <1>5, <2>10, <2>11
<1> HIDE DEF StreamStep
<1>6. Spec => Streams!Init /\ [][StreamStep]_(Streams!streamVars)
  BY <1>1, <1>2, <1>3, <1>4, <1>5, PTL DEF Spec
<1> QED BY <1>6 DEF RefinesStreams, StreamStep

-----------------------------------------------------------------------------
(***************************************************************************)
(* The merge of the slices.                                                *)
(***************************************************************************)

(* One step of the search: what the search of an interval comes down to.   *)
SearchSteps(g, s, target) ==
  \A lo, hi \in 0 .. EntryCount(s) :
     LET mid == lo + (hi - lo) \div 2 IN
     g[<<lo, hi>>] = IF lo >= hi THEN lo
                     ELSE IF FullIndex(s, mid) < target THEN g[<<mid + 1, hi>>]
                                                        ELSE g[<<lo, mid>>]

(* The binary search is well defined.                                      *)
LEMMA SearchSolved ==
  ASSUME NEW s, EntryCount(s) \in Nat, NEW target
  PROVE  \E g : SearchResult(s, target) = g[<<0, EntryCount(s)>>] /\ SearchSteps(g, s, target)
<1> DEFINE N == EntryCount(s)
           Low(mid) == FullIndex(s, mid) < target
           Intervals == (0 .. N) \X (0 .. N)
           Body(f, r) == IF r[1] >= r[2] THEN r[1]
                         ELSE IF Low(r[1] + (r[2] - r[1]) \div 2)
                              THEN f[<<r[1] + (r[2] - r[1]) \div 2 + 1, r[2]>>]
                              ELSE f[<<r[1], r[1] + (r[2] - r[1]) \div 2>>]
           Solves(f, n) == /\ f \in [Intervals -> 0 .. N]
                           /\ \A r \in Intervals : r[2] - r[1] <= n => f[r] = Body(f, r)
           Wrong == {n \in Nat : ~ \E f : Solves(f, n)}
<1> HIDE DEF Low
<1>0. N \in Nat
  OBVIOUS
<1> HIDE DEF N
<1>1. ASSUME NEW r \in Intervals, ~(r[1] >= r[2])
      PROVE  LET mid == r[1] + (r[2] - r[1]) \div 2
             IN  /\ mid \in 0 .. N /\ mid + 1 \in 0 .. N /\ r[1] <= mid /\ mid < r[2]
                 /\ <<mid + 1, r[2]>> \in Intervals /\ <<r[1], mid>> \in Intervals
                 /\ <<mid + 1, r[2]>>[1] = mid + 1 /\ <<mid + 1, r[2]>>[2] = r[2]
                 /\ <<r[1], mid>>[1] = r[1] /\ <<r[1], mid>>[2] = mid
                 /\ r[2] - (mid + 1) < r[2] - r[1] /\ mid - r[1] < r[2] - r[1]
  <2>1. r[1] \in 0 .. N /\ r[2] \in 0 .. N
    OBVIOUS
  <2>2. PICK mid : mid = r[1] + (r[2] - r[1]) \div 2
    OBVIOUS
  <2>3. mid \in 0 .. N /\ mid + 1 \in 0 .. N /\ r[1] <= mid /\ mid < r[2]
    BY <1>0, <1>1, <2>1, <2>2
  <2>4. r[2] - (mid + 1) < r[2] - r[1] /\ mid - r[1] < r[2] - r[1]
    BY <1>0, <2>1, <2>3
  <2>5. <<mid + 1, r[2]>> \in Intervals /\ <<r[1], mid>> \in Intervals
    BY <2>1, <2>3
  <2> HIDE DEF Intervals
  <2> QED BY <2>2, <2>3, <2>4, <2>5
<1>2. \A r \in Intervals : r[1] \in 0 .. N /\ r[2] \in 0 .. N
  OBVIOUS
<1> HIDE DEF Intervals
<1>3. \E f : Solves(f, 0)
  <2> DEFINE f == [r \in Intervals |-> r[1]]
  <2>1. f \in [Intervals -> 0 .. N] /\ \A r \in Intervals : f[r] = r[1]
    BY <1>2
  <2>2. \A r \in Intervals : r[2] - r[1] <= 0 => r[1] >= r[2]
    BY <1>0, <1>2
  <2> HIDE DEF f
  <2>3. Solves(f, 0)
    BY <2>1, <2>2
  <2> QED BY <2>3
<1>4. ASSUME NEW n \in Nat, NEW f, Solves(f, n) PROVE \E g : Solves(g, n + 1)
  <2> DEFINE g == [r \in Intervals |-> IF r[2] - r[1] <= n THEN f[r] ELSE Body(f, r)]
  <2>1. ASSUME NEW r \in Intervals PROVE Body(f, r) \in 0 .. N
    <3>1. CASE r[1] >= r[2]
      BY <1>2, <3>1
    <3>2. CASE ~(r[1] >= r[2])
      BY <1>1, <1>4, <3>2
    <3> QED BY <3>1, <3>2
  <2> HIDE DEF Body
  <2>2. g \in [Intervals -> 0 .. N]
    BY <1>4, <2>1
  <2>3. \A r \in Intervals : g[r] = IF r[2] - r[1] <= n THEN f[r] ELSE Body(f, r)
    OBVIOUS
  <2> HIDE DEF g
  <2>4. ASSUME NEW r \in Intervals, r[2] - r[1] <= n + 1
        PROVE  g[r] = Body(g, r)
    <3>0. r[1] \in 0 .. N /\ r[2] \in 0 .. N /\ g[r] = Body(f, r)
      BY <1>2, <1>4, <2>3
    <3>1. CASE r[1] >= r[2]
      BY <3>0, <3>1 DEF Body
    <3>2. CASE ~(r[1] >= r[2])
      <4>1. PICK mid : mid = r[1] + (r[2] - r[1]) \div 2
        OBVIOUS
      <4>2. /\ mid \in 0 .. N /\ mid + 1 \in 0 .. N
            /\ <<mid + 1, r[2]>> \in Intervals /\ <<r[1], mid>> \in Intervals
            /\ <<mid + 1, r[2]>>[1] = mid + 1 /\ <<mid + 1, r[2]>>[2] = r[2]
            /\ <<r[1], mid>>[1] = r[1] /\ <<r[1], mid>>[2] = mid
            /\ r[2] - (mid + 1) < r[2] - r[1] /\ mid - r[1] < r[2] - r[1]
        BY <1>1, <3>2, <4>1
      <4>3. r[2] - (mid + 1) <= n /\ mid - r[1] <= n
        BY ONLY <1>0, <2>4, <3>0, <4>2, n \in Nat
      <4>4. g[<<mid + 1, r[2]>>] = f[<<mid + 1, r[2]>>] /\ g[<<r[1], mid>>] = f[<<r[1], mid>>]
        BY <2>3, <4>2, <4>3
      <4>5. /\ Body(g, r) = IF Low(mid) THEN g[<<mid + 1, r[2]>>] ELSE g[<<r[1], mid>>]
            /\ Body(f, r) = IF Low(mid) THEN f[<<mid + 1, r[2]>>] ELSE f[<<r[1], mid>>]
        BY <3>2, <4>1 DEF Body
      <4> QED BY <3>0, <4>4, <4>5
    <3> QED BY <3>1, <3>2
  <2>5. Solves(g, n + 1)
    BY <2>2, <2>4
  <2> QED BY <2>5
<1>5. Wrong = {}
  <2> SUFFICES ASSUME Wrong # {} PROVE FALSE
    OBVIOUS
  <2>1. PICK n \in Wrong : \A k \in Wrong : n <= k
    <3>1. Wrong \in SUBSET Nat
      OBVIOUS
    <3> HIDE DEF Wrong
    <3> QED BY <3>1, LeastNatural
  <2> HIDE DEF Solves
  <2>2. n \in Nat /\ n # 0
    BY <1>3
  <2>3. n - 1 \in Nat /\ n = (n - 1) + 1 /\ ~(n <= n - 1)
    BY <2>2
  <2>4. n - 1 \notin Wrong
    <3> HIDE DEF Wrong
    <3> QED BY <2>1, <2>3
  <2>5. PICK f : Solves(f, n - 1)
    BY <2>3, <2>4
  <2>6. \E g : Solves(g, n)
    BY <1>4, <2>3, <2>5
  <2> QED BY <2>6
<1>6. PICK f : f = [r \in Intervals |-> Body(f, r)]
  <2>1. PICK f : Solves(f, N)
    <3> HIDE DEF Solves
    <3> QED BY <1>0, <1>5
  <2>2. \A r \in Intervals : r[2] - r[1] <= N
    BY <1>0, <1>2
  <2>3. f \in [Intervals -> 0 .. N] /\ \A r \in Intervals : f[r] = Body(f, r)
    BY <2>1, <2>2
  <2> HIDE DEF Body
  <2> QED BY <2>3
<1>7. PICK g : /\ g = [r \in Intervals |-> Body(g, r)]
               /\ SearchResult(s, target) = g[<<0, N>>]
  BY <1>6 DEF SearchResult, N, Low, Intervals
<1>8. \A r \in Intervals : g[r] = Body(g, r)
  <2> HIDE DEF Body
  <2> QED BY <1>7
<1>9. N \in 0 .. N /\ SearchResult(s, target) = g[<<0, EntryCount(s)>>]
  BY <1>0, <1>7 DEF N
<1>10. ASSUME NEW lo \in 0 .. N, NEW hi \in 0 .. N, NEW mid, mid = lo + (hi - lo) \div 2
       PROVE  g[<<lo, hi>>] = IF lo >= hi THEN lo
                              ELSE IF Low(mid) THEN g[<<mid + 1, hi>>] ELSE g[<<lo, mid>>]
  <2>0. <<lo, hi>> \in Intervals /\ <<lo, hi>>[1] = lo /\ <<lo, hi>>[2] = hi
    BY DEF Intervals
  <2>1. PICK r \in Intervals : r = <<lo, hi>> /\ r[1] = lo /\ r[2] = hi
    BY <2>0
  <2>2. g[r] = Body(g, r)
    BY <1>8, <2>1
  <2> QED BY <1>10, <2>1, <2>2
<1>11. SearchSteps(g, s, target)
  BY <1>10 DEF SearchSteps, N, Low
<1> QED BY <1>9, <1>11

(* Multiplication by a natural is monotonic. *)
LEMMA TimesMonotonic ==
  ASSUME NEW a \in Nat, NEW b \in Nat, NEW c \in Nat, a <= b
  PROVE  a * c <= b * c /\ a * c \in Nat /\ b * c \in Nat
OBVIOUS

(* The workers' ranges of pages follow each other and none is empty.       *)
LEMMA PageRanges ==
  /\ Pages \in Nat \ {0} /\ WorkerCount \in Nat \ {0}
  /\ MergedPositions <= Pages * PerPage /\ (Pages - 1) * PerPage < MergedPositions
  /\ FirstOutputPage(0) = 0 /\ FirstOutputPage(WorkerCount) = Pages
  /\ \A w \in 0 .. WorkerCount : FirstOutputPage(w) \in Nat
  /\ \A w, v \in 0 .. WorkerCount : w < v => FirstOutputPage(w) < FirstOutputPage(v)
<1>0. MergedPositions \in Nat \ {0} /\ PerPage \in Nat \ {0} /\ Threads \in Nat \ {0}
  BY MergeAssumption
<1>1. /\ Pages \in Nat \ {0}
      /\ MergedPositions <= Pages * PerPage /\ (Pages - 1) * PerPage < MergedPositions
  <2>1. PICK a \in Nat : a = MergedPositions + PerPage - 1
    BY <1>0
  <2>2. /\ a \div PerPage \in Nat /\ a % PerPage \in 0 .. PerPage - 1
        /\ a = (a \div PerPage) * PerPage + (a % PerPage)
    BY <1>0, DivFacts
  <2>3. PICK pages \in Nat : pages = a \div PerPage
    BY <2>2
  <2>4. PICK product \in Nat : product = pages * PerPage
    BY <1>0, <2>3
  <2>5. MergedPositions <= product
    BY ONLY <1>0, <2>1, <2>2, <2>3, <2>4
  <2>6. product - PerPage < MergedPositions
    BY ONLY <1>0, <2>1, <2>2, <2>3, <2>4
  <2>7. (pages - 1) * PerPage = product - PerPage
    BY ONLY <1>0, <2>3, <2>4
  <2>8. pages # 0
    BY ONLY <1>0, <2>4, <2>5
  <2>9. Pages = pages
    BY ONLY <2>1, <2>3 DEF Pages
  <2> QED BY <2>4, <2>5, <2>6, <2>7, <2>8, <2>9
<1>2. WorkerCount \in Nat \ {0} /\ WorkerCount <= Pages
  BY <1>0, <1>1 DEF WorkerCount
<1> DEFINE q == Pages \div WorkerCount
           r == Pages % WorkerCount
<1>3. q \in Nat /\ r \in 0 .. WorkerCount - 1 /\ Pages = q * WorkerCount + r
  BY <1>1, <1>2, DivFacts
<1>4. \A w : FirstOutputPage(w) = q * w + Smaller(w, r)
  BY DEF FirstOutputPage
<1>5. q >= 1
  <2> SUFFICES ASSUME q = 0 PROVE FALSE
    BY <1>3
  <2> HIDE DEF q, r
  <2>1. Pages = r
    BY <1>2, <1>3
  <2> QED BY <1>2, <1>3, <2>1
<1> HIDE DEF q, r
<1>6. FirstOutputPage(0) = 0 /\ FirstOutputPage(WorkerCount) = Pages
  <2>1. q * 0 = 0 /\ Smaller(0, r) = 0 /\ Smaller(WorkerCount, r) = r
    BY <1>2, <1>3 DEF Smaller
  <2> QED BY <1>2, <1>3, <1>4, <2>1
<1>7. \A w \in 0 .. WorkerCount : FirstOutputPage(w) \in Nat
  BY <1>2, <1>3, <1>4 DEF Smaller
<1>8. ASSUME NEW w \in 0 .. WorkerCount, NEW v \in 0 .. WorkerCount, w < v
      PROVE  FirstOutputPage(w) < FirstOutputPage(v)
  <2>1. w \in Nat /\ v \in Nat /\ v - w \in Nat /\ v - w >= 1
    BY <1>2, <1>8
  <2>2. q * v = q * w + q * (v - w) /\ q * (v - w) >= 1 * (v - w)
    BY ONLY <1>3, <1>5, <2>1
  <2>3. q * w < q * v /\ q * w \in Nat /\ q * v \in Nat
    BY ONLY <1>3, <2>1, <2>2
  <2>4. Smaller(w, r) <= Smaller(v, r) /\ Smaller(w, r) \in Nat /\ Smaller(v, r) \in Nat
    BY ONLY <1>2, <1>3, <1>8, <2>1 DEF Smaller
  <2>5. q * w + Smaller(w, r) < q * v + Smaller(v, r)
    BY ONLY <2>3, <2>4
  <2> QED BY <1>4, <2>5
<1> QED BY <1>1, <1>2, <1>6, <1>7, <1>8

(* The workers' ranges of positions follow each other, none is empty, and  *)
(* together they are the database.                                         *)
LEMMA MergeRanges ==
  /\ WorkerCount \in Nat \ {0}
  /\ \A w \in Merger : /\ BeginOf(w) \in Nat /\ EndOf(w) \in Nat
                       /\ BeginOf(w) < EndOf(w) /\ EndOf(w) <= MergedPositions
  /\ \A w, v \in Merger : w < v => EndOf(w) <= BeginOf(v)
  /\ \A i \in Full : \E w \in Merger : BeginOf(w) <= i /\ i < EndOf(w)
<1> USE DEF Merger
<1>0. MergedPositions \in Nat \ {0} /\ PerPage \in Nat \ {0}
  BY MergeAssumption
<1>1. WorkerCount \in Nat \ {0} /\ Pages \in Nat \ {0}
  BY PageRanges
<1>2. ASSUME NEW w \in Merger
      PROVE  /\ w \in 0 .. WorkerCount /\ w + 1 \in 0 .. WorkerCount
             /\ FirstOutputPage(w) \in Nat /\ FirstOutputPage(w + 1) \in Nat
             /\ FirstOutputPage(w) < FirstOutputPage(w + 1) /\ FirstOutputPage(w + 1) <= Pages
             /\ w + 1 < WorkerCount => FirstOutputPage(w + 1) < Pages
             /\ w + 1 = WorkerCount => FirstOutputPage(w + 1) = Pages
  <2>1. w \in 0 .. WorkerCount /\ w + 1 \in 0 .. WorkerCount /\ w < w + 1
        /\ WorkerCount \in 0 .. WorkerCount
    BY <1>1
  <2>2. w + 1 < WorkerCount \/ w + 1 = WorkerCount
    BY <1>1
  <2>3. FirstOutputPage(w) \in Nat /\ FirstOutputPage(w + 1) \in Nat
        /\ FirstOutputPage(w) < FirstOutputPage(w + 1)
    BY <2>1, PageRanges
  <2>4. w + 1 < WorkerCount => FirstOutputPage(w + 1) < Pages
    BY <2>1, PageRanges
  <2>5. w + 1 = WorkerCount => FirstOutputPage(w + 1) = Pages
    BY PageRanges
  <2> QED BY <1>1, <2>1, <2>2, <2>3, <2>4, <2>5
<1>3. ASSUME NEW w \in Merger
      PROVE  /\ BeginOf(w) \in Nat /\ EndOf(w) \in Nat
             /\ BeginOf(w) < EndOf(w) /\ EndOf(w) <= MergedPositions
             /\ w + 1 = WorkerCount => EndOf(w) = MergedPositions
             /\ w + 1 < WorkerCount => EndOf(w) = BeginOf(w + 1)
  <2>1. PICK a \in Nat : a = FirstOutputPage(w)
    BY <1>2
  <2>2. PICK b \in Nat : b = FirstOutputPage(w + 1)
    BY <1>2
  <2>3. a < b /\ b <= Pages
    BY <1>2, <2>1, <2>2
  <2>4. a + 1 \in Nat /\ a + 1 <= b /\ a + 1 <= Pages /\ Pages - 1 \in Nat /\ a <= Pages - 1
    BY <1>1, <2>3
  <2>5. a * PerPage \in Nat /\ b * PerPage \in Nat /\ a * PerPage <= (Pages - 1) * PerPage
    BY ONLY <1>0, <2>4, TimesMonotonic, a \in Nat, b \in Nat
  <2>6. (a + 1) * PerPage = a * PerPage + PerPage /\ (a + 1) * PerPage <= b * PerPage
    <3>1. (a + 1) * PerPage <= b * PerPage
      BY ONLY <1>0, <2>4, TimesMonotonic, b \in Nat
    <3> QED BY ONLY <3>1, <1>0, a \in Nat
  <2>7. b < Pages => b * PerPage <= (Pages - 1) * PerPage
    BY ONLY <1>0, <1>1, TimesMonotonic, b \in Nat, Pages - 1 \in Nat
  <2>8. (Pages - 1) * PerPage < MergedPositions /\ (Pages - 1) * PerPage \in Nat
    BY <1>0, <2>4, PageRanges
  <2>9. BeginOf(w) = a * PerPage /\ EndOf(w) = IF b = Pages THEN MergedPositions ELSE b * PerPage
    BY <2>1, <2>2 DEF BeginOf, EndOf
  <2>10. BeginOf(w + 1) = b * PerPage
    BY <2>2 DEF BeginOf
  <2>11. PICK x \in Nat : x = a * PerPage
    BY <2>5
  <2>12. PICK y \in Nat : y = b * PerPage
    BY <2>5
  <2>13. PICK z \in Nat : z = (Pages - 1) * PerPage
    BY <2>8
  <2>14. x <= z /\ x < y /\ z < MergedPositions /\ (b < Pages => y <= z)
    BY ONLY <1>0, <2>5, <2>6, <2>7, <2>8, <2>11, <2>12, <2>13
  <2>15. (w + 1 = WorkerCount => b = Pages) /\ (w + 1 < WorkerCount => b < Pages)
    BY <1>2, <2>2
  <2>16. BeginOf(w) = x /\ EndOf(w) = IF b = Pages THEN MergedPositions ELSE y
    BY <2>9, <2>11, <2>12
  <2>17. BeginOf(w + 1) = y
    BY <2>10, <2>12
  <2> QED BY ONLY <1>0, <1>1, <2>3, <2>14, <2>15, <2>16, <2>17, x \in Nat, y \in Nat, z \in Nat, b \in Nat
<1>4. ASSUME NEW w \in Merger, NEW v \in Merger, w < v
      PROVE  EndOf(w) <= BeginOf(v)
  <2>1. w + 1 \in Merger /\ w + 1 < WorkerCount /\ w + 1 <= v
    BY <1>1, <1>4
  <2>2. PICK a \in Nat : a = FirstOutputPage(w + 1)
    BY <1>2
  <2>3. PICK b \in Nat : b = FirstOutputPage(v)
    BY <1>2
  <2>4. a <= b
    <3>1. CASE w + 1 = v
      BY <2>2, <2>3, <3>1
    <3>2. CASE w + 1 < v
      <4>1. w + 1 \in 0 .. WorkerCount /\ v \in 0 .. WorkerCount
        BY <1>2
      <4>2. FirstOutputPage(w + 1) < FirstOutputPage(v)
        BY <3>2, <4>1, PageRanges
      <4> QED BY <2>2, <2>3, <4>2
    <3>3. w + 1 = v \/ w + 1 < v
      BY <1>1, <2>1
    <3> QED BY <3>1, <3>2, <3>3
  <2>5. a * PerPage <= b * PerPage
    BY <1>0, <2>4, TimesMonotonic
  <2>6. EndOf(w) = a * PerPage
    BY <1>3, <2>1, <2>2 DEF BeginOf
  <2> QED BY <2>3, <2>5, <2>6 DEF BeginOf
<1>5. ASSUME NEW i \in Full PROVE \E w \in Merger : BeginOf(w) <= i /\ i < EndOf(w)
  <2> DEFINE T == {w \in Merger : i < EndOf(w)}
  <2>1. T \in SUBSET Nat
    BY <1>1
  <2>2. WorkerCount - 1 \in T
    BY <1>0, <1>1, <1>3 DEF Full
  <2>3. PICK w \in T : \A v \in T : w <= v
    <3> HIDE DEF T
    <3> QED BY <2>1, <2>2, LeastNatural
  <2>4. CASE w = 0
    <3>1. BeginOf(w) = 0
      BY <1>0, <2>4, PageRanges DEF BeginOf
    <3> QED BY <2>3, <3>1 DEF Full
  <2>5. CASE w # 0
    <3>1. w - 1 \in Merger /\ (w - 1) + 1 = w /\ (w - 1) + 1 < WorkerCount /\ ~(w <= w - 1)
      BY <1>1, <2>5
    <3>2. w - 1 \notin T
      BY <2>3, <3>1
    <3>3. PICK v \in Merger : v = w - 1
      BY <3>1
    <3>4. EndOf(v) = BeginOf(w) /\ ~(i < EndOf(v)) /\ EndOf(v) \in Nat
      BY <1>3, <3>1, <3>2, <3>3
    <3> QED BY <2>3, <3>4 DEF Full
  <2> QED BY <2>4, <2>5
<1> QED BY <1>1, <1>3, <1>4, <1>5

(* What the slices hold. *)
LEMMA EntryFacts ==
  ASSUME rank \in [Slice -> Seq(Full)], NEW s \in Slice
  PROVE  /\ EntryCount(s) \in Nat
         /\ \A l \in Nat : l < EntryCount(s) => <<s, l>> \in Entries /\ FullIndex(s, l) \in Full
<1>1. rank[s] \in Seq(Full)
  OBVIOUS
<1>2. EntryCount(s) \in Nat
  BY <1>1 DEF EntryCount
<1>3. ASSUME NEW l \in Nat, l < EntryCount(s) PROVE <<s, l>> \in Entries /\ FullIndex(s, l) \in Full
  <2>1. l \in 0 .. EntryCount(s) - 1
    BY <1>2, <1>3
  <2>2. <<s, l>> \in Entries
    BY <2>1 DEF Entries
  <2>3. l + 1 \in 1 .. Len(rank[s])
    BY <1>2, <1>3 DEF EntryCount
  <2>4. FullIndex(s, l) \in Full
    BY <1>1, <2>3 DEF FullIndex
  <2> QED BY <2>2, <2>4
<1> QED BY <1>2, <1>3

LEMMA EntryIs ==
  ASSUME NEW e \in Entries
  PROVE  \E s \in Slice : \E l \in 0 .. EntryCount(s) - 1 : e = <<s, l>>
BY DEF Entries

(* It stays in the slice and finds a boundary, whatever the slice holds.   *)
LEMMA SearchFinds ==
  ASSUME rank \in [Slice -> Seq(Full)], NEW s \in Slice, NEW target \in Nat
  PROVE  /\ SearchResult(s, target) \in 0 .. EntryCount(s)
         /\ BoundaryHolds(s, target, SearchResult(s, target))
<1> DEFINE N == EntryCount(s)
           At(l) == FullIndex(s, l)
           Framed(lo, hi) == /\ lo <= hi
                             /\ lo > 0 => At(lo - 1) < target
                             /\ hi < N => At(hi) >= target
<1>1. N \in Nat /\ \A l \in 0 .. N - 1 : At(l) \in Nat
  <2>1. Full \subseteq Nat
    BY MergeAssumption DEF Full
  <2>2. N \in Nat /\ \A l \in Nat : l < N => At(l) \in Full
    BY EntryFacts
  <2> HIDE DEF N, At
  <2>3. \A l \in 0 .. N - 1 : l \in Nat /\ l < N
    BY <2>2
  <2> QED BY <2>1, <2>2, <2>3
<1>2. PICK g : /\ SearchResult(s, target) = g[<<0, N>>]
               /\ \A lo, hi \in 0 .. N :
                    LET mid == lo + (hi - lo) \div 2 IN
                    g[<<lo, hi>>] = IF lo >= hi THEN lo
                                    ELSE IF At(mid) < target THEN g[<<mid + 1, hi>>]
                                                             ELSE g[<<lo, mid>>]
  <2>1. EntryCount(s) \in Nat
    BY <1>1 DEF N
  <2>2. PICK g : SearchResult(s, target) = g[<<0, EntryCount(s)>>] /\ SearchSteps(g, s, target)
    BY <2>1, SearchSolved
  <2> QED BY ONLY <2>2 DEF N, At, SearchSteps
<1> HIDE DEF N, At
<1> DEFINE Right(x) == x \in 0 .. N /\ (x > 0 => At(x - 1) < target) /\ (x < N => At(x) >= target)
           Bad == {n \in Nat : \E lo, hi \in 0 .. N : hi - lo = n /\ Framed(lo, hi) /\ ~Right(g[<<lo, hi>>])}
<1>3. Bad = {}
  <2> SUFFICES ASSUME Bad # {} PROVE FALSE
    OBVIOUS
  <2>1. PICK n \in Bad : \A k \in Bad : n <= k
    <3>1. Bad \in SUBSET Nat
      OBVIOUS
    <3> HIDE DEF Bad
    <3> QED BY <3>1, LeastNatural
  <2>2. PICK lo \in 0 .. N, hi \in 0 .. N : hi - lo = n /\ Framed(lo, hi) /\ ~Right(g[<<lo, hi>>])
    OBVIOUS
  <2>3. lo < hi
    <3> SUFFICES ASSUME ~(lo < hi) PROVE FALSE
      OBVIOUS
    <3>1. lo = hi /\ lo >= hi
      BY <1>1, <2>2
    <3>2. g[<<lo, hi>>] = lo
      BY <1>2, <3>1
    <3> QED BY <2>2, <3>1, <3>2
  <2>4. PICK mid : mid = lo + (hi - lo) \div 2
    OBVIOUS
  <2>5. /\ mid \in 0 .. N - 1 /\ mid \in 0 .. N /\ mid + 1 \in 0 .. N /\ lo <= mid /\ mid < hi
        /\ hi - (mid + 1) \in Nat /\ mid - lo \in Nat
        /\ ~(n <= hi - (mid + 1)) /\ ~(n <= mid - lo)
    BY <1>1, <2>2, <2>3, <2>4
  <2>6. g[<<lo, hi>>] = IF At(mid) < target THEN g[<<mid + 1, hi>>] ELSE g[<<lo, mid>>]
    BY <1>1, <1>2, <2>3, <2>4
  <2>7. At(mid) \in Nat
    BY <1>1, <2>5
  <2>8. hi - (mid + 1) \notin Bad /\ mid - lo \notin Bad
    <3> HIDE DEF Bad
    <3> QED BY <2>1, <2>5
  <2>9. CASE At(mid) < target
    <3>1. Framed(mid + 1, hi)
      BY <1>1, <2>2, <2>5, <2>9
    <3>2. Right(g[<<mid + 1, hi>>])
      BY <2>5, <2>8, <3>1
    <3> QED BY <2>2, <2>6, <2>9, <3>2
  <2>10. CASE ~(At(mid) < target)
    <3>1. Framed(lo, mid)
      BY <1>1, <2>2, <2>5, <2>7, <2>10
    <3>2. Right(g[<<lo, mid>>])
      BY <2>5, <2>8, <3>1
    <3> QED BY <2>2, <2>6, <2>10, <3>2
  <2> QED BY <2>9, <2>10
<1>4. 0 \in 0 .. N /\ N \in 0 .. N /\ N - 0 \in Nat /\ N - 0 = N /\ Framed(0, N)
  BY <1>1
<1>5. Right(g[<<0, N>>])
  BY <1>3, <1>4
<1> QED BY <1>2, <1>5 DEF BoundaryHolds, N, At

(* The parts of a slice are all of it. *)
LEMMA PartsCover ==
  ASSUME MergeTypeOK, \A w \in Merger : PartRight(w),
         NEW s \in Slice, NEW l \in Nat, l < EntryCount(s)
  PROVE  \E w \in Merger : from[w][s] <= l /\ l < upto[w][s]
<1> DEFINE T == {w \in Merger : l < upto[w][s]}
<1>1. WorkerCount \in Nat \ {0}
  BY MergeRanges
<1>2. T \in SUBSET Nat
  BY <1>1 DEF Merger
<1>3. WorkerCount - 1 \in T
  <2>1. WorkerCount - 1 \in Merger /\ (WorkerCount - 1) + 1 = WorkerCount
    BY <1>1 DEF Merger
  <2>2. PICK v \in Merger : v = WorkerCount - 1
    BY <2>1
  <2>3. upto[v][s] = EntryCount(s)
    BY <2>1, <2>2 DEF PartRight
  <2> QED BY <2>2, <2>3
<1>4. PICK w \in T : \A v \in T : w <= v
  <2> HIDE DEF T
  <2> QED BY <1>2, <1>3, LeastNatural
<1>5. w \in Merger /\ w \in Nat
  BY <1>2
<1>6. from[w][s] <= l
  <2>1. CASE w = 0
    <3>1. from[w][s] = 0
      BY <1>5, <2>1 DEF PartRight
    <3> QED BY <3>1
  <2>2. CASE w # 0
    <3>1. w - 1 \in Merger /\ ~(w <= w - 1)
      BY <1>1, <1>5, <2>2 DEF Merger
    <3>2. PICK v \in Merger : v = w - 1
      BY <3>1
    <3>3. ~(l < upto[v][s])
      BY <1>4, <3>1, <3>2
    <3>4. from[w][s] = upto[v][s]
      BY <1>5, <2>2, <3>2 DEF PartRight
    <3>5. upto[v][s] \in Nat
      BY DEF MergeTypeOK
    <3> QED BY <3>3, <3>4, <3>5
  <2> QED BY <2>1, <2>2
<1> QED BY <1>5, <1>6

(* What a worker has collected when all of its range is written. *)
LEMMA CollectedAll ==
  ASSUME MergeTypeOK, NEW w \in Merger, CollectedRight(w), expected[w] = EndOf(w)
  PROVE  \A i \in BeginOf(w) .. EndOf(w) - 1 : Collected(w, i) = output[i]
<1>1. buffer[w] = <<>> /\ Len(buffer[w]) = 0
  BY DEF CollectedRight
<1>2. EndOf(w) \in Nat /\ BeginOf(w) \in Nat
  BY MergeRanges
<1> QED BY <1>1, <1>2 DEF Collected

LEMMA MergeInvExact ==
  ASSUME MergeInv PROVE MergedIsExact
<1> SUFFICES ASSUME mergeStage = "done"
             PROVE  /\ \A i \in Full : /\ output[i] \in Entries
                                       /\ FullIndex(output[i][1], output[i][2]) = i
                    /\ Entries = {output[i] : i \in Full}
  BY DEF MergedIsExact
<1>1. MergeTypeOK /\ \A w \in Merger : PartRight(w)
  BY DEF MergeInv, PartsInv
<1>2. ~ cancelled
  <2>1. mergeCursor = WorkerCount /\ WorkerCount \in Nat /\ \A w \in Merger : status[w] = "ok"
    BY MergeRanges DEF MergeInv, EndedInv
  <2>2. ~(mergeCursor < WorkerCount) /\ ~ \E w \in Merger : status[w] = "failed"
    BY <2>1
  <2> QED BY <2>2 DEF MergeInv, EndedInv
<1>3. \A w \in Merger : CollectedRight(w) /\ expected[w] = EndOf(w) /\ heap[w] = {}
  BY <1>2 DEF MergeInv, EndedInv, WorkInv
<1>4. ASSUME NEW w \in Merger
      PROVE  \A i \in BeginOf(w) .. EndOf(w) - 1 : /\ output[i] = Collected(w, i)
                                                   /\ output[i] \in Entries
                                                   /\ FullIndex(output[i][1], output[i][2]) = i
                                                   /\ i \in Full
  <2>1. \A i \in BeginOf(w) .. EndOf(w) - 1 : output[i] = Collected(w, i)
    BY <1>1, <1>3, CollectedAll
  <2>2. \A i \in BeginOf(w) .. EndOf(w) - 1 : i \in Full
    <3>1. BeginOf(w) \in Nat /\ EndOf(w) \in Nat /\ EndOf(w) <= MergedPositions /\ MergedPositions \in Nat
      BY MergeRanges, MergeAssumption
    <3> QED BY <3>1 DEF Full
  <2> QED BY <1>3, <2>1, <2>2 DEF CollectedRight
<1>5. ASSUME NEW i \in Full
      PROVE  output[i] \in Entries /\ FullIndex(output[i][1], output[i][2]) = i
  <2>1. PICK w \in Merger : BeginOf(w) <= i /\ i < EndOf(w)
    BY MergeRanges
  <2>2. i \in BeginOf(w) .. EndOf(w) - 1
    <3>1. BeginOf(w) \in Nat /\ EndOf(w) \in Nat /\ i \in Nat
      BY MergeRanges DEF Full
    <3> QED BY <2>1, <3>1
  <2> QED BY <1>4, <2>2
<1>6. ASSUME NEW e \in Entries PROVE \E i \in Full : e = output[i]
  <2>1. PICK s \in Slice : \E l \in 0 .. EntryCount(s) - 1 : e = <<s, l>>
    BY EntryIs
  <2>2. PICK l \in 0 .. EntryCount(s) - 1 : e = <<s, l>>
    BY <2>1
  <2>3. l \in Nat /\ l < EntryCount(s)
    BY <1>1, EntryFacts DEF MergeTypeOK
  <2>4. PICK w \in Merger : from[w][s] <= l /\ l < upto[w][s]
    BY <1>1, <2>3, PartsCover
  <2>5. next[w][s] = upto[w][s] /\ upto[w][s] \in Nat /\ from[w][s] \in Nat
    BY <1>1, <1>3 DEF CollectedRight, MergeTypeOK
  <2>6. l \in TakenBy(w, s)
    BY <1>3, <2>3, <2>4, <2>5 DEF TakenBy
  <2>7. PICK i \in BeginOf(w) .. EndOf(w) - 1 : Collected(w, i) = <<s, l>>
    BY <1>3, <2>6 DEF CollectedRight
  <2>8. i \in Full /\ e = output[i]
    BY <1>4, <2>2, <2>7
  <2> QED BY <2>8
<1> QED BY <1>5, <1>6

LEMMA MergeInitially == ASSUME MergeInit PROVE MergeInv
<1> USE DEF MergeInit
<1>1. \A w \in Merger : BeginOf(w) \in Nat
  BY MergeRanges
<1>2. WorkerCount \in Nat /\ \A w \in Merger : w \in Nat
  BY MergeRanges DEF Merger
<1>3. MergeTypeOK
  <2>1. rank \in [Slice -> Seq(Full)]
    BY MergeAssumption DEF Full
  <2>2. buffer \in [Merger -> Seq(Slice \X Nat)]
    <3>1. <<>> \in Seq(Slice \X Nat)
      OBVIOUS
    <3> QED BY <3>1
  <2>3. mergeCursor \in 0 .. WorkerCount
    BY <1>2
  <2> QED BY <1>1, <2>1, <2>2, <2>3 DEF MergeTypeOK
<1>4. PartsInv
  BY <1>2 DEF PartsInv
<1>5. EndedInv
  BY DEF EndedInv
<1>6. WorkInv
  BY DEF WorkInv
<1> QED BY <1>3, <1>4, <1>5, <1>6 DEF MergeInv

(* What a worker has collected depends on nothing outside its range.       *)
LEMMA CollectedKept ==
  ASSUME NEW w \in Merger, CollectedRight(w), MergeTypeOK,
         rank' = rank, from'[w] = from[w], upto'[w] = upto[w], next'[w] = next[w],
         heap'[w] = heap[w], expected'[w] = expected[w], buffer'[w] = buffer[w],
         \A i \in BeginOf(w) .. EndOf(w) - 1 : output'[i] = output[i]
  PROVE  CollectedRight(w)'
<1>1. BeginOf(w) \in Nat /\ EndOf(w) \in Nat /\ expected[w] \in BeginOf(w) .. EndOf(w)
  BY MergeRanges DEF CollectedRight
<1>2. \A i \in BeginOf(w) .. expected[w] - 1 : i \in BeginOf(w) .. EndOf(w) - 1
  BY <1>1
<1>3. \A i \in BeginOf(w) .. expected[w] - 1 : Collected(w, i)' = Collected(w, i)
  BY <1>2 DEF Collected
<1>4. Entries' = Entries /\ \A s, l : FullIndex(s, l)' = FullIndex(s, l)
  BY DEF Entries, EntryCount, FullIndex
<1>5. \A s \in Slice : TakenBy(w, s)' = TakenBy(w, s)
  BY DEF TakenBy
<1>6. BeginOf(w)' = BeginOf(w) /\ EndOf(w)' = EndOf(w)
  BY DEF BeginOf, EndOf, FirstOutputPage
<1> QED BY <1>3, <1>4, <1>5, <1>6 DEF CollectedRight

(* What the coordinator does leaves the workers' collections as they are.  *)
LEMMA CoordinatorKeeps ==
  ASSUME MergeInv, UNCHANGED <<rank, parts, next, heap, expected, buffer, output>>,
         UNCHANGED status \/ \E w \in Merger :
                                /\ status[w] = "idle"
                                /\ status' = [status EXCEPT ![w] = "open"],
         cancelled => cancelled'
  PROVE  WorkInv'
<1> USE DEF MergeInv, parts
<1>1. ASSUME NEW w \in Merger, CollectedRight(w) PROVE CollectedRight(w)'
  BY <1>1, CollectedKept
<1>2. \A w \in Merger : BeginOf(w)' = BeginOf(w) /\ EndOf(w)' = EndOf(w)
  BY DEF BeginOf, EndOf, FirstOutputPage
<1>3. \A w \in Merger : \/ status'[w] = status[w]
                        \/ status[w] = "idle" /\ status'[w] = "open"
  BY DEF MergeTypeOK
<1> QED BY <1>1, <1>2, <1>3 DEF WorkInv

LEMMA PartsKept ==
  ASSUME NEW w \in Merger, PartRight(w), rank' = rank, parts' = parts
  PROVE  PartRight(w)'
BY DEF PartRight, parts, EntryCount

LEMMA DivideStep == ASSUME MergeInv, Divide PROVE MergeInv'
<1> DEFINE lower == [s \in Slice |-> SearchResult(s, BeginOf(mergeCursor))]
           upper == [s \in Slice |-> SearchResult(s, EndOf(mergeCursor))]
<1>0. MergeTypeOK /\ mergeStage = "divide" /\ rank' = rank /\ UNCHANGED <<work, cancelled>>
  BY DEF MergeInv, Divide, input
<1>1. mergeCursor \in Merger /\ mergeCursor \in Nat /\ WorkerCount \in Nat
  BY MergeRanges DEF Divide, MergeInv, MergeTypeOK, Merger
<1>2. \A s \in Slice : /\ EntryCount(s) \in Nat
                       /\ lower[s] \in 0 .. EntryCount(s) /\ upper[s] \in 0 .. EntryCount(s)
  <2>1. BeginOf(mergeCursor) \in Nat /\ EndOf(mergeCursor) \in Nat
    BY <1>1, MergeRanges
  <2> QED BY <1>0, <2>1, EntryFacts, SearchFinds DEF MergeTypeOK
<1> HIDE DEF lower, upper
<1>3. \/ /\ PartsAccepted(mergeCursor, lower, upper)
         /\ from' = [from EXCEPT ![mergeCursor] = lower]
         /\ upto' = [upto EXCEPT ![mergeCursor] = upper]
         /\ mergeCursor' = mergeCursor + 1 /\ mergeStage' = "divide"
      \/ mergeStage' = "failed" /\ UNCHANGED <<parts, mergeCursor>>
  BY <1>0 DEF Divide, lower, upper
<1>4. lower \in [Slice -> Nat] /\ upper \in [Slice -> Nat]
  <2>1. lower = [s \in Slice |-> lower[s]] /\ upper = [s \in Slice |-> upper[s]]
    BY DEF lower, upper
  <2> QED BY <1>2, <2>1
<1>5. MergeTypeOK'
  <2>1. UNCHANGED <<rank, status, next, heap, expected, buffer, output, cancelled>>
    BY <1>0 DEF work
  <2>2. /\ mergeStage' \in {"divide", "failed"} /\ mergeCursor' \in 0 .. WorkerCount
        /\ from' \in [Merger -> [Slice -> Nat]] /\ upto' \in [Merger -> [Slice -> Nat]]
    <3>1. CASE mergeStage' = "failed"
      BY <1>0, <1>1, <1>3, <3>1 DEF MergeTypeOK, parts
    <3>2. CASE mergeStage' # "failed"
      <4>1. mergeCursor' \in 0 .. WorkerCount
        BY <1>1, <1>3, <3>2 DEF Merger
      <4>2. from' \in [Merger -> [Slice -> Nat]] /\ upto' \in [Merger -> [Slice -> Nat]]
        <5>1. from \in [Merger -> [Slice -> Nat]] /\ upto \in [Merger -> [Slice -> Nat]]
          BY <1>0 DEF MergeTypeOK
        <5>2. from' = [from EXCEPT ![mergeCursor] = lower] /\ upto' = [upto EXCEPT ![mergeCursor] = upper]
          BY <1>3, <3>2
        <5> QED BY ONLY <1>4, <5>1, <5>2
      <4> QED BY <1>3, <3>2, <4>1, <4>2
    <3> QED BY <3>1, <3>2
  <2>3. Merger' = Merger /\ Full' = Full /\ WorkerCount' = WorkerCount
    BY DEF Merger, Full, WorkerCount
  <2> QED BY <1>0, <2>1, <2>2, <2>3 DEF MergeTypeOK
<1>6. PartsInv'
  <2>1. CASE mergeStage' = "failed"
    BY <2>1 DEF PartsInv
  <2>2. CASE mergeStage' # "failed"
    <3> USE <1>3, <2>2
    <3> DEFINE accepted == /\ from' = [from EXCEPT ![mergeCursor] = lower]
                           /\ upto' = [upto EXCEPT ![mergeCursor] = upper]
    <3>1. accepted /\ PartsAccepted(mergeCursor, lower, upper)
      OBVIOUS
    <3>2. ASSUME NEW w \in Merger, w < mergeCursor' PROVE PartRight(w)'
      <4>1. w \in Nat
        BY <1>1 DEF Merger
      <4>2. \A s : EntryCount(s)' = EntryCount(s)
        BY <1>0 DEF EntryCount
      <4>3. CASE w = mergeCursor
        <5>1. from'[w] = lower /\ upto'[w] = upper
          BY <1>0, <1>1, <3>1, <4>3 DEF MergeTypeOK
        <5>2. w # 0 => upto'[w - 1] = upto[w - 1]
          <6> SUFFICES ASSUME w # 0 PROVE upto'[w - 1] = upto[w - 1]
            OBVIOUS
          <6>1. w - 1 # mergeCursor /\ w - 1 \in Merger
            BY <1>1, <4>1, <4>3 DEF Merger
          <6>2. PICK v \in Merger : v = w - 1
            BY <6>1
          <6>3. upto'[v] = upto[v]
            BY <1>0, <3>1, <6>1, <6>2 DEF MergeTypeOK
          <6> QED BY <6>2, <6>3
        <5>3. ASSUME NEW s \in Slice
              PROVE  /\ from'[w][s] = IF w = 0 THEN 0 ELSE upto'[w - 1][s]
                     /\ from'[w][s] <= upto'[w][s] /\ upto'[w][s] <= EntryCount(s)
                     /\ w + 1 = WorkerCount => upto'[w][s] = EntryCount(s)
          <6>1. /\ lower[s] = IF w = 0 THEN 0 ELSE upto[w - 1][s]
                /\ upper[s] >= lower[s]
                /\ w + 1 = WorkerCount => upper[s] = EntryCount(s)
            BY <3>1, <4>3, Zenon DEF PartsAccepted
          <6>2. /\ from'[w][s] = IF w = 0 THEN 0 ELSE upto'[w - 1][s]
                /\ from'[w][s] = lower[s] /\ upto'[w][s] = upper[s]
            BY <5>1, <5>2, <6>1
          <6> QED BY <1>2, <6>1, <6>2
        <5> QED BY <4>2, <5>3 DEF PartRight
      <4>4. CASE w # mergeCursor
        <5>1. w < mergeCursor
          BY <1>1, <3>2, <4>1, <4>4
        <5>2. PartRight(w)
          BY <1>0, <5>1 DEF MergeInv, PartsInv
        <5>3. from'[w] = from[w] /\ upto'[w] = upto[w]
          BY <1>0, <3>1, <4>4 DEF MergeTypeOK
        <5>4. w # 0 => upto'[w - 1] = upto[w - 1]
          <6> SUFFICES ASSUME w # 0 PROVE upto'[w - 1] = upto[w - 1]
            OBVIOUS
          <6>1. w - 1 # mergeCursor /\ w - 1 \in Merger
            BY <1>1, <4>1, <5>1 DEF Merger
          <6>2. PICK v \in Merger : v = w - 1
            BY <6>1
          <6>3. upto'[v] = upto[v]
            BY <1>0, <3>1, <6>1, <6>2 DEF MergeTypeOK
          <6> QED BY <6>2, <6>3
        <5> QED BY <4>2, <5>2, <5>3, <5>4 DEF PartRight
      <4> QED BY <4>3, <4>4
    <3>3. Merger' = Merger
      BY DEF Merger, WorkerCount
    <3> QED BY <3>2, <3>3 DEF PartsInv
  <2> QED BY <2>1, <2>2
<1>7. EndedInv' /\ WorkInv'
  <2>1. UNCHANGED <<rank, status, next, heap, expected, buffer, output, cancelled>>
    BY <1>0 DEF work
  <2>2. \A w \in Merger : status[w] = "idle"
    BY <1>0 DEF MergeInv, EndedInv
  <2>3. ~ cancelled
    BY <1>0, <2>2 DEF MergeInv, EndedInv
  <2>4. EndedInv'
    BY <1>3, <2>1, <2>2, <2>3 DEF EndedInv, parts
  <2>5. WorkInv'
    BY <2>1, <2>2 DEF WorkInv, MergeInv, BeginOf, FirstOutputPage
  <2> QED BY <2>4, <2>5
<1> QED BY <1>5, <1>6, <1>7 DEF MergeInv

LEMMA CoordinatorStep ==
  ASSUME MergeInv,
         Divided \/ StartWorker \/ StartFails \/ Started \/ Join \/ CoordinatorFault
  PROVE  MergeInv'
<1> USE DEF MergeInv
<1>0. WorkerCount \in Nat \ {0} /\ mergeCursor \in 0 .. WorkerCount
      /\ \A w : w \in Merger <=> w \in Nat /\ w < WorkerCount
  BY MergeRanges DEF MergeTypeOK, Merger
<1>1. UNCHANGED <<rank, parts, next, heap, expected, buffer, output>>
  BY DEF Divided, StartWorker, StartFails, Started, Join, CoordinatorFault, input, work, parts
<1>2. \/ UNCHANGED status
      \/ mergeStage = "start" /\ mergeCursor < WorkerCount
         /\ status' = [status EXCEPT ![mergeCursor] = "open"]
  BY DEF Divided, StartWorker, StartFails, Started, Join, CoordinatorFault, work
<1>3. UNCHANGED status \/ \E w \in Merger : status[w] = "idle" /\ status' = [status EXCEPT ![w] = "open"]
  BY <1>0, <1>2 DEF EndedInv
<1>4. cancelled => cancelled'
  BY DEF Divided, StartWorker, StartFails, Started, Join, CoordinatorFault
<1>5. WorkInv'
  BY <1>1, <1>3, <1>4, CoordinatorKeeps
<1>6. MergeTypeOK'
  <2>1. /\ mergeStage' \in {"divide", "start", "join", "done", "failed"}
        /\ mergeCursor' \in 0 .. WorkerCount /\ cancelled' \in BOOLEAN
    <3>1. mergeStage' \in {"divide", "start", "join", "done", "failed"}
      BY DEF MergeTypeOK, Divided, StartWorker, StartFails, Started, Join, CoordinatorFault
    <3>2. \/ mergeCursor' = mergeCursor \/ mergeCursor' = 0
          \/ mergeCursor < WorkerCount /\ mergeCursor' = mergeCursor + 1
      BY DEF Divided, StartWorker, StartFails, Started, Join, CoordinatorFault
    <3>3. mergeCursor' \in 0 .. WorkerCount
      BY <1>0, <3>2
    <3>4. cancelled' = cancelled \/ cancelled' = TRUE
      BY Zenon DEF Divided, StartWorker, StartFails, Started, Join, CoordinatorFault
    <3>5. cancelled' \in BOOLEAN
      BY <3>4 DEF MergeTypeOK
    <3> QED BY <3>1, <3>3, <3>5
  <2>2. status' \in [Merger -> {"idle", "open", "merge", "ok", "failed"}]
    BY <1>3 DEF MergeTypeOK
  <2>3. Merger' = Merger /\ Full' = Full /\ WorkerCount' = WorkerCount
    BY DEF Merger, Full, WorkerCount
  <2> QED BY <1>1, <2>1, <2>2, <2>3 DEF MergeTypeOK, parts
<1>7. PartsInv'
  <2>1. mergeStage' \in {"start", "join", "done"} => \A w \in Merger : PartRight(w)
    BY <1>0 DEF PartsInv, Divided, StartWorker, StartFails, Started, Join, CoordinatorFault
  <2>2. mergeStage' # "divide"
    BY DEF Divided, StartWorker, StartFails, Started, Join, CoordinatorFault
  <2>3. Merger' = Merger
    BY DEF Merger, WorkerCount
  <2> QED BY <1>1, <2>1, <2>2, <2>3, PartsKept DEF PartsInv
<1>8. EndedInv'
  <2>0. Merger' = Merger /\ WorkerCount' = WorkerCount
    BY DEF Merger, WorkerCount
  <2> USE <2>0
  <2>1. CASE Divided
    BY <1>0, <2>1 DEF Divided, EndedInv, work
  <2>2. CASE StartWorker
    BY <1>0, <2>2 DEF StartWorker, EndedInv, MergeTypeOK
  <2>3. CASE StartFails
    BY <1>0, <2>3 DEF StartFails, EndedInv, work
  <2>4. CASE Started
    BY <1>0, <2>4 DEF Started, EndedInv, work
  <2>5. ASSUME Joined, mergeStage = "join", status' = status, mergeCursor' = mergeCursor,
               cancelled' = cancelled,
               \/ mergeStage' = "failed"
               \/ mergeStage' = "done" /\ mergeCursor = WorkerCount
                  /\ \A w \in Merger : status[w] = "ok"
        PROVE  EndedInv'
    <3>1. \A w \in Merger : status[w] \notin {"open", "merge"}
      BY <1>0, <2>5 DEF Joined, EndedInv
    <3> QED BY <1>0, <2>5, <3>1 DEF EndedInv
  <2>6. CASE Join
    BY <2>5, <2>6 DEF Join, work
  <2>7. CASE CoordinatorFault
    <3>1. CASE mergeStage = "divide"
      BY <1>0, <2>7, <3>1 DEF CoordinatorFault, EndedInv, work
    <3>2. CASE mergeStage # "divide"
      BY <2>5, <2>7, <3>2 DEF CoordinatorFault, work
    <3> QED BY <3>1, <3>2
  <2> QED BY <2>1, <2>2, <2>3, <2>4, <2>6, <2>7
<1> QED BY <1>5, <1>6, <1>7, <1>8

(* A worker's step changes nothing of the others', the parts or the        *)
(* coordinator's, and whoever fails cancels.                               *)
LEMMA WorkerKeeps ==
  ASSUME MergeInv, MergeTypeOK', NEW w \in Merger,
         UNCHANGED <<rank, mergeStage, mergeCursor, parts>>,
         status[w] \in {"open", "merge"},
         \/ status'[w] \in {"open", "merge", "ok"} /\ UNCHANGED cancelled
         \/ status'[w] = "failed" /\ cancelled',
         status'[w] = "open" => expected'[w] = BeginOf(w) /\ buffer'[w] = <<>>,
         status'[w] \in {"merge", "ok"} => CollectedRight(w)',
         status'[w] = "ok" => expected'[w] = EndOf(w) /\ (heap'[w] = {} \/ cancelled'),
         \A v \in Merger : v # w =>
             /\ status'[v] = status[v] /\ next'[v] = next[v] /\ heap'[v] = heap[v]
             /\ expected'[v] = expected[v] /\ buffer'[v] = buffer[v],
         \A i \in Full : ~(BeginOf(w) <= i /\ i < EndOf(w)) => output'[i] = output[i]
  PROVE  MergeInv'
<1> USE DEF MergeInv
<1>0. Merger' = Merger /\ WorkerCount' = WorkerCount
  BY DEF Merger, WorkerCount
<1>1. PartsInv'
  BY <1>0, PartsKept DEF PartsInv
<1>2. \A v \in Merger : BeginOf(v)' = BeginOf(v) /\ EndOf(v)' = EndOf(v)
  BY DEF BeginOf, EndOf, FirstOutputPage
<1>3. ASSUME NEW v \in Merger, v # w, CollectedRight(v) PROVE CollectedRight(v)'
  <2>1. BeginOf(v) \in Nat /\ EndOf(v) \in Nat /\ BeginOf(w) \in Nat /\ EndOf(w) \in Nat
        /\ EndOf(v) <= MergedPositions /\ MergedPositions \in Nat
    BY MergeRanges, MergeAssumption
  <2>2. EndOf(v) <= BeginOf(w) \/ EndOf(w) <= BeginOf(v)
    <3>1. v < w \/ w < v
      BY <1>3, MergeRanges DEF Merger
    <3> QED BY <3>1, MergeRanges
  <2>3. \A i \in BeginOf(v) .. EndOf(v) - 1 : i \in Full /\ ~(BeginOf(w) <= i /\ i < EndOf(w))
    BY <2>1, <2>2 DEF Full
  <2>4. \A i \in BeginOf(v) .. EndOf(v) - 1 : output'[i] = output[i]
    BY <2>3
  <2>5. rank' = rank /\ from'[v] = from[v] /\ upto'[v] = upto[v]
    BY DEF parts
  <2> QED BY <1>3, <2>4, <2>5, CollectedKept
<1>4. WorkInv'
  <2>1. ASSUME NEW v \in Merger
        PROVE  /\ status'[v] \in {"idle", "open"} => expected'[v] = BeginOf(v) /\ buffer'[v] = <<>>
               /\ status'[v] \in {"merge", "ok"} => CollectedRight(v)'
               /\ status'[v] = "ok" => expected'[v] = EndOf(v) /\ (heap'[v] = {} \/ cancelled')
    <3>1. CASE v = w
      BY <3>1
    <3>2. CASE v # w
      <4>1. cancelled => cancelled'
        OBVIOUS
      <4> QED BY <1>3, <3>2, <4>1 DEF WorkInv
    <3> QED BY <3>1, <3>2
  <2> QED BY <1>0, <1>2, <2>1 DEF WorkInv
<1>5. EndedInv'
  <2>1. mergeStage \in {"start", "join"} /\ ~(w >= mergeCursor)
    <3>1. mergeStage \in {"start", "join"}
      BY DEF EndedInv
    <3>2. ~(w >= mergeCursor)
      BY <3>1 DEF EndedInv
    <3> QED BY <3>1, <3>2
  <2>2. mergeStage' = mergeStage /\ mergeCursor' = mergeCursor
    OBVIOUS
  <2>3. \A v \in Merger : v >= mergeCursor => status'[v] = "idle"
    BY <2>1 DEF EndedInv
  <2>4. cancelled' => \/ \E v \in Merger : status'[v] = "failed"
                      \/ mergeStage \in {"join", "failed"} /\ mergeCursor < WorkerCount
    <3>1. CASE status'[w] = "failed"
      BY <3>1
    <3>2. CASE status'[w] # "failed"
      BY <3>2 DEF EndedInv
    <3> QED BY <3>1, <3>2
  <2> QED BY <1>0, <2>1, <2>2, <2>3, <2>4 DEF EndedInv
<1> QED BY <1>1, <1>4, <1>5

(* A worker that fails. *)
LEMMA FailStep ==
  ASSUME MergeInv, NEW w \in Merger, status[w] \in {"open", "merge"}, Fail(w),
         UNCHANGED <<rank, mergeStage, mergeCursor, parts, next, heap, expected, buffer, output>>
  PROVE  MergeInv'
<1>1. status' \in [Merger -> {"idle", "open", "merge", "ok", "failed"}] /\ status'[w] = "failed"
      /\ \A v \in Merger : v # w => status'[v] = status[v]
  BY DEF Fail, MergeInv, MergeTypeOK
<1>2. cancelled' = TRUE
  BY DEF Fail
<1>3. MergeTypeOK'
  BY <1>1, <1>2 DEF MergeInv, MergeTypeOK, parts, Merger, Full, WorkerCount
<1> QED BY <1>1, <1>2, <1>3, WorkerKeeps

LEMMA OpenStep ==
  ASSUME MergeInv, NEW w \in Merger, OpenParts(w) PROVE MergeInv'
<1> DEFINE S == {s \in Slice : from[w][s] # upto[w][s]}
           first == [s \in Slice |-> IF s \in S THEN from[w][s] + 1 ELSE from[w][s]]
<1>0. MergeTypeOK
  BY DEF MergeInv
<1>1. /\ status[w] = "open" /\ heap' = [heap EXCEPT ![w] = S] /\ next' = [next EXCEPT ![w] = first]
      /\ status' = [status EXCEPT ![w] = "merge"]
      /\ UNCHANGED <<rank, mergeStage, mergeCursor, parts, expected, buffer, output, cancelled>>
  BY DEF OpenParts, input
<1>2. S \in SUBSET Slice /\ first \in [Slice -> Nat]
  BY <1>0 DEF MergeTypeOK
<1>3. \A s \in Slice : first[s] = IF s \in S THEN from[w][s] + 1 ELSE from[w][s]
  OBVIOUS
<1>4. \A s \in Slice : s \in S <=> from[w][s] # upto[w][s]
  OBVIOUS
<1> HIDE DEF S, first
<1>5. /\ next' \in [Merger -> [Slice -> Nat]] /\ next'[w] = first
      /\ heap' \in [Merger -> SUBSET Slice] /\ heap'[w] = S
      /\ status' \in [Merger -> {"idle", "open", "merge", "ok", "failed"}] /\ status'[w] = "merge"
      /\ \A v \in Merger : v # w => /\ status'[v] = status[v] /\ next'[v] = next[v]
                                    /\ heap'[v] = heap[v]
  BY <1>0, <1>1, <1>2 DEF MergeTypeOK
<1>6. MergeTypeOK'
  BY <1>0, <1>1, <1>5 DEF MergeTypeOK, parts, Merger, Full, WorkerCount
<1>7. CollectedRight(w)'
  <2>1. expected'[w] = BeginOf(w) /\ buffer'[w] = <<>> /\ Len(buffer'[w]) = 0
    BY <1>1 DEF MergeInv, WorkInv
  <2>2. PartRight(w)
    BY <1>1 DEF MergeInv, PartsInv, EndedInv
  <2>3. BeginOf(w) \in Nat /\ EndOf(w) \in Nat /\ BeginOf(w) < EndOf(w)
    BY MergeRanges
  <2>4. ASSUME NEW s \in Slice
        PROVE  /\ from[w][s] <= first[s] /\ first[s] <= upto[w][s]
               /\ s \in S => from[w][s] < first[s] /\ first[s] = from[w][s] + 1
               /\ s \notin S => first[s] = upto[w][s] /\ first[s] = from[w][s]
               /\ from[w][s] \in Nat
    <3>1. from[w][s] \in Nat /\ upto[w][s] \in Nat /\ from[w][s] <= upto[w][s]
      BY <1>0, <2>2 DEF MergeTypeOK, PartRight
    <3> QED BY <1>3, <1>4, <3>1
  <2>5. \A s \in Slice : TakenBy(w, s)' = {}
    <3>1. from' = from
      BY <1>1 DEF parts
    <3> QED BY <1>5, <2>4, <3>1 DEF TakenBy
  <2>6. BeginOf(w)' = BeginOf(w) /\ EndOf(w)' = EndOf(w)
    BY DEF BeginOf, EndOf, FirstOutputPage
  <2>7. UNCHANGED <<from, upto>>
    BY <1>1 DEF parts
  <2>8. BeginOf(w) .. expected'[w] - 1 = {} /\ expected'[w] \in BeginOf(w) .. EndOf(w)
        /\ 0 <= expected'[w] - BeginOf(w)
    BY <2>1, <2>3
  <2> QED BY <1>5, <2>1, <2>4, <2>5, <2>6, <2>7, <2>8 DEF CollectedRight
<1> QED BY <1>1, <1>5, <1>6, <1>7, WorkerKeeps

LEMMA LeaveStep ==
  ASSUME MergeInv, NEW w \in Merger, LeaveLoop(w) PROVE MergeInv'
<1>0. MergeTypeOK /\ status[w] = "merge" /\ (heap[w] = {} \/ cancelled)
      /\ UNCHANGED <<rank, mergeStage, mergeCursor, parts, next, heap, expected, buffer, output>>
  BY DEF MergeInv, LeaveLoop, input
<1>1. CASE ~ Complete(w)
  BY <1>0, <1>1, FailStep DEF LeaveLoop
<1>2. CASE Complete(w)
  <2>1. status' = [status EXCEPT ![w] = "ok"] /\ UNCHANGED cancelled
    BY <1>2 DEF LeaveLoop
  <2>2. status' \in [Merger -> {"idle", "open", "merge", "ok", "failed"}] /\ status'[w] = "ok"
        /\ \A v \in Merger : v # w => status'[v] = status[v]
    BY <1>0, <2>1 DEF MergeTypeOK
  <2>3. MergeTypeOK'
    BY <1>0, <2>1, <2>2 DEF MergeTypeOK, parts, Merger, Full, WorkerCount
  <2>4. CollectedRight(w) /\ expected[w] = EndOf(w)
    BY <1>0, <1>2 DEF MergeInv, WorkInv, Complete
  <2>5. CollectedRight(w)'
    BY <1>0, <2>4, CollectedKept DEF parts
  <2> QED BY <1>0, <2>1, <2>2, <2>3, <2>4, <2>5, WorkerKeeps
<1> QED BY <1>1, <1>2

(* The page that is being filled, and what is before it in the file, hold  *)
(* what they held, and the new entry after it.                             *)
LEMMA PageFacts ==
  ASSUME MergeTypeOK, NEW w \in Merger, CollectedRight(w), expected[w] < EndOf(w),
         NEW e \in Slice \X Nat, WritePage(w, Append(buffer[w], e)),
         expected' = [expected EXCEPT ![w] = @ + 1]
  PROVE  /\ expected' \in [Merger -> Nat] /\ expected'[w] = expected[w] + 1
         /\ buffer' \in [Merger -> Seq(Slice \X Nat)] /\ DOMAIN output' = Full
         /\ Len(buffer'[w]) <= expected'[w] - BeginOf(w)
         /\ expected'[w] = EndOf(w) => buffer'[w] = <<>>
         /\ \A i \in BeginOf(w) .. expected[w] - 1 : Collected(w, i)' = Collected(w, i)
         /\ \A i \in Nat : i = expected[w] => Collected(w, i)' = e
         /\ \A v \in Merger : v # w => buffer'[v] = buffer[v] /\ expected'[v] = expected[v]
         /\ \A i \in Full : ~(BeginOf(w) <= i /\ i < EndOf(w)) => output'[i] = output[i]
<1>1. /\ BeginOf(w) \in Nat /\ EndOf(w) \in Nat /\ EndOf(w) <= MergedPositions
      /\ MergedPositions \in Nat /\ expected[w] \in Nat /\ BeginOf(w) <= expected[w]
  BY MergeRanges, MergeAssumption DEF CollectedRight
<1>2. buffer[w] \in Seq(Slice \X Nat)
  BY DEF MergeTypeOK
<1>3. PICK length \in Nat : length = Len(buffer[w])
  BY <1>2
<1>4. length <= expected[w] - BeginOf(w)
  BY <1>3 DEF CollectedRight
<1> DEFINE page == Append(buffer[w], e)
<1>5. /\ page \in Seq(Slice \X Nat) /\ Len(page) = length + 1 /\ page[length + 1] = e
      /\ \A k \in 1 .. length : page[k] = buffer[w][k]
  BY <1>2, <1>3
<1>6. \/ /\ output' = [i \in Full |->
               LET first == expected[w] + 1 - Len(page) IN
               IF first <= i /\ i <= expected[w]
               THEN page[i - first + 1] ELSE output[i]]
         /\ buffer' = [buffer EXCEPT ![w] = <<>>]
      \/ /\ expected[w] + 1 # EndOf(w)
         /\ buffer' = [buffer EXCEPT ![w] = page] /\ UNCHANGED output
  BY DEF WritePage
<1> HIDE DEF page
<1>7. PICK first \in Nat : first = expected[w] - length
  BY <1>1, <1>4
<1>8. /\ first + length = expected[w] /\ BeginOf(w) <= first
      /\ expected[w] + 1 - Len(page) = first
  <2>1. Len(page) = length + 1
    BY ONLY <1>5
  <2> QED BY ONLY <1>1, <1>4, <1>7, <2>1, length \in Nat, first \in Nat
<1>9. /\ expected' \in [Merger -> Nat] /\ expected'[w] = expected[w] + 1
      /\ \A v \in Merger : v # w => expected'[v] = expected[v]
  BY <1>1 DEF MergeTypeOK
<1>10. \A i \in BeginOf(w) .. expected[w] - 1 :
          Collected(w, i) = IF i < first THEN output[i] ELSE buffer[w][i - first + 1]
  BY <1>3, <1>7 DEF Collected
<1>11. \A i \in BeginOf(w) .. expected[w] :
          /\ i \in Full /\ i \in Nat
          /\ i < expected[w] => i - first + 1 <= length
          /\ i >= first => i - first + 1 \in Nat /\ i - first + 1 >= 1
          /\ i = expected[w] => i - first + 1 = length + 1 /\ ~(i < first)
  BY <1>1, <1>8 DEF Full
<1>12. \A i \in Full : ~(BeginOf(w) <= i /\ i < EndOf(w)) => ~(first <= i /\ i <= expected[w])
  BY <1>1, <1>8 DEF Full
<1>13. CASE /\ output' = [i \in Full |->
                  LET start == expected[w] + 1 - Len(page) IN
                  IF start <= i /\ i <= expected[w]
                  THEN page[i - start + 1] ELSE output[i]]
            /\ buffer' = [buffer EXCEPT ![w] = <<>>]
  <2>1. \A i \in Full : output'[i] = IF first <= i /\ i <= expected[w]
                                     THEN page[i - first + 1] ELSE output[i]
    BY <1>8, <1>13
  <2>2. DOMAIN output' = Full
    BY <1>13
  <2>3. /\ buffer' \in [Merger -> Seq(Slice \X Nat)] /\ buffer'[w] = <<>> /\ Len(buffer'[w]) = 0
        /\ \A v \in Merger : v # w => buffer'[v] = buffer[v]
    <3>1. <<>> \in Seq(Slice \X Nat)
      OBVIOUS
    <3> QED BY <1>13, <3>1 DEF MergeTypeOK
  <2>4. \A i \in BeginOf(w) .. expected[w] : Collected(w, i)' = output'[i]
    <3>1. \A i \in BeginOf(w) .. expected[w] : i < expected'[w] - Len(buffer'[w])
      BY <1>1, <1>9, <2>3
    <3> QED BY <3>1 DEF Collected
  <2>5. ASSUME NEW i \in BeginOf(w) .. expected[w] - 1 PROVE Collected(w, i)' = Collected(w, i)
    <3>1. i \in BeginOf(w) .. expected[w] /\ i < expected[w] /\ i \in Full
      BY <1>1, <1>11
    <3>2. CASE i < first
      <4>1. ~(first <= i)
        BY <1>11, <3>1, <3>2
      <4> QED BY <1>10, <2>1, <2>4, <3>1, <3>2, <4>1
    <3>3. CASE ~(i < first)
      <4>1. first <= i /\ i <= expected[w] /\ i - first + 1 \in 1 .. length
        BY <1>1, <1>11, <3>1, <3>3
      <4>2. page[i - first + 1] = buffer[w][i - first + 1]
        BY <1>5, <4>1
      <4> QED BY <1>10, <2>1, <2>4, <3>1, <3>3, <4>1, <4>2
    <3> QED BY <3>2, <3>3
  <2>6. ASSUME NEW i \in Nat, i = expected[w] PROVE Collected(w, i)' = e
    <3>1. i \in BeginOf(w) .. expected[w]
      BY <1>1, <2>6
    <3>2. Collected(w, i)' = output'[i] /\ i \in Full /\ i - first + 1 = length + 1
          /\ first <= i /\ i <= expected[w]
      BY <1>1, <1>11, <2>4, <2>6, <3>1
    <3> QED BY <1>5, <2>1, <3>2
  <2>7. Len(buffer'[w]) <= expected'[w] - BeginOf(w)
    BY <1>1, <1>9, <2>3
  <2> QED BY <1>9, <1>12, <2>1, <2>2, <2>3, <2>5, <2>6, <2>7
<1>14. CASE /\ expected[w] + 1 # EndOf(w)
            /\ buffer' = [buffer EXCEPT ![w] = page] /\ UNCHANGED output
  <2>1. /\ buffer' \in [Merger -> Seq(Slice \X Nat)] /\ buffer'[w] = page
        /\ \A v \in Merger : v # w => buffer'[v] = buffer[v]
    BY <1>5, <1>14 DEF MergeTypeOK
  <2>2. expected'[w] - Len(buffer'[w]) = first /\ Len(buffer'[w]) = length + 1
    <3>1. buffer'[w] = page /\ Len(page) = length + 1 /\ expected'[w] = expected[w] + 1
          /\ first + length = expected[w]
      BY <1>5, <1>8, <1>9, <2>1
    <3> QED BY ONLY <1>1, <3>1, length \in Nat, first \in Nat
  <2>3. \A i : Collected(w, i)' = IF i < first THEN output[i] ELSE page[i - first + 1]
    BY <1>14, <2>1, <2>2 DEF Collected
  <2>4. ASSUME NEW i \in BeginOf(w) .. expected[w] - 1 PROVE Collected(w, i)' = Collected(w, i)
    <3>1. i \in BeginOf(w) .. expected[w] /\ i < expected[w] /\ i \in Nat
      BY <1>1, <1>11
    <3>2. ~(i < first) => i - first + 1 \in 1 .. length
      BY <1>11, <3>1
    <3> QED BY <1>5, <1>10, <2>3, <3>2
  <2>5. ASSUME NEW i \in Nat, i = expected[w] PROVE Collected(w, i)' = e
    <3>1. i \in BeginOf(w) .. expected[w]
      BY <1>1, <2>5
    <3>2. i - first + 1 = length + 1 /\ ~(i < first)
      BY <1>11, <2>5, <3>1
    <3> QED BY <1>5, <2>3, <3>2
  <2>6. Len(buffer'[w]) <= expected'[w] - BeginOf(w)
    <3>1. Len(buffer'[w]) = length + 1 /\ expected'[w] = expected[w] + 1
      BY ONLY <1>9, <2>2
    <3> QED BY ONLY <1>1, <1>4, <3>1, length \in Nat
  <2> QED BY <1>9, <1>14, <2>1, <2>4, <2>5, <2>6 DEF MergeTypeOK
<1> QED BY <1>6, <1>13, <1>14 DEF page

LEMMA EntryStep ==
  ASSUME MergeInv, NEW w \in Merger, NEW s \in Slice, MergeEntry(w, s)
  PROVE  MergeInv'
<1>0. /\ MergeTypeOK /\ status[w] = "merge" /\ ~cancelled /\ s \in heap[w]
      /\ UNCHANGED <<rank, mergeStage, mergeCursor, parts>>
  BY DEF MergeInv, MergeEntry, Smallest, input
<1>1. CASE ~ Matches(w, s)
  BY <1>0, <1>1, FailStep DEF MergeEntry
<1>2. CASE Matches(w, s)
  <2> DEFINE e == <<s, next[w][s] - 1>>
  <2>1. /\ WritePage(w, Append(buffer[w], e)) /\ expected' = [expected EXCEPT ![w] = @ + 1]
        /\ LoadNext(w, s)
    BY <1>2 DEF MergeEntry
  <2>2. CollectedRight(w) /\ expected[w] < EndOf(w) /\ FullIndex(s, next[w][s] - 1) = expected[w]
    BY <1>0, <1>2 DEF MergeInv, WorkInv, Matches, Loaded
  <2>3. PartRight(w)
    BY <1>0 DEF MergeInv, PartsInv, EndedInv
  <2>4. \A u \in Slice : /\ next[w][u] \in Nat /\ from[w][u] \in Nat /\ upto[w][u] \in Nat
                         /\ from[w][u] <= next[w][u] /\ next[w][u] <= upto[w][u]
                         /\ u \in heap[w] => from[w][u] < next[w][u]
                         /\ u \notin heap[w] => next[w][u] = upto[w][u]
    BY <1>0, <2>2 DEF MergeTypeOK, CollectedRight
  <2>5. next[w][s] - 1 \in Nat /\ next[w][s] - 1 < EntryCount(s) /\ e \in Entries /\ e \in Slice \X Nat
    <3>1. next[w][s] - 1 \in Nat /\ next[w][s] <= upto[w][s] /\ upto[w][s] <= EntryCount(s)
      BY <1>0, <2>3, <2>4 DEF PartRight
    <3>2. EntryCount(s) \in Nat
      BY <1>0, EntryFacts DEF MergeTypeOK
    <3>3. next[w][s] - 1 < EntryCount(s)
      BY <2>4, <3>1, <3>2
    <3>4. PICK l \in Nat : l = next[w][s] - 1
      BY <3>1
    <3>5. <<s, l>> \in Entries
      BY <1>0, <3>3, <3>4, EntryFacts DEF MergeTypeOK
    <3> QED BY <3>1, <3>3, <3>4, <3>5
  <2> HIDE DEF e
  <2>6. /\ expected' \in [Merger -> Nat] /\ expected'[w] = expected[w] + 1
        /\ buffer' \in [Merger -> Seq(Slice \X Nat)] /\ DOMAIN output' = Full
        /\ Len(buffer'[w]) <= expected'[w] - BeginOf(w)
        /\ expected'[w] = EndOf(w) => buffer'[w] = <<>>
        /\ \A i \in BeginOf(w) .. expected[w] - 1 : Collected(w, i)' = Collected(w, i)
        /\ \A i \in Nat : i = expected[w] => Collected(w, i)' = e
        /\ \A v \in Merger : v # w => buffer'[v] = buffer[v] /\ expected'[v] = expected[v]
        /\ \A i \in Full : ~(BeginOf(w) <= i /\ i < EndOf(w)) => output'[i] = output[i]
    BY <1>0, <2>1, <2>2, <2>5, PageFacts
  <2>7. BeginOf(w) \in Nat /\ EndOf(w) \in Nat /\ expected[w] \in Nat /\ BeginOf(w) <= expected[w]
    BY <1>0, <2>2, MergeRanges DEF CollectedRight
  <2>8. \A i \in BeginOf(w) .. expected'[w] - 1 :
            i \in BeginOf(w) .. expected[w] - 1 \/ (i \in Nat /\ i = expected[w])
    BY <2>6, <2>7
  <2>9. Entries' = Entries /\ \A u, l : FullIndex(u, l)' = FullIndex(u, l)
    BY <1>0 DEF Entries, EntryCount, FullIndex
  <2>10. ASSUME NEW i \in BeginOf(w) .. expected'[w] - 1
         PROVE  LET x == Collected(w, i)' IN x \in Entries /\ FullIndex(x[1], x[2]) = i
    <3>1. CASE i \in BeginOf(w) .. expected[w] - 1
      <4>1. LET x == Collected(w, i) IN x \in Entries /\ FullIndex(x[1], x[2]) = i
        BY <2>2, <3>1 DEF CollectedRight
      <4> QED BY <2>6, <3>1, <4>1
    <3>2. CASE i \in Nat /\ i = expected[w]
      <4>1. e[1] = s /\ e[2] = next[w][s] - 1
        BY DEF e
      <4>2. Collected(w, i)' = e
        BY <2>6, <3>2
      <4>3. FullIndex(e[1], e[2]) = i
        BY <2>2, <3>2, <4>1
      <4> QED BY <2>5, <4>2, <4>3
    <3> QED BY <2>8, <3>1, <3>2
  <2>11. expected'[w] \in BeginOf(w) .. EndOf(w)
    BY <2>2, <2>6, <2>7
  <2>12. \A v \in Merger : BeginOf(v)' = BeginOf(v) /\ EndOf(v)' = EndOf(v)
    BY DEF BeginOf, EndOf, FirstOutputPage
  <2>13. UNCHANGED <<from, upto>>
    BY <1>0 DEF parts
  (* What was taken, and the entry that is taken now, are collected.       *)
  <2>14. ASSUME NEW u \in Slice, NEW l, l \in TakenBy(w, u) \/ (u = s /\ l = next[w][s] - 1)
         PROVE  \E i \in BeginOf(w) .. expected'[w] - 1 : Collected(w, i)' = <<u, l>>
    <3>1. CASE l \in TakenBy(w, u)
      <4>1. PICK i \in BeginOf(w) .. expected[w] - 1 : Collected(w, i) = <<u, l>>
        BY <2>2, <3>1 DEF CollectedRight
      <4>2. i \in BeginOf(w) .. expected'[w] - 1
        BY <2>6, <2>7
      <4> QED BY <2>6, <4>1, <4>2
    <3>2. CASE u = s /\ l = next[w][s] - 1
      <4>1. PICK i \in Nat : i = expected[w]
        BY <2>7
      <4>2. i \in BeginOf(w) .. expected'[w] - 1
        BY <2>6, <2>7, <4>1
      <4>3. Collected(w, i)' = e
        BY <2>6, <4>1
      <4> QED BY <3>2, <4>2, <4>3 DEF e
    <3> QED BY <2>14, <3>1, <3>2
  <2>15. \A u \in Slice : TakenBy(w, u) = from[w][u] .. (IF u \in heap[w] THEN next[w][u] - 2
                                                                        ELSE next[w][u] - 1)
    BY DEF TakenBy
  <2>16. \A u \in Slice : TakenBy(w, u)' = from[w][u] .. (IF u \in heap'[w] THEN next'[w][u] - 2
                                                                          ELSE next'[w][u] - 1)
    BY <2>13 DEF TakenBy
  <2>17. ASSUME status' = status, cancelled' = cancelled,
                next' \in [Merger -> [Slice -> Nat]], heap' \in [Merger -> SUBSET Slice],
                \A v \in Merger : v # w => next'[v] = next[v] /\ heap'[v] = heap[v],
                \A u \in Slice : /\ from[w][u] <= next'[w][u] /\ next'[w][u] <= upto[w][u]
                                 /\ u \in heap'[w] => from[w][u] < next'[w][u]
                                 /\ u \notin heap'[w] => next'[w][u] = upto[w][u],
                \A u \in Slice : \A l \in TakenBy(w, u)' :
                     l \in TakenBy(w, u) \/ (u = s /\ l = next[w][s] - 1)
         PROVE  MergeInv'
    <3>1. CollectedRight(w)'
      BY <2>6, <2>9, <2>10, <2>11, <2>12, <2>13, <2>14, <2>17 DEF CollectedRight
    <3>2. MergeTypeOK'
      BY <1>0, <2>6, <2>17 DEF MergeTypeOK, parts, Merger, Full, WorkerCount
    <3> QED BY <1>0, <2>6, <2>17, <3>1, <3>2, WorkerKeeps
  <2>18. CASE next[w][s] = upto[w][s]
    <3>1. heap' = [heap EXCEPT ![w] = @ \ {s}] /\ UNCHANGED <<next, status, cancelled>>
      BY <2>1, <2>18 DEF LoadNext
    <3>2. /\ heap' \in [Merger -> SUBSET Slice] /\ heap'[w] = heap[w] \ {s}
          /\ \A v \in Merger : v # w => heap'[v] = heap[v]
      BY <1>0, <3>1 DEF MergeTypeOK
    <3>3. ASSUME NEW u \in Slice, NEW l \in TakenBy(w, u)'
          PROVE  l \in TakenBy(w, u) \/ (u = s /\ l = next[w][s] - 1)
      <4>1. CASE u = s
        <5>1. l \in from[w][s] .. next[w][s] - 1
          BY <2>16, <3>1, <3>2, <3>3, <4>1
        <5>2. TakenBy(w, s) = from[w][s] .. next[w][s] - 2
          BY <1>0, <2>15
        <5> QED BY <2>4, <4>1, <5>1, <5>2
      <4>2. CASE u # s
        BY <2>15, <2>16, <3>1, <3>2, <3>3, <4>2
      <4> QED BY <4>1, <4>2
    <3>4. next' \in [Merger -> [Slice -> Nat]]
      BY <1>0, <3>1 DEF MergeTypeOK
    <3>5. \A u \in Slice : /\ from[w][u] <= next'[w][u] /\ next'[w][u] <= upto[w][u]
                           /\ u \in heap'[w] => from[w][u] < next'[w][u]
                           /\ u \notin heap'[w] => next'[w][u] = upto[w][u]
      BY <2>4, <2>18, <3>1, <3>2
    <3> QED BY <2>17, <3>1, <3>2, <3>3, <3>4, <3>5
  <2>19. CASE next[w][s] # upto[w][s] /\ FullIndex(s, next[w][s]) > Loaded(w, s)
    <3>1. next' = [next EXCEPT ![w][s] = @ + 1] /\ UNCHANGED <<heap, status, cancelled>>
      BY <2>1, <2>19 DEF LoadNext
    <3>2. next' = [next EXCEPT ![w] = [next[w] EXCEPT ![s] = next[w][s] + 1]]
      BY <3>1
    <3>3. next[w] \in [Slice -> Nat]
      BY <1>0 DEF MergeTypeOK
    <3>4. /\ next' \in [Merger -> [Slice -> Nat]] /\ next'[w][s] = next[w][s] + 1
          /\ \A u \in Slice : u # s => next'[w][u] = next[w][u]
          /\ \A v \in Merger : v # w => next'[v] = next[v]
      BY <1>0, <2>4, <3>2, <3>3 DEF MergeTypeOK
    <3>5. ASSUME NEW u \in Slice, NEW l \in TakenBy(w, u)'
          PROVE  l \in TakenBy(w, u) \/ (u = s /\ l = next[w][s] - 1)
      <4>1. CASE u = s
        <5>1. l \in from[w][s] .. next'[w][s] - 2
          BY <1>0, <2>16, <3>1, <3>5, <4>1
        <5>2. TakenBy(w, s) = from[w][s] .. next[w][s] - 2
          BY <1>0, <2>15
        <5> QED BY <2>4, <3>4, <4>1, <5>1, <5>2
      <4>2. CASE u # s
        BY <2>15, <2>16, <3>1, <3>4, <3>5, <4>2
      <4> QED BY <4>1, <4>2
    <3>6. heap' \in [Merger -> SUBSET Slice]
      BY <1>0, <3>1 DEF MergeTypeOK
    <3>7. \A u \in Slice : /\ from[w][u] <= next'[w][u] /\ next'[w][u] <= upto[w][u]
                           /\ u \in heap'[w] => from[w][u] < next'[w][u]
                           /\ u \notin heap'[w] => next'[w][u] = upto[w][u]
      <4>1. next[w][s] + 1 <= upto[w][s]
        BY <2>4, <2>19
      <4>2. heap'[w] = heap[w]
        BY <3>1
      <4> QED BY <1>0, <2>4, <3>4, <4>1, <4>2
    <3> QED BY <2>17, <3>1, <3>4, <3>5, <3>6, <3>7
  <2>20. CASE next[w][s] # upto[w][s] /\ ~(FullIndex(s, next[w][s]) > Loaded(w, s))
    <3>1. Fail(w) /\ UNCHANGED <<next, heap>>
      BY <2>1, <2>20 DEF LoadNext
    <3>2. status' \in [Merger -> {"idle", "open", "merge", "ok", "failed"}] /\ status'[w] = "failed"
          /\ \A v \in Merger : v # w => status'[v] = status[v]
      BY <1>0, <3>1 DEF Fail, MergeTypeOK
    <3>3. cancelled' = TRUE
      BY <3>1 DEF Fail
    <3>4. MergeTypeOK'
      BY <1>0, <2>6, <3>1, <3>2, <3>3 DEF MergeTypeOK, parts, Merger, Full, WorkerCount
    <3> QED BY <1>0, <2>6, <3>1, <3>2, <3>3, <3>4, WorkerKeeps
  <2> QED BY <2>18, <2>19, <2>20
<1> QED BY <1>1, <1>2

LEMMA MergeStep == ASSUME MergeInv, [MergeNext]_mergeVars PROVE MergeInv'
<1>1. CASE Divide
  BY <1>1, DivideStep
<1>2. CASE Divided \/ StartWorker \/ StartFails \/ Started \/ Join \/ CoordinatorFault
  BY <1>2, CoordinatorStep
<1>3. ASSUME NEW w \in Merger, WorkerStep(w) PROVE MergeInv'
  BY <1>3, OpenStep, EntryStep, LeaveStep DEF WorkerStep
<1>4. ASSUME NEW w \in Merger, WorkerFault(w) PROVE MergeInv'
  <2>1. Fail(w) /\ status[w] \in {"open", "merge"}
        /\ UNCHANGED <<rank, mergeStage, mergeCursor, parts, next, heap, expected, buffer, output>>
    BY <1>4 DEF WorkerFault, input
  <2> QED BY <2>1, FailStep
<1>5. CASE UNCHANGED mergeVars
  <2>1. /\ UNCHANGED <<rank, parts, next, heap, expected, buffer, output>>
        /\ UNCHANGED <<status, mergeStage, mergeCursor, cancelled>>
    BY <1>5 DEF mergeVars, work, input
  <2>2. WorkInv'
    BY <2>1, CoordinatorKeeps
  <2>3. MergeTypeOK' /\ EndedInv'
    BY <2>1 DEF MergeInv, MergeTypeOK, EndedInv, parts, Merger, Full, WorkerCount
  <2>4. PartsInv'
    BY <2>1, PartsKept DEF MergeInv, PartsInv, Merger, WorkerCount
  <2> QED BY <2>2, <2>3, <2>4 DEF MergeInv
<1> QED BY <1>1, <1>2, <1>3, <1>4, <1>5 DEF MergeNext, Coordinate

(* A merge that succeeds has written every position from the entry that    *)
(* maps to it and has omitted no entry, whatever the slices hold, however  *)
(* the pages are divided and the workers interleave, and whichever of them *)
(* fails or is cancelled.                                                  *)
THEOREM MergeCorrect == MergeSpec => []MergedIsExact
<1>1. MergeInit => MergeInv
  BY MergeInitially
<1>2. MergeInv /\ [MergeNext]_mergeVars => MergeInv'
  BY MergeStep
<1>3. MergeInv => MergedIsExact
  BY MergeInvExact
<1> QED BY <1>1, <1>2, <1>3, PTL DEF MergeSpec

-----------------------------------------------------------------------------
(* What a slice of right input holds increases.                            *)
LEMMA IndicesIncrease ==
  ASSUME rank \in [Slice -> Seq(Full)], Partition, NEW s \in Slice,
         NEW k \in 0 .. EntryCount(s) - 1, NEW l \in 0 .. EntryCount(s) - 1, k < l
  PROVE  FullIndex(s, k) < FullIndex(s, l)
<1> DEFINE At(x) == FullIndex(s, x)
           N == EntryCount(s)
           Bad == {x \in Nat : k < x /\ x < N /\ ~(At(k) < At(x))}
<1>1. N \in Nat /\ \A x \in Nat : x < N => At(x) \in Nat
  <2>1. Full \subseteq Nat
    BY MergeAssumption DEF Full
  <2> QED BY <2>1, EntryFacts
<1>2. \A x \in 1 .. N - 1 : At(x - 1) < At(x)
  BY DEF Partition
<1> HIDE DEF At, N
<1>3. Bad = {}
  <2> SUFFICES ASSUME Bad # {} PROVE FALSE
    OBVIOUS
  <2>1. PICK x \in Bad : \A y \in Bad : x <= y
    <3>1. Bad \in SUBSET Nat
      OBVIOUS
    <3> HIDE DEF Bad
    <3> QED BY <3>1, LeastNatural
  <2>2. x \in Nat /\ k < x /\ x < N /\ ~(At(k) < At(x)) /\ k \in Nat
    BY DEF N
  <2>3. x \in 1 .. N - 1 /\ x - 1 \in Nat /\ ~(x <= x - 1) /\ x - 1 < N /\ (k < x - 1 \/ k = x - 1)
    BY <1>1, <2>2
  <2>4. At(x - 1) < At(x) /\ At(x - 1) \in Nat /\ At(x) \in Nat /\ At(k) \in Nat
    BY <1>1, <1>2, <2>2, <2>3
  <2>5. x - 1 \notin Bad
    <3> HIDE DEF Bad
    <3> QED BY <2>1, <2>3
  <2>6. k = x - 1 \/ At(k) < At(x - 1)
    BY <2>3, <2>5
  <2> QED BY <2>2, <2>4, <2>6
<1>4. l \in Nat /\ l < N
  BY <1>1 DEF N
<1> QED BY <1>3, <1>4 DEF At

(* Boundaries are in the order of their targets.                           *)
LEMMA BoundaryOrder ==
  ASSUME rank \in [Slice -> Seq(Full)], Partition, NEW s \in Slice,
         NEW p \in Nat, NEW q \in Nat, p <= q,
         NEW a \in 0 .. EntryCount(s), NEW b \in 0 .. EntryCount(s),
         BoundaryHolds(s, p, a), BoundaryHolds(s, q, b)
  PROVE  a <= b
<1>1. EntryCount(s) \in Nat /\ \A x \in Nat : x < EntryCount(s) => FullIndex(s, x) \in Nat
  <2>1. Full \subseteq Nat
    BY MergeAssumption DEF Full
  <2> QED BY <2>1, EntryFacts
<1> SUFFICES ASSUME b < a PROVE FALSE
  BY <1>1
<1>2. /\ b \in 0 .. EntryCount(s) - 1 /\ a - 1 \in 0 .. EntryCount(s) - 1
      /\ a > 0 /\ b < EntryCount(s) /\ (b = a - 1 \/ b < a - 1)
  BY <1>1
<1>3. FullIndex(s, a - 1) < p /\ FullIndex(s, b) >= q
  BY <1>2 DEF BoundaryHolds
<1>4. b = a - 1 \/ FullIndex(s, b) < FullIndex(s, a - 1)
  BY <1>2, IndicesIncrease
<1>5. FullIndex(s, b) \in Nat /\ FullIndex(s, a - 1) \in Nat
  BY <1>1, <1>2
<1> QED BY <1>3, <1>4, <1>5

(* A boundary separates the entries below the target from the others.      *)
LEMMA BoundarySeparates ==
  ASSUME rank \in [Slice -> Seq(Full)], Partition, NEW s \in Slice, NEW p \in Nat,
         NEW a \in 0 .. EntryCount(s), BoundaryHolds(s, p, a),
         NEW l \in 0 .. EntryCount(s) - 1
  PROVE  l < a <=> FullIndex(s, l) < p
<1>1. EntryCount(s) \in Nat /\ \A x \in Nat : x < EntryCount(s) => FullIndex(s, x) \in Nat
  <2>1. Full \subseteq Nat
    BY MergeAssumption DEF Full
  <2> QED BY <2>1, EntryFacts
<1>2. l \in Nat /\ l < EntryCount(s) /\ FullIndex(s, l) \in Nat
  BY <1>1
<1>3. CASE l < a
  <2>1. a > 0 /\ a - 1 \in 0 .. EntryCount(s) - 1 /\ (l = a - 1 \/ l < a - 1)
        /\ a - 1 \in Nat /\ a - 1 < EntryCount(s)
    BY <1>1, <1>3
  <2>2. FullIndex(s, a - 1) < p /\ FullIndex(s, a - 1) \in Nat
    BY <1>1, <2>1 DEF BoundaryHolds
  <2>3. l = a - 1 \/ FullIndex(s, l) < FullIndex(s, a - 1)
    BY <2>1, IndicesIncrease
  <2> QED BY <1>2, <1>3, <2>2, <2>3
<1>4. CASE ~(l < a)
  <2>1. a < EntryCount(s) /\ a \in 0 .. EntryCount(s) - 1 /\ (l = a \/ a < l) /\ a \in Nat
    BY <1>1, <1>2, <1>4
  <2>2. FullIndex(s, a) >= p /\ FullIndex(s, a) \in Nat
    BY <1>1, <2>1 DEF BoundaryHolds
  <2>3. l = a \/ FullIndex(s, a) < FullIndex(s, l)
    BY <2>1, IndicesIncrease
  <2> QED BY <1>2, <1>4, <2>2, <2>3
<1> QED BY <1>3, <1>4

-----------------------------------------------------------------------------
(* The entries of right input are in every position and no two in one.     *)
LEMMA OneEntryEach ==
  ASSUME rank \in [Slice -> Seq(Full)], Partition
  PROVE  /\ \A i \in Full : \E s \in Slice : \E l \in 0 .. EntryCount(s) - 1 : FullIndex(s, l) = i
         /\ \A s, u \in Slice : \A k \in 0 .. EntryCount(s) - 1, l \in 0 .. EntryCount(u) - 1 :
              FullIndex(s, k) = FullIndex(u, l) => s = u /\ k = l
<1> DEFINE f == [e \in Entries |-> FullIndex(e[1], e[2])]
           EntriesOf(s) == {<<s, l>> : l \in 0 .. EntryCount(s) - 1}
           sets == [s \in Slice |-> EntriesOf(s)]
<1>1. \A s \in Slice : EntryCount(s) \in Nat
  BY EntryFacts
<1>2. ASSUME NEW s \in Slice PROVE IsFiniteSet(EntriesOf(s))
  <2> DEFINE h == [l \in 0 .. EntryCount(s) - 1 |-> <<s, l>>]
  <2>1. IsFiniteSet(0 .. EntryCount(s) - 1)
    BY <1>1, FS_Interval
  <2>2. h \in Surjection(0 .. EntryCount(s) - 1, EntriesOf(s))
    BY DEF Surjection
  <2> HIDE DEF h, EntriesOf
  <2> QED BY <2>1, <2>2, FS_Surjection
<1>3. Entries = UNION {EntriesOf(s) : s \in Slice}
  BY DEF Entries
<1>4. IsFiniteSet(Entries)
  <2>1. sets \in Surjection(Slice, {EntriesOf(s) : s \in Slice})
    <3> HIDE DEF EntriesOf
    <3> QED BY DEF Surjection
  <2>2. IsFiniteSet({EntriesOf(s) : s \in Slice})
    <3>1. IsFiniteSet(Slice)
      BY MergeAssumption
    <3> HIDE DEF sets, EntriesOf
    <3> QED BY <2>1, <3>1, FS_Surjection
  <2>3. \A T \in {EntriesOf(s) : s \in Slice} : IsFiniteSet(T)
    <3> HIDE DEF EntriesOf
    <3> QED BY <1>2
  <2> HIDE DEF EntriesOf
  <2> QED BY <1>3, <2>2, <2>3, FS_UNION
<1>5. f \in Surjection(Entries, Full)
  <2>1. {FullIndex(e[1], e[2]) : e \in Entries} = Full
    BY DEF Partition
  <2> QED BY <2>1 DEF Surjection
<1>6. Cardinality(Full) = Cardinality(Entries)
  <2>1. MergedPositions \in Nat \ {0}
    BY MergeAssumption
  <2>2. 0 \in Int /\ MergedPositions - 1 \in Int /\ ~(0 > MergedPositions - 1)
    BY <2>1
  <2>3. Cardinality(Full) = (MergedPositions - 1) - 0 + 1
    BY <2>2, FS_Interval DEF Full
  <2>4. Cardinality(Full) = MergedPositions
    BY <2>1, <2>3
  <2> QED BY <2>4 DEF Partition
<1>7. \A d, e \in Entries : f[d] = f[e] => d = e
  <2> HIDE DEF f
  <2>1. f \in Injection(Entries, Full)
    BY <1>4, <1>5, <1>6, FS_Surjection
  <2> QED BY <2>1 DEF Injection, IsInjective
<1>8. ASSUME NEW s \in Slice, NEW l \in 0 .. EntryCount(s) - 1
      PROVE  <<s, l>> \in Entries /\ f[<<s, l>>] = FullIndex(s, l)
  <2>1. <<s, l>> \in Entries
    BY DEF Entries
  <2> QED BY <2>1
<1>9. ASSUME NEW i \in Full
      PROVE  \E s \in Slice : \E l \in 0 .. EntryCount(s) - 1 : FullIndex(s, l) = i
  <2>1. PICK e \in Entries : FullIndex(e[1], e[2]) = i
    BY DEF Partition
  <2>2. PICK s \in Slice : \E l \in 0 .. EntryCount(s) - 1 : e = <<s, l>>
    BY EntryIs
  <2> QED BY <2>1, <2>2
<1>10. ASSUME NEW s \in Slice, NEW u \in Slice,
              NEW k \in 0 .. EntryCount(s) - 1, NEW l \in 0 .. EntryCount(u) - 1,
              FullIndex(s, k) = FullIndex(u, l)
       PROVE  s = u /\ k = l
  <2> HIDE DEF f
  <2>1. <<s, k>> = <<u, l>>
    BY <1>7, <1>8, <1>10
  <2> QED BY <2>1
<1> QED BY <1>9, <1>10

-----------------------------------------------------------------------------
(* The sums over slices that the coordinator compares with a range.        *)
PickedSlice(T) == CHOOSE s \in T : TRUE

PartSums(lower, upper) ==
  LET sum[T \in SUBSET Slice] ==
        IF T = {} THEN 0
        ELSE upper[PickedSlice(T)] - lower[PickedSlice(T)] + sum[T \ {PickedSlice(T)}]
  IN  sum

LEMMA SlicesFacts ==
  ASSUME NEW T \in SUBSET Slice
  PROVE  /\ IsFiniteSet(T) /\ Cardinality(T) \in Nat
         /\ T # {} => /\ PickedSlice(T) \in T
                      /\ Cardinality(T \ {PickedSlice(T)}) = Cardinality(T) - 1
                      /\ T \ {PickedSlice(T)} \in SUBSET Slice /\ Cardinality(T) # 0
<1>1. IsFiniteSet(T)
  BY MergeAssumption, FS_Subset
<1>2. Cardinality(T) \in Nat
  BY <1>1, FS_CardinalityType
<1>3. ASSUME T # {} PROVE PickedSlice(T) \in T
  BY <1>3 DEF PickedSlice
<1>4. ASSUME T # {} PROVE Cardinality(T \ {PickedSlice(T)}) = Cardinality(T) - 1
  BY <1>1, <1>3, <1>4, FS_RemoveElement
<1>5. ASSUME T # {} PROVE Cardinality(T) # 0
  BY <1>1, <1>5, FS_EmptySet
<1> QED BY <1>1, <1>2, <1>3, <1>4, <1>5

(* The recursion has a solution, by the size of the subsets.               *)
SumsUpTo(f, n, g) ==
  \A T \in SUBSET Slice : Cardinality(T) <= n =>
    g[T] = IF T = {} THEN 0 ELSE f[PickedSlice(T)] + g[T \ {PickedSlice(T)}]

LEMMA SumsExtend ==
  ASSUME NEW f, NEW n \in Nat, NEW g, n # 0 => SumsUpTo(f, n - 1, g)
  PROVE  \E h : SumsUpTo(f, n, h)
<1> DEFINE h == [T \in SUBSET Slice |->
                  IF T = {} THEN 0
                  ELSE IF Cardinality(T) < n THEN g[T]
                       ELSE f[PickedSlice(T)] + g[T \ {PickedSlice(T)}]]
<1>1. ASSUME NEW T \in SUBSET Slice, Cardinality(T) <= n, T # {}
      PROVE  h[T] = f[PickedSlice(T)] + h[T \ {PickedSlice(T)}]
  <2>1. PICK r \in SUBSET Slice : r = T \ {PickedSlice(T)}
    BY <1>1, SlicesFacts
  <2>2. /\ Cardinality(T) \in Nat \ {0} /\ Cardinality(r) = Cardinality(T) - 1 /\ Cardinality(r) \in Nat
    BY <1>1, <2>1, SlicesFacts
  <2>3. n - 1 \in Nat /\ n # 0 /\ Cardinality(r) <= n - 1 /\ Cardinality(r) < n
    BY <1>1, <2>2
  <2>4. Cardinality(T) < n => g[T] = f[PickedSlice(T)] + g[r]
    <3>1. Cardinality(T) < n => Cardinality(T) <= n - 1
      BY <2>2
    <3> QED BY <1>1, <2>1, <2>3, <3>1 DEF SumsUpTo
  <2>5. h[T] = f[PickedSlice(T)] + g[r]
    BY <1>1, <2>1, <2>4
  <2>6. h[r] = g[r]
    <3>1. CASE r = {}
      <4>1. Cardinality(r) <= n - 1
        BY <2>3
      <4>2. g[r] = 0
        BY <2>3, <3>1, <4>1 DEF SumsUpTo
      <4> QED BY <3>1, <4>2
    <3>2. CASE r # {}
      BY <2>3, <3>2
    <3> QED BY <3>1, <3>2
  <2> HIDE DEF h
  <2> QED BY <2>1, <2>5, <2>6
<1>2. \A T \in SUBSET Slice : T = {} => h[T] = 0
  OBVIOUS
<1> HIDE DEF h
<1>3. SumsUpTo(f, n, h)
  BY <1>1, <1>2 DEF SumsUpTo
<1> QED BY <1>3

LEMMA PartSumsFacts ==
  ASSUME NEW lower \in [Slice -> Nat], NEW upper \in [Slice -> Nat]
  PROVE  \A T \in SUBSET Slice :
           PartSums(lower, upper)[T] =
             IF T = {} THEN 0
             ELSE upper[PickedSlice(T)] - lower[PickedSlice(T)]
                  + PartSums(lower, upper)[T \ {PickedSlice(T)}]
<1> DEFINE f == [s \in Slice |-> upper[s] - lower[s]]
           Without == {n \in Nat : ~\E g : SumsUpTo(f, n, g)}
<1>0. \A T \in SUBSET Slice : T # {} => f[PickedSlice(T)] = upper[PickedSlice(T)] - lower[PickedSlice(T)]
  BY SlicesFacts
<1> HIDE DEF f
<1>1. Without = {}
  <2> SUFFICES ASSUME Without # {} PROVE FALSE
    OBVIOUS
  <2>1. PICK m \in Without : \A y \in Without : m <= y
    <3>1. Without \in SUBSET Nat
      OBVIOUS
    <3> HIDE DEF Without
    <3> QED BY <3>1, LeastNatural
  <2>2. m \in Nat
    OBVIOUS
  <2>3. m # 0 => m - 1 \in Nat /\ m - 1 \notin Without
    <3>1. m # 0 => m - 1 \in Nat /\ ~(m <= m - 1)
      BY <2>2
    <3> HIDE DEF Without
    <3> QED BY <2>1, <3>1
  <2>4. \E g : m # 0 => SumsUpTo(f, m - 1, g)
    BY <2>3
  <2>5. \E h : SumsUpTo(f, m, h)
    BY <2>2, <2>4, SumsExtend
  <2> QED BY <2>5
<1>2. Slice \in SUBSET Slice /\ Cardinality(Slice) \in Nat
  BY SlicesFacts
<1>3. PICK g : SumsUpTo(f, Cardinality(Slice), g)
  BY <1>1, <1>2
<1>4. \A T \in SUBSET Slice : Cardinality(T) <= Cardinality(Slice)
  BY MergeAssumption, FS_Subset
<1>5. PICK e : e = [T \in SUBSET Slice |-> g[T]]
  OBVIOUS
<1> DEFINE R(q) == [T \in SUBSET Slice |->
                     IF T = {} THEN 0
                     ELSE upper[PickedSlice(T)] - lower[PickedSlice(T)] + q[T \ {PickedSlice(T)}]]
<1>6. e = R(e)
  <2>1. \A T \in SUBSET Slice : T # {} => T \ {PickedSlice(T)} \in SUBSET Slice
    BY SlicesFacts
  <2>2. \A T \in SUBSET Slice : e[T] = IF T = {} THEN 0 ELSE f[PickedSlice(T)] + e[T \ {PickedSlice(T)}]
    BY <1>3, <1>4, <1>5, <2>1 DEF SumsUpTo
  <2>3. \A T \in SUBSET Slice : e[T] = IF T = {} THEN 0
                                        ELSE upper[PickedSlice(T)] - lower[PickedSlice(T)] + e[T \ {PickedSlice(T)}]
    BY <1>0, <2>2
  <2> QED BY <1>5, <2>3
<1>7. PartSums(lower, upper) = CHOOSE q : q = R(q)
  BY DEF PartSums
<1> HIDE DEF R
<1>8. PartSums(lower, upper) = R(PartSums(lower, upper))
  BY <1>6, <1>7
<1> QED BY <1>8 DEF R

-----------------------------------------------------------------------------
(* The ranges meet, the first begins and the last ends with the database.  *)
LEMMA RangesMeet ==
  /\ BeginOf(0) = 0 /\ 0 \in Merger
  /\ \A w \in Merger : /\ w + 1 = WorkerCount => EndOf(w) = MergedPositions
                       /\ w + 1 < WorkerCount => EndOf(w) = BeginOf(w + 1)
<1>0. MergedPositions \in Nat \ {0} /\ PerPage \in Nat \ {0} /\ WorkerCount \in Nat \ {0}
  BY MergeAssumption, PageRanges
<1>1. BeginOf(0) = 0 /\ 0 \in Merger
  BY <1>0, PageRanges DEF BeginOf, Merger
<1>2. ASSUME NEW w \in Merger, w + 1 = WorkerCount PROVE EndOf(w) = MergedPositions
  BY <1>2, PageRanges DEF EndOf
<1>3. ASSUME NEW w \in Merger, w + 1 < WorkerCount PROVE EndOf(w) = BeginOf(w + 1)
  <2>1. w + 1 \in 0 .. WorkerCount /\ WorkerCount \in 0 .. WorkerCount
    BY <1>0, <1>3 DEF Merger
  <2>2. FirstOutputPage(w + 1) < FirstOutputPage(WorkerCount) /\ FirstOutputPage(w + 1) \in Nat
    BY <1>3, <2>1, PageRanges
  <2>3. FirstOutputPage(w + 1) # Pages
    BY <2>2, PageRanges
  <2> QED BY <2>3 DEF EndOf, BeginOf
<1> QED BY <1>1, <1>2, <1>3

(* The parts of right input add up to the range they were searched for.    *)
LEMMA PartsAddUp ==
  ASSUME rank \in [Slice -> Seq(Full)], Partition,
         NEW p \in Nat, NEW q \in Nat, p <= q, q <= MergedPositions,
         NEW lower \in [Slice -> Nat], NEW upper \in [Slice -> Nat],
         \A s \in Slice : lower[s] <= upper[s] /\ upper[s] <= EntryCount(s),
         \A s \in Slice : BoundaryHolds(s, p, lower[s]) /\ BoundaryHolds(s, q, upper[s])
  PROVE  PartSums(lower, upper)[Slice] = q - p
<1> DEFINE Held(s) == {FullIndex(s, l) : l \in lower[s] .. upper[s] - 1}
           Of(T) == UNION {Held(s) : s \in T}
           Wrong == {n \in Nat : \E T \in SUBSET Slice :
                       /\ Cardinality(T) = n
                       /\ ~(IsFiniteSet(Of(T)) /\ PartSums(lower, upper)[T] = Cardinality(Of(T)))}
<1>0. MergedPositions \in Nat /\ \A s \in Slice : /\ EntryCount(s) \in Nat
                                                  /\ \A l \in lower[s] .. upper[s] - 1 : l \in 0 .. EntryCount(s) - 1
                                                  /\ \A l \in 0 .. EntryCount(s) - 1 : FullIndex(s, l) \in Full
  <2>1. MergedPositions \in Nat
    BY MergeAssumption
  <2>2. ASSUME NEW s \in Slice
        PROVE  /\ EntryCount(s) \in Nat
               /\ \A l \in lower[s] .. upper[s] - 1 : l \in 0 .. EntryCount(s) - 1
               /\ \A l \in 0 .. EntryCount(s) - 1 : FullIndex(s, l) \in Full
    <3>1. EntryCount(s) \in Nat /\ \A l \in Nat : l < EntryCount(s) => FullIndex(s, l) \in Full
      BY EntryFacts
    <3>2. \A l \in 0 .. EntryCount(s) - 1 : l \in Nat /\ l < EntryCount(s)
      BY <3>1
    <3>3. lower[s] \in Nat /\ upper[s] \in Nat /\ upper[s] <= EntryCount(s)
      OBVIOUS
    <3>4. \A l \in lower[s] .. upper[s] - 1 : l \in 0 .. EntryCount(s) - 1
      BY <3>1, <3>3
    <3> QED BY <3>1, <3>2, <3>4
  <2> QED BY <2>1, <2>2
<1>1. ASSUME NEW s \in Slice
      PROVE  IsFiniteSet(Held(s)) /\ Cardinality(Held(s)) = upper[s] - lower[s]
  <2> DEFINE S == lower[s] .. upper[s] - 1
             h == [l \in S |-> FullIndex(s, l)]
  <2>1. lower[s] \in Nat /\ upper[s] \in Nat /\ lower[s] <= upper[s]
    OBVIOUS
  <2>2. IsFiniteSet(S) /\ Cardinality(S) = upper[s] - lower[s]
    <3>1. lower[s] \in Int /\ upper[s] - 1 \in Int
      BY <2>1
    <3>2. IsFiniteSet(S) /\ Cardinality(S) = IF lower[s] > upper[s] - 1 THEN 0 ELSE (upper[s] - 1) - lower[s] + 1
      BY <3>1, FS_Interval
    <3>3. (IF lower[s] > upper[s] - 1 THEN 0 ELSE (upper[s] - 1) - lower[s] + 1) = upper[s] - lower[s]
      BY <2>1
    <3> QED BY <3>2, <3>3
  <2>3. h \in Bijection(S, Held(s))
    <3>1. \A k, l \in S : h[k] = h[l] => k = l
      BY <1>0, OneEntryEach
    <3>2. h \in Surjection(S, Held(s))
      BY DEF Surjection
    <3>3. h \in Injection(S, Held(s))
      BY <3>1, <3>2 DEF Injection, IsInjective, Surjection
    <3> QED BY <3>2, <3>3 DEF Bijection
  <2>4. PICK B : B = Held(s)
    OBVIOUS
  <2> HIDE DEF S, h, Held
  <2>5. h \in Bijection(S, B)
    BY <2>3, <2>4
  <2>6. IsFiniteSet(B) /\ Cardinality(B) = Cardinality(S)
    BY <2>2, <2>5, FS_Bijection DEF ExistsBijection
  <2> QED BY <2>2, <2>4, <2>6
<1>2. ASSUME NEW s \in Slice, NEW u \in Slice, s # u PROVE Held(s) \cap Held(u) = {}
  <2> SUFFICES ASSUME NEW k \in lower[s] .. upper[s] - 1, NEW l \in lower[u] .. upper[u] - 1,
                      FullIndex(s, k) = FullIndex(u, l)
               PROVE  FALSE
    OBVIOUS
  <2> QED BY <1>0, <1>2, OneEntryEach
<1>3. ASSUME NEW s \in Slice, NEW i
      PROVE  i \in Held(s) <=> i \in p .. q - 1 /\ \E l \in 0 .. EntryCount(s) - 1 : FullIndex(s, l) = i
  <2>1. lower[s] \in 0 .. EntryCount(s) /\ upper[s] \in 0 .. EntryCount(s)
    BY <1>0
  <2>2. ASSUME NEW l \in 0 .. EntryCount(s) - 1
        PROVE  l \in lower[s] .. upper[s] - 1 <=> FullIndex(s, l) \in p .. q - 1
    <3>1. l < lower[s] <=> FullIndex(s, l) < p
      BY <2>1, BoundarySeparates
    <3>2. l < upper[s] <=> FullIndex(s, l) < q
      BY <2>1, BoundarySeparates
    <3>3. FullIndex(s, l) \in Nat /\ l \in Nat
      <4>1. FullIndex(s, l) \in Full /\ EntryCount(s) \in Nat
        <5>1. EntryCount(s) \in Nat /\ \A k \in Nat : k < EntryCount(s) => FullIndex(s, k) \in Full
          BY EntryFacts
        <5>2. l \in Nat /\ l < EntryCount(s)
          BY ONLY <5>1, l \in 0 .. EntryCount(s) - 1
        <5> QED BY <5>1, <5>2
      <4>2. Full \subseteq Nat
        BY <1>0 DEF Full
      <4> HIDE DEF Of, Held, Wrong
      <4>3. l \in Nat
        BY ONLY <4>1, l \in 0 .. EntryCount(s) - 1
      <4> QED BY ONLY <4>1, <4>2, <4>3
    <3> QED BY <2>1, <3>1, <3>2, <3>3
  <2> QED BY <1>0, <2>2
<1> HIDE DEF Held
<1>4. Wrong = {}
  <2> SUFFICES ASSUME Wrong # {} PROVE FALSE
    OBVIOUS
  <2>1. PICK n \in Wrong : \A y \in Wrong : n <= y
    <3>1. Wrong \in SUBSET Nat
      OBVIOUS
    <3> HIDE DEF Wrong
    <3> QED BY <3>1, LeastNatural
  <2>2. PICK T \in SUBSET Slice : /\ Cardinality(T) = n
                                  /\ ~(IsFiniteSet(Of(T)) /\ PartSums(lower, upper)[T] = Cardinality(Of(T)))
    OBVIOUS
  <2>3. CASE T = {}
    <3>1. Of(T) = {}
      BY <2>3
    <3>2. PartSums(lower, upper)[T] = 0
      BY <2>3, PartSumsFacts
    <3> QED BY <2>2, <3>1, <3>2, FS_EmptySet
  <2>4. CASE T # {}
    <3>1. PICK s : s = PickedSlice(T)
      OBVIOUS
    <3>2. PICK r : r = T \ {s}
      OBVIOUS
    <3>3. s \in T /\ s \in Slice /\ r \in SUBSET Slice /\ Cardinality(r) = n - 1 /\ n \in Nat \ {0}
      BY <2>2, <2>4, <3>1, <3>2, SlicesFacts
    <3>4. n - 1 \notin Wrong /\ n - 1 \in Nat
      <4>1. n - 1 \in Nat /\ ~(n <= n - 1)
        BY <3>3
      <4> HIDE DEF Wrong
      <4> QED BY <2>1, <4>1
    <3>5. IsFiniteSet(Of(r)) /\ PartSums(lower, upper)[r] = Cardinality(Of(r))
      BY <3>3, <3>4
    <3>6. Of(T) = Of(r) \cup Held(s)
      BY <3>2, <3>3
    <3>7. Of(r) \cap Held(s) = {}
      BY <1>2, <3>2, <3>3
    <3>8. IsFiniteSet(Of(T)) /\ Cardinality(Of(T)) = Cardinality(Of(r)) + Cardinality(Held(s))
      <4>1. IsFiniteSet(Held(s))
        BY <1>1, <3>3
      <4> HIDE DEF Of
      <4>2. PICK A, B : A = Of(r) /\ B = Held(s)
        OBVIOUS
      <4>3. IsFiniteSet(A) /\ IsFiniteSet(B) /\ A \cap B = {}
        BY <3>5, <3>7, <4>1, <4>2
      <4>4. IsFiniteSet(A \cup B) /\ Cardinality(A \cup B) = Cardinality(A) + Cardinality(B)
                                                            - Cardinality(A \cap B)
        BY <4>3, FS_Union
      <4>5. Cardinality(A \cap B) = 0 /\ Cardinality(A) \in Nat /\ Cardinality(B) \in Nat
        BY <4>3, FS_EmptySet, FS_CardinalityType
      <4> QED BY <3>6, <4>2, <4>4, <4>5
    <3>9. PartSums(lower, upper)[T] = upper[s] - lower[s] + PartSums(lower, upper)[r]
      BY <2>4, <3>1, <3>2, PartSumsFacts
    <3>10. Cardinality(Of(r)) \in Nat /\ upper[s] - lower[s] \in Int
      BY <3>3, <3>5, FS_CardinalityType
    <3> QED BY <1>1, <2>2, <3>3, <3>5, <3>8, <3>9, <3>10
  <2> QED BY <2>3, <2>4
<1>5. Of(Slice) = p .. q - 1
  <2>1. ASSUME NEW i \in p .. q - 1 PROVE i \in Of(Slice)
    <3>1. i \in Full
      BY <1>0, <2>1 DEF Full
    <3>2. PICK s \in Slice : \E l \in 0 .. EntryCount(s) - 1 : FullIndex(s, l) = i
      BY <3>1, OneEntryEach
    <3>3. i \in Held(s)
      BY <1>3, <3>2
    <3> QED BY <3>3
  <2>2. ASSUME NEW i \in Of(Slice) PROVE i \in p .. q - 1
    BY <1>3
  <2> QED BY <2>1, <2>2
<1>6. PartSums(lower, upper)[Slice] = Cardinality(p .. q - 1)
  <2>1. Slice \in SUBSET Slice /\ Cardinality(Slice) \in Nat
    BY SlicesFacts
  <2>2. PartSums(lower, upper)[Slice] = Cardinality(Of(Slice))
    <3> HIDE DEF Of
    <3> QED BY <1>4, <2>1
  <2> HIDE DEF Of
  <2> QED BY <1>5, <2>2
<1>7. Cardinality(p .. q - 1) = q - p
  <2>1. p \in Int /\ q - 1 \in Int
    OBVIOUS
  <2>2. Cardinality(p .. q - 1) = IF p > q - 1 THEN 0 ELSE (q - 1) - p + 1
    BY <2>1, FS_Interval
  <2>3. (IF p > q - 1 THEN 0 ELSE (q - 1) - p + 1) = q - p
    OBVIOUS
  <2> QED BY <2>2, <2>3
<1> QED BY <1>6, <1>7

-----------------------------------------------------------------------------
(* The merge of right input.                                               *)

(* What a worker has in its heap belongs in its range.                     *)
LEMMA LoadedInRange ==
  ASSUME MergeTypeOK, Partition, NEW w \in Merger, CollectedRight(w), PartRight(w), RightPart(w),
         NEW s \in heap[w]
  PROVE  /\ s \in Slice /\ next[w][s] - 1 \in 0 .. EntryCount(s) - 1
         /\ Loaded(w, s) \in Nat /\ Loaded(w, s) < EndOf(w)
<1>1. s \in Slice /\ heap[w] \in SUBSET Slice /\ rank \in [Slice -> Seq(Full)]
  BY DEF MergeTypeOK
<1>2. /\ from[w][s] \in Nat /\ next[w][s] \in Nat /\ upto[w][s] \in Nat
      /\ from[w][s] < next[w][s] /\ next[w][s] <= upto[w][s] /\ upto[w][s] <= EntryCount(s)
  BY <1>1 DEF MergeTypeOK, CollectedRight, PartRight
<1>3. EntryCount(s) \in Nat /\ \A l \in Nat : l < EntryCount(s) => FullIndex(s, l) \in Full
  BY <1>1, EntryFacts
<1>4. PICK k \in Nat : k = next[w][s] - 1
  BY <1>2
<1>5. k \in 0 .. EntryCount(s) - 1 /\ k < EntryCount(s) /\ k < upto[w][s]
      /\ upto[w][s] \in 0 .. EntryCount(s)
  BY ONLY <1>2, <1>3, <1>4, k \in Nat
<1>6. EndOf(w) \in Nat /\ BoundaryHolds(s, EndOf(w), upto[w][s])
  BY <1>1, MergeRanges DEF RightPart
<1>7. FullIndex(s, k) < EndOf(w)
  BY <1>1, <1>5, <1>6, BoundarySeparates
<1>8. FullIndex(s, k) \in Nat
  BY <1>3, <1>5, MergeAssumption DEF Full
<1> QED BY <1>1, <1>4, <1>5, <1>7, <1>8 DEF Loaded

(* The entry that a worker expects is in its heap, or below something      *)
(* there.                                                                  *)
LEMMA ExpectedIsLoaded ==
  ASSUME MergeTypeOK, Partition, NEW w \in Merger, CollectedRight(w), PartRight(w), RightPart(w),
         expected[w] < EndOf(w)
  PROVE  \E u \in heap[w] : Loaded(w, u) <= expected[w]
<1>0. rank \in [Slice -> Seq(Full)]
  BY DEF MergeTypeOK
<1>1. /\ BeginOf(w) \in Nat /\ EndOf(w) \in Nat /\ EndOf(w) <= MergedPositions
      /\ expected[w] \in Nat /\ BeginOf(w) <= expected[w] /\ expected[w] \in Full
  <2>1. /\ BeginOf(w) \in Nat /\ EndOf(w) \in Nat /\ EndOf(w) <= MergedPositions
        /\ expected[w] \in BeginOf(w) .. EndOf(w) /\ MergedPositions \in Nat
    BY MergeRanges, MergeAssumption DEF CollectedRight
  <2> QED BY <2>1 DEF Full
<1>1a. PICK u \in Slice : \E l \in 0 .. EntryCount(u) - 1 : FullIndex(u, l) = expected[w]
  BY <1>0, <1>1, OneEntryEach
<1>2. PICK l \in 0 .. EntryCount(u) - 1 : FullIndex(u, l) = expected[w]
  BY <1>1a
<1>3. EntryCount(u) \in Nat
  BY <1>0, EntryFacts
<1>4. /\ from[w][u] \in Nat /\ next[w][u] \in Nat /\ upto[w][u] \in Nat
      /\ from[w][u] <= next[w][u] /\ next[w][u] <= upto[w][u] /\ upto[w][u] <= EntryCount(u)
      /\ u \in heap[w] => from[w][u] < next[w][u]
      /\ u \notin heap[w] => next[w][u] = upto[w][u]
  BY DEF MergeTypeOK, CollectedRight, PartRight
<1>5. /\ from[w][u] \in 0 .. EntryCount(u) /\ upto[w][u] \in 0 .. EntryCount(u)
      /\ BoundaryHolds(u, BeginOf(w), from[w][u]) /\ BoundaryHolds(u, EndOf(w), upto[w][u])
  BY <1>3, <1>4 DEF RightPart
<1>6. l \in Nat /\ from[w][u] <= l /\ l < upto[w][u]
  <2>1. l < from[w][u] <=> FullIndex(u, l) < BeginOf(w)
    BY <1>0, <1>1, <1>5, BoundarySeparates
  <2>2. l < upto[w][u] <=> FullIndex(u, l) < EndOf(w)
    BY <1>0, <1>1, <1>5, BoundarySeparates
  <2> QED BY <1>1, <1>2, <1>3, <1>4, <2>1, <2>2
<1>7. l \notin TakenBy(w, u)
  <2> SUFFICES ASSUME l \in TakenBy(w, u) PROVE FALSE
    OBVIOUS
  <2>1. PICK i \in BeginOf(w) .. expected[w] - 1 : Collected(w, i) = <<u, l>>
    BY DEF CollectedRight
  <2>2. LET e == Collected(w, i) IN FullIndex(e[1], e[2]) = i
    BY DEF CollectedRight
  <2>3. FullIndex(u, l) = i
    BY <2>1, <2>2
  <2> QED BY <1>1, <1>2, <2>3
<1>8. u \in heap[w]
  <2> SUFFICES ASSUME u \notin heap[w] PROVE FALSE
    OBVIOUS
  <2>1. TakenBy(w, u) = from[w][u] .. next[w][u] - 1
    BY DEF TakenBy
  <2> QED BY <1>4, <1>6, <1>7, <2>1
<1>9. TakenBy(w, u) = from[w][u] .. next[w][u] - 2
  BY <1>8 DEF TakenBy
<1>10. PICK k \in Nat : k = next[w][u] - 1
  BY <1>4, <1>8
<1>11. k = l \/ k < l
  BY ONLY <1>4, <1>6, <1>7, <1>8, <1>9, <1>10, k \in Nat
<1>12. k \in 0 .. EntryCount(u) - 1
  BY ONLY <1>3, <1>4, <1>10, <1>11, <1>6, k \in Nat
<1>13. FullIndex(u, k) <= expected[w]
  <2>1. CASE k = l
    BY <1>1, <1>2, <2>1
  <2>2. CASE k < l
    <3>1. FullIndex(u, k) < FullIndex(u, l)
      BY <1>0, <1>12, <2>2, IndicesIncrease
    <3>2. FullIndex(u, k) \in Nat
      <4>1. k < EntryCount(u)
        BY <1>3, <1>12
      <4>2. FullIndex(u, k) \in Full
        BY <1>0, <4>1, EntryFacts
      <4> QED BY <4>2, MergeAssumption DEF Full
    <3> QED BY <1>1, <1>2, <3>1, <3>2
  <2> QED BY <1>11, <2>1, <2>2
<1> QED BY <1>8, <1>10, <1>13 DEF Loaded

(* All checks of the coordinator pass.                                     *)
LEMMA DivisionAccepted ==
  ASSUME MergeInv, Partition, mergeStage = "divide", NEW w \in Merger, w = mergeCursor,
         \A v \in Merger : v < w => RightPart(v),
         NEW lower, lower = [s \in Slice |-> SearchResult(s, BeginOf(w))],
         NEW upper, upper = [s \in Slice |-> SearchResult(s, EndOf(w))]
  PROVE  /\ PartsAccepted(w, lower, upper)
         /\ \A s \in Slice : BoundaryHolds(s, BeginOf(w), lower[s]) /\ BoundaryHolds(s, EndOf(w), upper[s])
<1>0. rank \in [Slice -> Seq(Full)] /\ MergeTypeOK
  BY DEF MergeInv, MergeTypeOK
<1>1. BeginOf(w) \in Nat /\ EndOf(w) \in Nat /\ BeginOf(w) <= EndOf(w) /\ EndOf(w) <= MergedPositions
      /\ MergedPositions \in Nat /\ w \in Nat /\ WorkerCount \in Nat
  BY MergeRanges, MergeAssumption DEF Merger
<1>2. ASSUME NEW s \in Slice
      PROVE  /\ EntryCount(s) \in Nat
             /\ lower[s] \in 0 .. EntryCount(s) /\ upper[s] \in 0 .. EntryCount(s)
             /\ BoundaryHolds(s, BeginOf(w), lower[s]) /\ BoundaryHolds(s, EndOf(w), upper[s])
  <2>1. lower[s] = SearchResult(s, BeginOf(w)) /\ upper[s] = SearchResult(s, EndOf(w))
    OBVIOUS
  <2>2. EntryCount(s) \in Nat
    BY <1>0, EntryFacts
  <2> QED BY <1>0, <1>1, <2>1, <2>2, SearchFinds
<1>3. \A s \in Slice : lower[s] <= upper[s]
  BY <1>0, <1>1, <1>2, BoundaryOrder
<1>4. lower \in [Slice -> Nat] /\ upper \in [Slice -> Nat]
  <2>1. lower = [s \in Slice |-> lower[s]] /\ upper = [s \in Slice |-> upper[s]]
    OBVIOUS
  <2> QED BY <1>2, <2>1
<1>5. ASSUME NEW s \in Slice PROVE lower[s] = IF w = 0 THEN 0 ELSE upto[w - 1][s]
  <2>1. EntryCount(s) \in Nat /\ lower[s] \in Nat /\ BoundaryHolds(s, BeginOf(w), lower[s])
        /\ \A l \in Nat : l < EntryCount(s) => FullIndex(s, l) \in Nat
    <3>1. Full \subseteq Nat
      BY <1>1 DEF Full
    <3>2. \A l \in Nat : l < EntryCount(s) => FullIndex(s, l) \in Nat
      BY <1>0, <3>1, EntryFacts
    <3> QED BY <1>2, <3>2
  <2>2. CASE w = 0
    <3>1. BeginOf(w) = 0
      BY <2>2, RangesMeet
    <3> SUFFICES ASSUME lower[s] # 0 PROVE FALSE
      BY <2>2
    <3>2. lower[s] > 0 /\ lower[s] - 1 \in Nat /\ lower[s] - 1 < EntryCount(s)
      BY <1>2, <2>1
    <3>3. FullIndex(s, lower[s] - 1) < 0 /\ FullIndex(s, lower[s] - 1) \in Nat
      BY <2>1, <3>1, <3>2 DEF BoundaryHolds
    <3> QED BY <3>3
  <2>3. CASE w # 0
    <3>1. PICK v \in Nat : v = w - 1
      BY <1>1, <2>3
    <3>2. v \in Merger /\ v < w /\ v + 1 = w /\ w < WorkerCount
      BY <1>1, <3>1 DEF Merger
    <3>3. RightPart(v) /\ EndOf(v) = BeginOf(w)
      BY <3>2, RangesMeet
    <3>4. PartRight(v)
      BY <3>2 DEF MergeInv, PartsInv
    <3>5. upto[v][s] \in 0 .. EntryCount(s) /\ BoundaryHolds(s, BeginOf(w), upto[v][s])
      BY <1>0, <2>1, <3>2, <3>3, <3>4 DEF PartRight, RightPart, MergeTypeOK
    <3>6. lower[s] <= upto[v][s] /\ upto[v][s] <= lower[s]
      BY <1>0, <1>1, <1>2, <3>5, BoundaryOrder
    <3>7. lower[s] = upto[v][s]
      BY <2>1, <3>5, <3>6
    <3> QED BY <2>3, <3>1, <3>7
  <2> QED BY <2>2, <2>3
<1>6. ASSUME NEW s \in Slice, w + 1 = WorkerCount PROVE upper[s] = EntryCount(s)
  <2>1. EndOf(w) = MergedPositions
    BY <1>6, RangesMeet
  <2> SUFFICES ASSUME upper[s] # EntryCount(s) PROVE FALSE
    OBVIOUS
  <2>2. upper[s] \in Nat /\ upper[s] < EntryCount(s)
    BY <1>2
  <2>3. FullIndex(s, upper[s]) >= MergedPositions
    BY <1>2, <2>1, <2>2 DEF BoundaryHolds
  <2>4. FullIndex(s, upper[s]) \in Full
    BY <1>0, <2>2, EntryFacts
  <2> QED BY <1>1, <2>3, <2>4 DEF Full
<1>7. MapThenSumSet(LAMBDA s : upper[s] - lower[s], Slice) = EndOf(w) - BeginOf(w)
  <2>1. \A s \in Slice : lower[s] <= upper[s] /\ upper[s] <= EntryCount(s)
    BY <1>2, <1>3
  <2>2. \A s \in Slice : BoundaryHolds(s, BeginOf(w), lower[s]) /\ BoundaryHolds(s, EndOf(w), upper[s])
    BY <1>2
  <2>3. PartSums(lower, upper)[Slice] = EndOf(w) - BeginOf(w)
    BY <1>0, <1>1, <1>4, <2>1, <2>2, PartsAddUp
  <2> QED BY <2>3 DEF MapThenSumSet, MapThenFoldSet, PartSums, PickedSlice
<1>8. \A s \in Slice : upper[s] >= lower[s]
  BY <1>2, <1>3
<1>9. PartsAccepted(w, lower, upper)
  BY <1>5, <1>6, <1>7, <1>8, Zenon DEF PartsAccepted
<1> QED BY <1>2, <1>9

(* What keeps the facts about a worker.                                    *)
LEMMA RightPartKept ==
  ASSUME NEW w \in Merger, RightPart(w), rank' = rank,
         from'[w] = from[w], upto'[w] = upto[w]
  PROVE  RightPart(w)'
BY DEF RightPart, BoundaryHolds, FullIndex, EntryCount, BeginOf, EndOf, FirstOutputPage

LEMMA LoadedKept ==
  ASSUME NEW w \in Merger, rank' = rank, next'[w] = next[w]
  PROVE  \A s : Loaded(w, s)' = Loaded(w, s)
BY DEF Loaded, FullIndex

(* A worker's step on right input, when it goes well, is on track.         *)
LEMMA OnTrackKept ==
  ASSUME OnTrack, NEW w \in Merger, ~ cancelled',
         UNCHANGED <<rank, mergeStage, mergeCursor, parts>>,
         status'[w] # "failed",
         status'[w] = "merge" => \A s \in heap'[w] : Loaded(w, s)' >= expected'[w],
         \A v \in Merger : v # w =>
             /\ status'[v] = status[v] /\ next'[v] = next[v] /\ heap'[v] = heap[v]
             /\ expected'[v] = expected[v]
  PROVE  OnTrack'
<1>0. Merger' = Merger /\ WorkerCount' = WorkerCount /\ UNCHANGED <<from, upto>>
  BY DEF Merger, WorkerCount, parts
<1>1. ASSUME NEW v \in Merger
      PROVE  /\ status'[v] # "failed"
             /\ mergeStage # "divide" \/ v < mergeCursor => RightPart(v)'
             /\ status'[v] = "merge" => \A s \in heap'[v] : Loaded(v, s)' >= expected'[v]
  <2>1. mergeStage # "divide" \/ v < mergeCursor => RightPart(v)'
    BY <1>0, RightPartKept DEF OnTrack
  <2>2. CASE v = w
    BY <2>1, <2>2
  <2>3. CASE v # w
    <3>1. \A s : Loaded(v, s)' = Loaded(v, s)
      BY <2>3, LoadedKept
    <3> QED BY <2>1, <2>3, <3>1 DEF OnTrack
  <2> QED BY <2>2, <2>3
<1> QED BY <1>0, <1>1 DEF OnTrack

LEMMA RightDivide ==
  ASSUME MergeInv, Partition, OnTrack, Divide PROVE OnTrack'
<1> DEFINE lower == [s \in Slice |-> SearchResult(s, BeginOf(mergeCursor))]
           upper == [s \in Slice |-> SearchResult(s, EndOf(mergeCursor))]
<1>0. /\ MergeTypeOK /\ mergeStage = "divide" /\ rank' = rank
      /\ UNCHANGED <<status, next, heap, expected, cancelled>>
  BY DEF MergeInv, Divide, input, work
<1>1. mergeCursor \in Merger /\ mergeCursor \in Nat
  BY MergeRanges DEF Divide, MergeInv, MergeTypeOK, Merger
<1>2. /\ PartsAccepted(mergeCursor, lower, upper)
      /\ \A s \in Slice : /\ BoundaryHolds(s, BeginOf(mergeCursor), lower[s])
                          /\ BoundaryHolds(s, EndOf(mergeCursor), upper[s])
  <2>1. \A v \in Merger : v < mergeCursor => RightPart(v)
    BY DEF OnTrack
  <2> HIDE DEF lower, upper
  <2>2. lower = [s \in Slice |-> SearchResult(s, BeginOf(mergeCursor))]
        /\ upper = [s \in Slice |-> SearchResult(s, EndOf(mergeCursor))]
    BY DEF lower, upper
  <2> QED BY <1>0, <1>1, <2>1, <2>2, DivisionAccepted
<1> HIDE DEF lower, upper
<1>3. /\ from' = [from EXCEPT ![mergeCursor] = lower]
      /\ upto' = [upto EXCEPT ![mergeCursor] = upper]
      /\ mergeCursor' = mergeCursor + 1 /\ mergeStage' = "divide"
  BY <1>0, <1>2 DEF Divide, lower, upper
<1>4. Merger' = Merger /\ WorkerCount' = WorkerCount
  BY DEF Merger, WorkerCount
<1>5. ASSUME NEW w \in Merger, w < mergeCursor' PROVE RightPart(w)'
  <2>1. CASE w = mergeCursor
    <3>1. from'[w] = lower /\ upto'[w] = upper
      BY <1>0, <1>1, <1>3, <2>1 DEF MergeTypeOK
    <3>2. \A s \in Slice : BoundaryHolds(s, BeginOf(w), from'[w][s]) /\ BoundaryHolds(s, EndOf(w), upto'[w][s])
      BY <1>2, <2>1, <3>1
    <3> QED BY <1>0, <3>2
            DEF RightPart, BoundaryHolds, FullIndex, EntryCount, BeginOf, EndOf, FirstOutputPage
  <2>2. CASE w # mergeCursor
    <3>1. w < mergeCursor
      BY <1>1, <1>3, <1>5, <2>2 DEF Merger
    <3>2. from'[w] = from[w] /\ upto'[w] = upto[w]
      BY <1>0, <1>1, <1>3, <2>2 DEF MergeTypeOK
    <3> QED BY <1>0, <3>1, <3>2, RightPartKept DEF OnTrack
  <2> QED BY <2>1, <2>2
<1>6. \A w \in Merger : status'[w] = "idle"
  BY <1>0 DEF MergeInv, EndedInv
<1> QED BY <1>0, <1>3, <1>4, <1>5, <1>6 DEF OnTrack

LEMMA RightCoordinator ==
  ASSUME MergeInv, ~ faulty, OnTrack,
         Divided \/ StartWorker \/ StartFails \/ Started \/ Join \/ CoordinatorFault
  PROVE  OnTrack'
<1>0. WorkerCount \in Nat /\ mergeCursor \in 0 .. WorkerCount
      /\ \A w : w \in Merger <=> w \in Nat /\ w < WorkerCount
  BY MergeRanges DEF MergeInv, MergeTypeOK, Merger
<1>1. UNCHANGED <<rank, parts, next, heap, expected, cancelled>> /\ UNCHANGED <<from, upto>>
  BY DEF Divided, StartWorker, StartFails, Started, Join, CoordinatorFault, input, work, parts
<1>2. \A w \in Merger : RightPart(w)
  BY <1>0 DEF OnTrack, Divided, StartWorker, StartFails, Started, Join, CoordinatorFault
<1>3. \A w \in Merger : RightPart(w)'
  BY <1>1, <1>2, RightPartKept
<1>4. \A w \in Merger : status'[w] = status[w] \/ status'[w] = "open"
  BY DEF Divided, StartWorker, StartFails, Started, Join, CoordinatorFault, work, MergeInv, MergeTypeOK
<1>5. \A w \in Merger : /\ status'[w] # "failed"
                        /\ status'[w] = "merge" => \A s \in heap'[w] : Loaded(w, s)' >= expected'[w]
  BY <1>1, <1>4, LoadedKept DEF OnTrack
<1>6. /\ mergeStage' # "failed"
      /\ mergeStage' = "join" => mergeCursor' = WorkerCount
  <2>1. CASE Join
    <3>1. mergeCursor = WorkerCount /\ \A w \in Merger : w < mergeCursor
      BY <1>0, <2>1 DEF OnTrack, Join
    <3>2. \A w \in Merger : status[w] = "ok"
      BY <2>1, <3>1 DEF Join, Joined, OnTrack
    <3> QED BY <2>1, <3>1, <3>2 DEF Join
  <2>2. CASE Divided \/ StartWorker \/ Started
    BY <2>2 DEF Divided, StartWorker, Started
  <2>3. CASE StartFails \/ CoordinatorFault
    BY <2>3 DEF StartFails, CoordinatorFault
  <2> QED BY <2>1, <2>2, <2>3
<1>7. Merger' = Merger /\ WorkerCount' = WorkerCount
  BY DEF Merger, WorkerCount
<1>8. ~ cancelled'
  BY <1>1 DEF OnTrack
<1>9. \A w \in Merger : /\ status'[w] # "failed"
                        /\ mergeStage' # "divide" \/ w < mergeCursor' => RightPart(w)'
                        /\ status'[w] = "merge" => \A s \in heap'[w] : Loaded(w, s)' >= expected'[w]
  BY <1>3, <1>5
<1> QED BY ONLY <1>6, <1>7, <1>8, <1>9 DEF OnTrack

LEMMA RightOpen ==
  ASSUME MergeInv, OnTrack, NEW w \in Merger, OpenParts(w) PROVE OnTrack'
<1> DEFINE S == {s \in Slice : from[w][s] # upto[w][s]}
           first == [s \in Slice |-> IF s \in S THEN from[w][s] + 1 ELSE from[w][s]]
<1>0. MergeTypeOK /\ rank \in [Slice -> Seq(Full)]
  BY DEF MergeInv, MergeTypeOK
<1>1. /\ status[w] = "open" /\ heap' = [heap EXCEPT ![w] = S] /\ next' = [next EXCEPT ![w] = first]
      /\ status' = [status EXCEPT ![w] = "merge"]
      /\ UNCHANGED <<rank, mergeStage, mergeCursor, parts, expected, cancelled>>
  BY DEF OpenParts, input
<1>2. mergeStage # "divide" /\ PartRight(w) /\ expected[w] = BeginOf(w)
  BY <1>1 DEF MergeInv, PartsInv, EndedInv, WorkInv
<1>3. RightPart(w) /\ BeginOf(w) \in Nat
  BY <1>2, MergeRanges DEF OnTrack
<1>4. ASSUME NEW s \in S
      PROVE  from[w][s] \in Nat /\ first[s] = from[w][s] + 1 /\ FullIndex(s, from[w][s]) >= BeginOf(w)
  <2>1. from[w][s] \in Nat /\ upto[w][s] \in Nat /\ from[w][s] <= upto[w][s]
        /\ upto[w][s] <= EntryCount(s) /\ from[w][s] # upto[w][s] /\ s \in Slice
    BY <1>0, <1>2 DEF MergeTypeOK, PartRight
  <2>2. EntryCount(s) \in Nat
    BY <1>0, <2>1, EntryFacts
  <2>3. from[w][s] < EntryCount(s)
    BY <2>1, <2>2
  <2> QED BY <1>3, <2>1, <2>3 DEF RightPart, BoundaryHolds
<1> HIDE DEF S, first
<1>5. /\ next'[w] = first /\ heap'[w] = S /\ status'[w] = "merge"
      /\ \A v \in Merger : v # w => /\ status'[v] = status[v] /\ next'[v] = next[v]
                                    /\ heap'[v] = heap[v]
  BY <1>0, <1>1 DEF MergeTypeOK
<1>6. \A s \in heap'[w] : Loaded(w, s)' >= expected'[w]
  <2> SUFFICES ASSUME NEW s \in S PROVE Loaded(w, s)' >= expected'[w]
    BY <1>5
  <2>0. PICK k \in Nat : k = from[w][s]
    BY <1>4
  <2>1. next'[w][s] = k + 1 /\ expected'[w] = BeginOf(w) /\ k + 1 - 1 = k
    BY <1>1, <1>2, <1>4, <1>5, <2>0
  <2>2. Loaded(w, s)' = FullIndex(s, k)
    BY <1>1, <2>1 DEF Loaded, FullIndex
  <2> QED BY <1>4, <2>0, <2>1, <2>2
<1>7. ~ cancelled'
  BY <1>1 DEF OnTrack
<1> QED BY <1>1, <1>5, <1>6, <1>7, OnTrackKept

LEMMA RightLeave ==
  ASSUME MergeInv, Partition, OnTrack, NEW w \in Merger, LeaveLoop(w) PROVE OnTrack'
<1>0. /\ MergeTypeOK /\ status[w] = "merge" /\ heap[w] = {} /\ CollectedRight(w)
      /\ UNCHANGED <<rank, mergeStage, mergeCursor, parts, next, heap, expected>>
  BY DEF MergeInv, WorkInv, LeaveLoop, input, OnTrack
<1>1. PartRight(w) /\ RightPart(w)
  BY <1>0 DEF MergeInv, PartsInv, EndedInv, OnTrack
<1>2. ~(expected[w] < EndOf(w))
  BY <1>0, <1>1, ExpectedIsLoaded
<1>3. Complete(w)
  <2>1. expected[w] \in BeginOf(w) .. EndOf(w) /\ BeginOf(w) \in Nat /\ EndOf(w) \in Nat
    BY <1>0, MergeRanges DEF CollectedRight
  <2> QED BY <1>2, <2>1 DEF Complete
<1>4. status' = [status EXCEPT ![w] = "ok"] /\ UNCHANGED cancelled
  BY <1>3 DEF LeaveLoop
<1>5. status'[w] = "ok" /\ ~ cancelled' /\ \A v \in Merger : v # w => status'[v] = status[v]
  BY <1>0, <1>4 DEF MergeTypeOK, OnTrack
<1> QED BY <1>0, <1>5, OnTrackKept

LEMMA RightEntry ==
  ASSUME MergeInv, Partition, OnTrack, NEW w \in Merger, NEW s \in Slice, MergeEntry(w, s)
  PROVE  OnTrack'
<1>0. /\ MergeTypeOK /\ status[w] = "merge" /\ CollectedRight(w) /\ rank \in [Slice -> Seq(Full)]
      /\ s \in heap[w] /\ \A u \in heap[w] : Loaded(w, s) <= Loaded(w, u)
      /\ UNCHANGED <<rank, mergeStage, mergeCursor, parts>>
  BY DEF MergeInv, MergeTypeOK, WorkInv, MergeEntry, Smallest, input
<1>1. PartRight(w) /\ RightPart(w) /\ \A u \in heap[w] : Loaded(w, u) >= expected[w]
  BY <1>0 DEF MergeInv, PartsInv, EndedInv, OnTrack
<1>2. \A u \in heap[w] : /\ u \in Slice /\ next[w][u] - 1 \in 0 .. EntryCount(u) - 1
                         /\ Loaded(w, u) \in Nat /\ Loaded(w, u) < EndOf(w)
  BY <1>0, <1>1, LoadedInRange
<1>3. expected[w] \in Nat /\ EndOf(w) \in Nat
  BY <1>0, MergeRanges DEF MergeTypeOK
<1>4. expected[w] < EndOf(w)
  BY <1>0, <1>1, <1>2, <1>3
<1>5. Loaded(w, s) = expected[w]
  <2>1. PICK u \in heap[w] : Loaded(w, u) <= expected[w]
    BY <1>0, <1>1, <1>4, ExpectedIsLoaded
  <2> QED BY <1>0, <1>1, <1>2, <1>3, <2>1
<1>6. expected' = [expected EXCEPT ![w] = @ + 1] /\ LoadNext(w, s)
  BY <1>4, <1>5 DEF MergeEntry, Matches
<1>7. expected'[w] = expected[w] + 1 /\ \A v \in Merger : v # w => expected'[v] = expected[v]
  BY <1>0, <1>6 DEF MergeTypeOK
<1>8. ASSUME NEW u \in heap[w], u # s PROVE Loaded(w, u) >= expected[w] + 1
  <2>1. FullIndex(u, next[w][u] - 1) # FullIndex(s, next[w][s] - 1)
    <3>1. PICK k \in 0 .. EntryCount(u) - 1 : k = next[w][u] - 1
      BY <1>2
    <3>2. PICK l \in 0 .. EntryCount(s) - 1 : l = next[w][s] - 1
      BY <1>0, <1>2
    <3>3. FullIndex(u, k) # FullIndex(s, l)
      BY <1>0, <1>2, <1>8, OneEntryEach
    <3> QED BY <3>1, <3>2, <3>3
  <2>2. Loaded(w, u) # expected[w]
    BY <1>5, <2>1 DEF Loaded
  <2> QED BY <1>1, <1>2, <1>3, <2>2
<1>9. /\ from[w][s] \in Nat /\ next[w][s] \in Nat /\ upto[w][s] \in Nat
      /\ next[w][s] <= upto[w][s] /\ upto[w][s] <= EntryCount(s) /\ from[w][s] < next[w][s]
      /\ EntryCount(s) \in Nat
  BY <1>0, <1>1, EntryFacts DEF MergeTypeOK, CollectedRight, PartRight
<1>10. CASE next[w][s] = upto[w][s]
  <2>1. heap' = [heap EXCEPT ![w] = @ \ {s}] /\ UNCHANGED <<next, status, cancelled>>
    BY <1>6, <1>10 DEF LoadNext
  <2>2. heap'[w] = heap[w] \ {s} /\ \A v \in Merger : v # w => heap'[v] = heap[v]
    BY <1>0, <2>1 DEF MergeTypeOK
  <2>3. \A u \in heap'[w] : Loaded(w, u)' >= expected'[w]
    <3>1. \A u : Loaded(w, u)' = Loaded(w, u)
      BY <1>0, <2>1, LoadedKept
    <3> QED BY <1>7, <1>8, <2>2, <3>1
  <2>4. ~ cancelled' /\ status'[w] # "failed"
    BY <1>0, <2>1 DEF OnTrack
  <2> QED BY <1>0, <1>7, <2>1, <2>2, <2>3, <2>4, OnTrackKept
<1>11. CASE next[w][s] # upto[w][s]
  <2>0. PICK k \in Nat : k = next[w][s]
    BY <1>9
  <2>1. k - 1 \in 0 .. EntryCount(s) - 1 /\ k \in 0 .. EntryCount(s) - 1 /\ k - 1 < k /\ k < EntryCount(s)
    BY ONLY <1>9, <1>11, <2>0, k \in Nat
  <2>2. FullIndex(s, k - 1) < FullIndex(s, k) /\ FullIndex(s, k) \in Nat
    <3>1. FullIndex(s, k - 1) < FullIndex(s, k)
      BY <1>0, <2>1, IndicesIncrease
    <3>2. FullIndex(s, k) \in Full
      BY <1>0, <2>1, EntryFacts
    <3> QED BY <3>1, <3>2, MergeAssumption DEF Full
  <2>3. FullIndex(s, k - 1) = expected[w]
    BY <1>5, <2>0 DEF Loaded
  <2>4. FullIndex(s, next[w][s]) > Loaded(w, s)
    BY <1>3, <1>5, <2>0, <2>2, <2>3
  <2>5. next' = [next EXCEPT ![w][s] = @ + 1] /\ UNCHANGED <<heap, status, cancelled>>
    BY <1>6, <1>11, <2>4 DEF LoadNext
  <2>6. /\ next'[w][s] = k + 1 /\ \A u \in Slice : u # s => next'[w][u] = next[w][u]
        /\ \A v \in Merger : v # w => next'[v] = next[v]
    <3>1. next' = [next EXCEPT ![w] = [next[w] EXCEPT ![s] = next[w][s] + 1]]
      BY <2>5
    <3>2. next \in [Merger -> [Slice -> Nat]] /\ next[w] \in [Slice -> Nat]
      BY <1>0 DEF MergeTypeOK
    <3> QED BY <2>0, <3>1, <3>2
  <2>7. ASSUME NEW u \in heap'[w] PROVE Loaded(w, u)' >= expected'[w]
    <3>1. u \in heap[w] /\ u \in Slice
      BY <1>2, <2>5, <2>7
    <3>2. CASE u = s
      <4>1. Loaded(w, s)' = FullIndex(s, k + 1 - 1)
        BY <1>0, <2>6 DEF Loaded, FullIndex
      <4>2. k + 1 - 1 = k
        OBVIOUS
      <4> QED BY <1>3, <1>7, <2>2, <2>3, <3>2, <4>1, <4>2
    <3>3. CASE u # s
      <4>1. Loaded(w, u)' = Loaded(w, u)
        BY <1>0, <2>6, <3>1, <3>3 DEF Loaded, FullIndex
      <4> QED BY <1>7, <1>8, <3>1, <3>3, <4>1
    <3> QED BY <3>2, <3>3
  <2>8. ~ cancelled' /\ status'[w] # "failed"
    BY <1>0, <2>5 DEF OnTrack
  <2> QED BY <1>0, <1>7, <2>5, <2>6, <2>7, <2>8, OnTrackKept
<1> QED BY <1>10, <1>11

LEMMA RightStep ==
  ASSUME MergeInv, RightInv, [MergeNext]_mergeVars PROVE RightInv'
<1>0. rank' = rank /\ faulty' = faulty
  BY DEF MergeNext, Coordinate, Divide, Divided, StartWorker, StartFails, Started, Join,
         CoordinatorFault, WorkerStep, WorkerFault, OpenParts, MergeEntry, LeaveLoop, mergeVars, input
<1>1. Partition' => Partition
  BY <1>0 DEF Partition, Entries, EntryCount, FullIndex, Full
<1> SUFFICES ASSUME Partition, ~ faulty, OnTrack PROVE OnTrack'
  BY <1>0, <1>1 DEF RightInv
<1>2. CASE Divide
  BY <1>2, RightDivide
<1>3. CASE Divided \/ StartWorker \/ StartFails \/ Started \/ Join \/ CoordinatorFault
  BY <1>3, RightCoordinator
<1>4. ASSUME NEW w \in Merger, WorkerStep(w) PROVE OnTrack'
  BY <1>4, RightOpen, RightEntry, RightLeave DEF WorkerStep
<1>5. ASSUME NEW w \in Merger, WorkerFault(w) PROVE OnTrack'
  BY <1>5 DEF WorkerFault
<1>6. CASE UNCHANGED mergeVars
  <2>1. /\ UNCHANGED <<rank, parts, next, heap, expected, status, mergeStage, mergeCursor, cancelled>>
        /\ UNCHANGED <<from, upto>>
    BY <1>6 DEF mergeVars, work, parts, input
  <2>2. \A w \in Merger : /\ RightPart(w) => RightPart(w)'
                          /\ \A s : Loaded(w, s)' = Loaded(w, s)
    BY <2>1, RightPartKept, LoadedKept
  <2>3. Merger' = Merger /\ WorkerCount' = WorkerCount
    BY DEF Merger, WorkerCount
  <2> QED BY <2>1, <2>2, <2>3 DEF OnTrack
<1> QED BY <1>2, <1>3, <1>4, <1>5, <1>6 DEF MergeNext, Coordinate

(* A merge whose files and threads do not fail refuses no slices that      *)
(* restrict the enumeration and together are all of it: every check of the *)
(* coordinator and of the workers passes, however the pages are divided    *)
(* and the workers interleave (compile_slices, merge_worker_main).         *)
THEOREM MergeAccepts == MergeSpec => []RightIsMerged
<1>1. MergeInit => MergeInv /\ RightInv
  <2> SUFFICES ASSUME MergeInit PROVE MergeInv /\ RightInv
    OBVIOUS
  <2>1. \A w \in Merger : w \in Nat
    BY MergeRanges DEF Merger
  <2>2. /\ mergeStage = "divide" /\ mergeCursor = 0 /\ ~ cancelled
        /\ \A w \in Merger : status[w] = "idle"
    BY DEF MergeInit
  <2>3. OnTrack
    BY <2>1, <2>2 DEF OnTrack
  <2> QED BY <2>3, MergeInitially DEF RightInv
<1>2. MergeInv /\ RightInv /\ [MergeNext]_mergeVars => (MergeInv /\ RightInv)'
  BY MergeStep, RightStep
<1>3. MergeInv /\ RightInv => RightIsMerged
  BY DEF RightInv, OnTrack, RightIsMerged
<1> QED BY <1>1, <1>2, <1>3, PTL DEF MergeSpec

=============================================================================
