-------------------------- MODULE PageStoreProofs ---------------------------
(***************************************************************************)
(* Every page of the store is whole, and the store implements the durable  *)
(* table of DurableTable, for every geometry of the file and of the        *)
(* caches, every number of views and page writers, and every sequence of   *)
(* reads, changes, flushes, compilations, compactions, failed writes and   *)
(* crashes.                                                                *)
(*                                                                         *)
(* What holds in every reachable state is StoreInv: who may do what at the *)
(* same time (ActorsInv), that a cache that may be read is no older than   *)
(* the file (CoherenceInv), and that some assignment of the cells to the   *)
(* pages explains every block the directory in memory, the directory of    *)
(* the file or a page being stored has (OwnInv).  The second theorem adds  *)
(* what the history of each page has to do with what the file and the      *)
(* caches hold of it (HistoryInv), and that what page writers have         *)
(* reserved is clear of everything (ExtentsApart).                         *)
(***************************************************************************)
EXTENDS PageStore, FiniteSetTheorems, SequenceTheorems, WellFoundedInduction, TLAPS

--------------------
(* What every reachable state of the store is like: why a page is whole.      *)
Cell == (Contents \cup {Err}) \X Nat
Entry == [at : Nat, len : Nat]
Slot == [page : Pages, content : Values \cup {Err}, dirty : BOOLEAN]
Task == [goal : {"none", "access", "replace", "replaced", "flush", "close", "create", "resize",
                 "writer"},
         step : {"none", "slots", "block", "payload", "length", "directory", "extent"},
         slot : Nat, want : Nat, put : Values \cup {Err}, who : Actors,
         at : Nat, appended : BOOLEAN, next : Nat, size : Nat]

StoreTypeOK ==
  /\ file \in Seq(Cell)
  /\ disk \in [Pages -> Entry] /\ dir \in [Pages -> Entry]
  /\ exact \in BOOLEAN /\ mode \in {"closed", "read", "write"} /\ refs \in Nat
  /\ cap \in Caps
  /\ DOMAIN cache = Actors /\ \A a \in Actors : cache[a] \in [Slots(a) -> Slot]
  /\ view \in [Views -> {"none", "read", "write", "writer"}]
  /\ task \in [Actors -> Task] /\ mutex \in Actors \cup {Nobody}
  /\ compile \in BOOLEAN /\ compileEnd \in Nat
  /\ batch \in [Views -> Seq(Pages \X Contents)] /\ nextPlane \in [Views -> Nat]

PageOf(a) == Stored(a).page
Content(a) == Stored(a).content
Storing(a) == task[a].step \in {"block", "payload", "length"}
Writing == compile /\ ~(NoViews /\ Compiled)

(* What an actor may be in the middle of.                                     *)
TaskRight(a) ==
  LET t == task[a] IN
  /\ t.step = "none" => t = Idle
  /\ t.goal = "none" => t = Idle
  /\ t.goal = "writer" <=> t.step = "extent"
  /\ t.goal \in {"access", "replace", "replaced"} => Storing(a)
  /\ t.step = "directory" => Dirty(a) = {} /\ (a # Main => mutex = a)
  /\ t.step = "payload" /\ t.appended /\ a # Main => mutex = a
  /\ Storing(a) => t.slot \in Dirty(a)
  /\ Storing(a) /\ t.goal \in {"access", "replace"} =>
        t.want \in Pages /\ Owns(a, t.want) /\ SlotOf(a, t.want) = t.slot
  /\ t.goal = "access" => t.want # PageOf(a)
  /\ t.goal = "replace" => t.put \in Values
  /\ t.goal \in {"flush", "create", "resize"} => a = Main
  /\ t.goal \in {"replace", "replaced", "writer"} => a # Main
  /\ t.goal = "create" => /\ ~compile /\ t.who \in Views /\ "write" \in Kinds[t.who]
                          /\ \A o \in Views : Overlaps(t.who, o) => view[o] = "none"
  /\ t.goal = "resize" => NoViews /\ t.size \in Caps
  /\ t.goal = "close" /\ a = Main => NoViews
  /\ t.goal = "close" /\ a # Main => view[a] = "write"

(* Who may do what at the same time.                                          *)
ClosedRight ==
  mode = "closed" =>
    /\ ~compile /\ NoViews /\ dir = NoPages
    /\ \A a \in Actors : task[a] = Idle /\ cache[a] = NoSlots(a)

CompileRight ==
  /\ compile => mode = "write" /\ exact /\ \A v \in Views : view[v] \in {"none", "writer"}
  /\ compile /\ ~NoViews => task[Main] = Idle
  /\ Writing => task[Main].step \in {"none", "slots", "directory"} /\ cache[Main] = NoSlots(Main)

MainRight ==
  /\ task[Main] # Idle => mode = "write" /\ NoWritable
  /\ Dirty(Main) # {} => mode = "write" /\ NoViews

ViewRight(v) ==
  /\ view[v] \in {"none", "writer"} => cache[v] = NoSlots(v)
  /\ view[v] \in {"none", "read"} => task[v] = Idle
  /\ view[v] = "read" => Dirty(v) = {}
  /\ view[v] = "write" => mode = "write" /\ task[v].goal # "writer"
  /\ view[v] = "writer" => compile /\ task[v].goal \in {"none", "writer"}
  /\ batch[v] # <<>> => view[v] = "writer"
  /\ task[v].goal = "writer" => batch[v] # <<>>
  /\ \A i \in DOMAIN batch[v] : Owns(v, batch[v][i][1])
  /\ nextPlane[v] <= Planes(v)

ViewsApart ==
  \A v, o \in Views : v # o /\ Overlaps(v, o) /\ view[v] # "none" /\ view[o] # "none" =>
    view[v] = "read" /\ view[o] = "read"

ActorsInv ==
  /\ \A a \in Actors : TaskRight(a)
  /\ ClosedRight /\ CompileRight /\ MainRight
  /\ \A v \in Views : ViewRight(v)
  /\ ViewsApart

(* The cells that belong to a page, now, at a crash, or when it is stored.    *)
Reach(e) == Max({e.len, Kept})
Inside(f, own, p, at, room) ==
  at # 0 /\ at + room <= Len(f) /\ \A i \in at .. at + room : own[i] = p
EntryInside(own, p, e) == e.at # 0 => Inside(file, own, p, e.at, Reach(e))

PayloadRight(own, a) ==
  LET at == task[a].at  e == dir[PageOf(a)]  c == Content(a) IN
  /\ c # Draw /\ at \in DOMAIN file /\ file[at] = <<c, 0>> /\ own[at] = PageOf(a)
  /\ IF task[a].appended THEN at = Len(file) /\ e.len <= Max({Size[c], Kept})
     ELSE at = e.at /\ Size[c] <= Reach(e)

LengthRight(own, a) ==
  LET e == dir[PageOf(a)]  c == Content(a) IN
  IF c = Draw THEN e.at = 0
  ELSE Inside(file, own, PageOf(a), e.at, Max({Size[c], Kept})) /\ Whole(file, e.at, c)

(* A directory entry is complete unless its length is still to be stored.     *)
Settling(p) == \E a \in Actors : task[a].step = "length" /\ PageOf(a) = p

BatchAt(v, i) == task[v].at + Len(BatchCells(SubSeq(batch[v], 1, i - 1)))
ExtentRight(own, v) ==
  /\ task[v].at # 0 /\ BatchEnd(v) <= compileEnd
  /\ \A i \in DOMAIN batch[v] :
       \A k \in BatchAt(v, i) .. BatchAt(v, i) + Size[batch[v][i][2]] : own[k] = batch[v][i][1]

EntriesInside(own) ==
  \A p \in Pages : EntryInside(own, p, dir[p]) /\ EntryInside(own, p, disk[p])
EntriesComplete == \A p \in Pages : Settling(p) \/ (dir[p].at = 0 <=> dir[p].len = 0)
StoresRight(own) ==
  \A a \in Actors : /\ task[a].step = "payload" => PayloadRight(own, a)
                    /\ task[a].step = "length" => LengthRight(own, a)
ExtentsRight(own) == \A v \in Views : task[v].step = "extent" => ExtentRight(own, v)

OwnInv(own) ==
  /\ EntriesInside(own) /\ EntriesComplete /\ StoresRight(own) /\ ExtentsRight(own)
  /\ Writing => Len(file) <= compileEnd

(* A cache that may be read holds what is stored, unless it is to be stored.  *)
Reads(a) == IF a = Main THEN mode # "closed" /\ NoWritable /\ ~Writing
            ELSE view[a] \in {"read", "write"}
CoherenceInv ==
  \A a \in Actors : \A s \in Slots(a) :
    LET x == cache[a][s] IN
    /\ x.dirty => x.content # Err
    /\ x.content # Err => s = SlotOf(a, x.page) /\ Owns(a, x.page)
    /\ x.content # Err /\ ~x.dirty /\ Reads(a) => x.content = Decode(file, dir[x.page])

(* Some assignment of the cells to the pages explains every block.            *)
StoreInv ==
  /\ StoreTypeOK /\ ActorsInv /\ CoherenceInv
  /\ \E own \in [Nat -> Pages] : OwnInv(own)

(* Every non-empty set of naturals has a least element. *)
LEMMA LeastNatural ==
  ASSUME NEW T \in SUBSET Nat, T # {}
  PROVE  \E x \in T : \A y \in T : x <= y
<1> DEFINE R == {ss \in Nat \X Nat : ss[1] < ss[2]}
<1>1. IsWellFoundedOn(R, Nat)
  BY NatLessThanWellFounded DEF OpToRel
<1>2. PICK x \in T : \A y \in T : ~(<<y, x>> \in R)
  BY <1>1, WFMin
<1>3. ASSUME NEW y \in T PROVE x <= y
  <2>1. <<y, x>> \notin R /\ x \in Nat /\ y \in Nat
    BY <1>2
  <2> QED BY <2>1
<1> QED BY <1>2, <1>3
--------------------
(* Sequences of sequences, end to end.                                     *)

(* A sequence and one more element.                                        *)
LEMMA LongerSeq ==
  ASSUME NEW S, NEW s \in Seq(S), NEW e \in S
  PROVE  /\ Append(s, e) \in Seq(S) /\ Len(Append(s, e)) = Len(s) + 1 /\ Len(s) \in Nat
         /\ \A n \in 1 .. Len(s) : Append(s, e)[n] = s[n] /\ s[n] \in S
         /\ Append(s, e)[Len(s) + 1] = e
         /\ DOMAIN s = 1 .. Len(s)
OBVIOUS

(* g holds what the first sequences are end to end, as FlattenSeq's own    *)
(* recursion does.                                                         *)
Glues(ss, g, n) ==
  /\ DOMAIN g = 1 .. n
  /\ \A k \in 1 .. n : g[k] = IF k = 1 THEN ss[k] ELSE g[k - 1] \o ss[k]

LEMMA GluesExtend ==
  ASSUME NEW R, NEW ss \in Seq(Seq(R)), NEW n \in 1 .. Len(ss), NEW g,
         n > 1 => Glues(ss, g, n - 1)
  PROVE  \E h : Glues(ss, h, n)
<1> DEFINE h == [k \in 1 .. n |-> IF k < n THEN g[k] ELSE IF n = 1 THEN ss[n] ELSE g[n - 1] \o ss[n]]
<1>1. n \in Nat \ {0}
  OBVIOUS
<1>2. ASSUME NEW k \in 1 .. n
      PROVE  h[k] = IF k = 1 THEN ss[k] ELSE h[k - 1] \o ss[k]
  <2>1. CASE k = n
    BY <1>1, <2>1
  <2>2. CASE k < n
    <3>1. k \in 1 .. n - 1 /\ n > 1
      BY <1>1, <2>2
    <3>2. g[k] = IF k = 1 THEN ss[k] ELSE g[k - 1] \o ss[k]
      BY <3>1 DEF Glues
    <3> QED BY <1>1, <2>2, <3>2
  <2> QED BY <1>1, <2>1, <2>2
<1> HIDE DEF h
<1>3. DOMAIN h = 1 .. n
  BY DEF h
<1>4. Glues(ss, h, n)
  BY <1>2, <1>3 DEF Glues
<1> QED BY <1>4

(* The recursion of FlattenSeq has a solution, so that it is unfolded.     *)
LEMMA FlattenGlues ==
  ASSUME NEW R, NEW ss \in Seq(Seq(R)), Len(ss) # 0
  PROVE  \E g : Glues(ss, g, Len(ss)) /\ FlattenSeq(ss) = g[Len(ss)]
<1> DEFINE Without == {n \in 1 .. Len(ss) : ~\E g : Glues(ss, g, n)}
<1>1. Len(ss) \in Nat \ {0}
  OBVIOUS
<1>2. Without = {}
  <2> SUFFICES ASSUME Without # {} PROVE FALSE
    OBVIOUS
  <2>1. PICK m \in Without : \A y \in Without : m <= y
    <3>1. Without \in SUBSET Nat
      BY <1>1
    <3> HIDE DEF Without
    <3> QED BY <3>1, LeastNatural
  <2>2. m \in 1 .. Len(ss)
    OBVIOUS
  <2>3. m > 1 => \E g : Glues(ss, g, m - 1)
    <3> SUFFICES ASSUME m > 1, ~\E g : Glues(ss, g, m - 1) PROVE FALSE
      OBVIOUS
    <3>1. m - 1 \in 1 .. Len(ss)
      BY <1>1, <2>2
    <3>2. m - 1 \in Without
      BY <3>1
    <3> HIDE DEF Without
    <3>3. m <= m - 1
      BY <2>1, <3>2
    <3> QED BY <1>1, <2>2, <3>3
  <2>4. \E h : Glues(ss, h, m)
    BY <2>2, <2>3, GluesExtend
  <2> QED BY <2>1, <2>4
<1>3. PICK g : Glues(ss, g, Len(ss))
  <2>1. Len(ss) \in 1 .. Len(ss)
    BY <1>1
  <2> QED BY <1>2, <2>1
<1> DEFINE h == CHOOSE f : f = [i \in 1 .. Len(ss) |-> IF i = 1 THEN ss[i] ELSE f[i - 1] \o ss[i]]
<1>4. PICK e : e = [i \in 1 .. Len(ss) |-> g[i]]
  OBVIOUS
<1>5. e = [i \in 1 .. Len(ss) |-> IF i = 1 THEN ss[i] ELSE e[i - 1] \o ss[i]]
  <2>1. \A i \in 1 .. Len(ss) : i # 1 => i - 1 \in 1 .. Len(ss)
    BY <1>1
  <2> QED BY <1>3, <1>4, <2>1 DEF Glues
<1>6. h = [i \in 1 .. Len(ss) |-> IF i = 1 THEN ss[i] ELSE h[i - 1] \o ss[i]]
  BY <1>5
<1>7. FlattenSeq(ss) = h[Len(ss)]
  BY <1>1 DEF FlattenSeq
<1> HIDE DEF h
<1>8. Glues(ss, h, Len(ss))
  BY <1>6 DEF Glues
<1> QED BY <1>7, <1>8

LEMMA FlattenEmpty == FlattenSeq(<< >>) = << >>
<1>1. Len(<< >>) = 0
  OBVIOUS
<1> QED BY <1>1 DEF FlattenSeq

(* The last sequence comes last.                                           *)
LEMMA FlattenAppend ==
  ASSUME NEW R, NEW ss \in Seq(Seq(R)), NEW s \in Seq(R)
  PROVE  FlattenSeq(Append(ss, s)) = FlattenSeq(ss) \o s
<1> DEFINE L == Len(ss)
           tt == Append(ss, s)
<1>1. /\ tt \in Seq(Seq(R)) /\ Len(tt) = L + 1 /\ L \in Nat
      /\ (\A n \in 1 .. L : tt[n] = ss[n]) /\ tt[L + 1] = s
  BY LongerSeq
<1> HIDE DEF tt
<1>2. PICK h : Glues(tt, h, L + 1) /\ FlattenSeq(tt) = h[L + 1]
  BY <1>1, FlattenGlues
<1>3. CASE L = 0
  <2>1. ss = << >> /\ << >> \o s = s
    BY <1>3
  <2>2. h[1] = tt[1]
    BY <1>1, <1>2, <1>3 DEF Glues
  <2> QED BY <1>1, <1>2, <1>3, <2>1, <2>2, FlattenEmpty DEF tt
<1>4. CASE L # 0
  <2>1. PICK g : Glues(ss, g, L) /\ FlattenSeq(ss) = g[L]
    BY <1>4, FlattenGlues
  <2> DEFINE Wrong == {k \in 1 .. L : h[k] # g[k]}
  <2>2. Wrong = {}
    <3> SUFFICES ASSUME Wrong # {} PROVE FALSE
      OBVIOUS
    <3>1. PICK m \in Wrong : \A y \in Wrong : m <= y
      <4>1. Wrong \in SUBSET Nat
        BY <1>1
      <4> HIDE DEF Wrong
      <4> QED BY <4>1, LeastNatural
    <3>2. m \in 1 .. L /\ h[m] # g[m]
      OBVIOUS
    <3>3. m # 1 => m - 1 \in 1 .. L /\ h[m - 1] = g[m - 1]
      <4> SUFFICES ASSUME m # 1, h[m - 1] # g[m - 1] PROVE FALSE
        BY <1>1, <3>2
      <4>1. m - 1 \in Wrong
        BY <1>1, <3>2
      <4> HIDE DEF Wrong
      <4>2. m <= m - 1
        BY <3>1, <4>1
      <4> QED BY <1>1, <3>2, <4>2
    <3>4. m \in 1 .. L + 1 /\ tt[m] = ss[m]
      BY <1>1, <3>2
    <3>5. /\ h[m] = IF m = 1 THEN tt[1] ELSE h[m - 1] \o tt[m]
          /\ g[m] = IF m = 1 THEN ss[1] ELSE g[m - 1] \o ss[m]
      BY <1>2, <2>1, <3>2, <3>4 DEF Glues
    <3>6. CASE m = 1
      BY ONLY <3>2, <3>4, <3>5, <3>6
    <3>7. CASE m # 1
      BY ONLY <3>2, <3>3, <3>4, <3>5, <3>7
    <3> QED BY <3>6, <3>7
  <2>3. L \in 1 .. L /\ L + 1 \in 1 .. L + 1 /\ L + 1 # 1 /\ L + 1 - 1 = L
    BY <1>1, <1>4
  <2>4. h[L + 1] = h[L] \o tt[L + 1]
    <3>1. \A k \in 1 .. L + 1 : h[k] = IF k = 1 THEN tt[k] ELSE h[k - 1] \o tt[k]
      BY <1>2 DEF Glues
    <3>2. PICK k : k = L + 1
      OBVIOUS
    <3>3. k \in 1 .. L + 1 /\ k # 1 /\ k - 1 = L
      BY <2>3, <3>2
    <3>4. h[k] = h[k - 1] \o tt[k]
      BY <3>1, <3>3
    <3> QED BY <3>2, <3>3, <3>4
  <2>5. h[L] = g[L]
    BY <2>2, <2>3
  <2> QED BY <1>1, <1>2, <2>1, <2>4, <2>5 DEF tt
<1> QED BY <1>3, <1>4

LEMMA EmptyOrAppend ==
  ASSUME NEW S, NEW s \in Seq(S), s # << >>
  PROVE  \E t \in Seq(S), e \in S : s = Append(t, e) /\ Len(s) = Len(t) + 1 /\ Len(t) \in Nat
BY SequenceEmptyOrAppend, LongerSeq

LEMMA FlattenType ==
  ASSUME NEW R
  PROVE  \A ss \in Seq(Seq(R)) : FlattenSeq(ss) \in Seq(R)
<1> DEFINE Wrong == {n \in Nat : \E ss \in Seq(Seq(R)) : Len(ss) = n /\ FlattenSeq(ss) \notin Seq(R)}
<1>1. Wrong = {}
  <2> SUFFICES ASSUME Wrong # {} PROVE FALSE
    OBVIOUS
  <2>1. PICK m \in Wrong : \A y \in Wrong : m <= y
    <3>1. Wrong \in SUBSET Nat
      OBVIOUS
    <3> HIDE DEF Wrong
    <3> QED BY <3>1, LeastNatural
  <2>2. PICK ss \in Seq(Seq(R)) : Len(ss) = m /\ FlattenSeq(ss) \notin Seq(R)
    OBVIOUS
  <2>3. ss # << >>
    BY <2>2, FlattenEmpty
  <2>4. PICK t \in Seq(Seq(R)), s \in Seq(R) : ss = Append(t, s) /\ m = Len(t) + 1 /\ Len(t) \in Nat
    BY <2>2, <2>3, EmptyOrAppend
  <2>5. Len(t) \notin Wrong
    <3> HIDE DEF Wrong
    <3> QED BY <2>1, <2>4
  <2>6. FlattenSeq(t) \in Seq(R)
    BY <2>4, <2>5
  <2>7. FlattenSeq(ss) = FlattenSeq(t) \o s
    BY <2>4, FlattenAppend
  <2> QED BY <2>2, <2>6, <2>7, ConcatProperties
<1> QED BY <1>1

--------------------
(* Numbers.                                                                *)
LEMMA MaxPair ==
  ASSUME NEW a \in Nat, NEW b \in Nat
  PROVE  /\ Max({a, b}) \in Nat /\ Max({a, b}) >= a /\ Max({a, b}) >= b
         /\ Max({a, b}) \in {a, b}
         /\ a >= b => Max({a, b}) = a
         /\ b >= a => Max({a, b}) = b
<1>1. \E x \in {a, b} : \A y \in {a, b} : x >= y
  <2>1. CASE a >= b
    BY <2>1
  <2>2. CASE ~(a >= b)
    BY <2>2
  <2> QED BY <2>1, <2>2
<1>2. Max({a, b}) \in {a, b} /\ \A y \in {a, b} : Max({a, b}) >= y
  BY <1>1 DEF Max
<1> QED BY <1>2

LEMMA MinPair ==
  ASSUME NEW a \in Nat, NEW b \in Nat
  PROVE  Min({a, b}) \in {a, b} /\ Min({a, b}) <= a /\ Min({a, b}) <= b
<1>1. \E x \in {a, b} : \A y \in {a, b} : x <= y
  <2>1. CASE a <= b
    BY <2>1
  <2>2. CASE ~(a <= b)
    BY <2>2
  <2> QED BY <2>1, <2>2
<1> QED BY <1>1 DEF Min

LEMMA LeastFacts ==
  ASSUME NEW T \in SUBSET Nat, T # {}
  PROVE  Min(T) \in T
<1>1. \E x \in T : \A y \in T : x <= y
  BY LeastNatural
<1> QED BY <1>1 DEF Min

LEMMA MostFacts ==
  ASSUME StoreConstants
  PROVE  Max(Caps) \in Caps /\ Max(Caps) \in Nat \ {0} /\ \A c \in Caps : c <= Max(Caps)
<1>1. \E x \in Caps : \A y \in Caps : x >= y
  BY DEF StoreConstants
<1>2. Max(Caps) \in Caps /\ \A y \in Caps : Max(Caps) >= y
  BY <1>1 DEF Max
<1> QED BY <1>2 DEF StoreConstants

LEMMA DivFacts ==
  ASSUME NEW a \in Nat, NEW b \in Nat \ {0}
  PROVE  /\ a \div b \in Nat /\ a % b \in 0 .. b - 1
         /\ a = (a \div b) * b + (a % b)
OBVIOUS

--------------------
(* Pages, planes and slots.                                                *)
LEMMA PlaneFacts ==
  ASSUME StoreConstants, NEW p \in Pages
  PROVE  /\ p \in Nat /\ Logical(p) \in Nat /\ Logical(p) < PerSide
         /\ SideOf(p) \in Nat /\ SideOf(p) < Sides
<1>1. PerSide \in Nat \ {0} /\ Sides \in {1, 2}
  BY DEF StoreConstants
<1>2. p \in Nat /\ p < Sides * PerSide
  BY <1>1 DEF Pages
<1>3. PICK d \in Nat : d = p \div PerSide
  BY <1>1, <1>2, DivFacts
<1>4. p % PerSide \in 0 .. PerSide - 1 /\ p = d * PerSide + (p % PerSide)
  BY <1>1, <1>2, <1>3, DivFacts
<1>5. d < Sides
  <2>1. CASE Sides = 1
    <3>1. p < PerSide
      BY ONLY <1>1, <1>2, <2>1
    <3>2. d >= 1 => d * PerSide >= PerSide
      BY ONLY <1>1, d \in Nat
    <3>3. d * PerSide \in Nat
      BY ONLY <1>1, d \in Nat
    <3> QED BY ONLY <1>1, <1>2, <1>4, <2>1, <3>1, <3>2, <3>3, d \in Nat
  <2>2. CASE Sides = 2
    <3>1. p < 2 * PerSide
      BY ONLY <1>1, <1>2, <2>2
    <3>2. d >= 2 => d * PerSide >= 2 * PerSide
      BY ONLY <1>1, d \in Nat
    <3>3. d * PerSide \in Nat
      BY ONLY <1>1, d \in Nat
    <3> QED BY ONLY <1>1, <1>2, <1>4, <2>2, <3>1, <3>2, <3>3, d \in Nat
  <2> QED BY <1>1, <2>1, <2>2
<1> QED BY <1>1, <1>2, <1>3, <1>4, <1>5 DEF Logical, SideOf

(* A row of slots for each side. *)
LEMMA RowFacts ==
  ASSUME NEW side \in Nat, NEW sides \in {1, 2}, side < sides,
         NEW width \in Nat \ {0}, NEW most \in Nat, width <= most, NEW k \in Nat, k < width
  PROVE  side * width + k \in 0 .. sides * most - 1
<1>1. CASE sides = 1
  BY <1>1
<1>2. CASE sides = 2
  <2>1. CASE side = 0
    BY <1>2, <2>1
  <2>2. CASE side = 1
    BY <1>2, <2>2
  <2> QED BY <1>2, <2>1, <2>2
<1> QED BY <1>1, <1>2

LEMMA SlotFacts ==
  ASSUME StoreConstants, cap \in Caps, NEW a \in Actors, NEW p \in Pages, Owns(a, p)
  PROVE  SlotOf(a, p) \in Slots(a)
<1>1. SideOf(p) \in Nat /\ SideOf(p) < Sides /\ Logical(p) \in Nat /\ Sides \in {1, 2}
  BY PlaneFacts DEF StoreConstants
<1>2. CASE a = Main
  <2>1. cap \in Nat \ {0} /\ cap <= Max(Caps) /\ Max(Caps) \in Nat
    BY MostFacts DEF StoreConstants
  <2>2. PICK k \in Nat : k = Logical(p) % cap /\ k < cap
    BY <1>1, <2>1, DivFacts
  <2>3. SideOf(p) * cap + k \in 0 .. Sides * Max(Caps) - 1
    BY <1>1, <2>1, <2>2, RowFacts
  <2> QED BY <1>2, <2>2, <2>3 DEF SlotOf, HandleSlot, Slots
<1>3. CASE a # Main
  <2>1. a \in Views /\ ViewCap \in Nat \ {0} /\ First[a] \in Nat /\ End[a] \in Nat /\ First[a] < End[a]
    BY <1>3 DEF Actors, StoreConstants
  <2>2. Logical(p) \in First[a] .. End[a] - 1
    BY <1>3 DEF Owns
  <2>3. PICK k : k = IF ViewCap = End[a] - First[a] THEN Logical(p) - First[a] ELSE Logical(p) % ViewCap
    OBVIOUS
  <2>4. k \in Nat /\ k < ViewCap
    <3>1. CASE ViewCap = End[a] - First[a]
      BY <2>1, <2>2, <2>3, <3>1
    <3>2. CASE ViewCap # End[a] - First[a]
      <4>1. Logical(p) % ViewCap \in 0 .. ViewCap - 1
        BY <1>1, <2>1, DivFacts
      <4> QED BY <2>1, <2>3, <3>2, <4>1
    <3> QED BY <3>1, <3>2
  <2>5. SideOf(p) * ViewCap + k \in 0 .. Sides * ViewCap - 1
    BY <1>1, <2>1, <2>4, RowFacts
  <2> QED BY <1>3, <2>3, <2>5 DEF SlotOf, ViewSlot, Slots
<1> QED BY <1>2, <1>3

LEMMA NoSlotsFacts ==
  ASSUME StoreConstants, NEW a
  PROVE  /\ Empty \in Slot /\ NoSlots(a) \in [Slots(a) -> Slot]
         /\ \A s \in Slots(a) : NoSlots(a)[s] = Empty
         /\ 0 \in Pages /\ Idle \in Task /\ NoPages \in [Pages -> Entry]
         /\ Empty.content = Err /\ Empty.dirty = FALSE
<1>1. 0 \in Pages
  <2>1. Sides * PerSide \in Nat \ {0}
    <3>1. PerSide \in Nat \ {0} /\ (Sides = 1 \/ Sides = 2)
      BY DEF StoreConstants
    <3>2. CASE Sides = 1
      BY <3>1, <3>2
    <3>3. CASE Sides = 2
      BY <3>1, <3>3
    <3> QED BY <3>1, <3>2, <3>3
  <2> QED BY <2>1 DEF Pages
<1>2. Empty \in Slot
  BY <1>1 DEF Empty, Slot
<1>3. Idle \in Task
  BY DEF Idle, Task, Actors
<1>4. NoPages \in [Pages -> Entry]
  BY DEF NoPages, NoBlock, Entry
<1> QED BY <1>1, <1>2, <1>3, <1>4 DEF NoSlots, Empty

LEMMA KeptFacts == ASSUME StoreConstants PROVE Kept \in Nat
BY DEF StoreConstants, Kept

--------------------
(* Cells, blocks and what is read of them.                                 *)
LEMMA WriteFacts ==
  ASSUME NEW f \in Seq(Cell), NEW at \in Nat \ {0}, NEW cells \in Seq(Cell)
  PROVE  /\ Write(f, at, cells) \in Seq(Cell)
         /\ Len(Write(f, at, cells)) = Max({Len(f), at + Len(cells) - 1})
         /\ Len(Write(f, at, cells)) >= Len(f) /\ Len(Write(f, at, cells)) >= at + Len(cells) - 1
         /\ at + Len(cells) - 1 <= Len(f) => Len(Write(f, at, cells)) = Len(f)
         /\ \A i \in 1 .. Len(f) :
              i < at \/ i > at + Len(cells) - 1 => Write(f, at, cells)[i] = f[i]
         /\ \A k \in 1 .. Len(cells) : Write(f, at, cells)[at + k - 1] = cells[k]
<1>1. /\ Len(f) \in Nat /\ DOMAIN f = 1 .. Len(f) /\ Len(cells) \in Nat
      /\ DOMAIN cells = 1 .. Len(cells) /\ Hole \in Cell
  BY DEF Hole, Cell
<1>2. PICK L \in Nat, m \in Nat : L = Len(f) /\ m = Len(cells)
  BY <1>1
<1>3. PICK last \in Nat : last = at + m - 1
  BY <1>2
<1>4. PICK n : n = Max({L, last})
  OBVIOUS
<1>5. n \in Nat /\ n >= L /\ n >= last /\ (last <= L => n = L)
  BY <1>2, <1>3, <1>4, MaxPair
<1>6. PICK w : w = Write(f, at, cells)
  OBVIOUS
<1>7. w = [i \in 1 .. n |-> IF i \in at .. last THEN cells[i - at + 1]
                            ELSE IF i \in 1 .. L THEN f[i] ELSE Hole]
  BY <1>1, <1>2, <1>3, <1>4, <1>6 DEF Write
<1>8. \A i \in 1 .. n : w[i] \in Cell
  <2> SUFFICES ASSUME NEW i \in 1 .. n PROVE w[i] \in Cell
    OBVIOUS
  <2>1. CASE i \in at .. last
    <3>1. i - at + 1 \in 1 .. m
      BY ONLY <1>3, <1>5, <2>1, i \in 1 .. n, at \in Nat \ {0}, m \in Nat
    <3>2. cells[i - at + 1] \in Cell
      BY <1>2, <3>1
    <3> QED BY <1>7, <2>1, <3>2
  <2>2. CASE i \notin at .. last
    <3>1. i \in 1 .. L => f[i] \in Cell
      BY <1>2
    <3> QED BY <1>1, <1>7, <2>2, <3>1
  <2> QED BY <2>1, <2>2
<1>9. w \in Seq(Cell) /\ Len(w) = n
  BY <1>5, <1>7, <1>8
<1>10. ASSUME NEW k \in 1 .. m
       PROVE  w[at + k - 1] = cells[k]
  <2>1. at + k - 1 \in 1 .. n /\ at + k - 1 \in at .. last /\ (at + k - 1) - at + 1 = k
    BY ONLY <1>3, <1>5, k \in 1 .. m, at \in Nat \ {0}, m \in Nat, L \in Nat
  <2> QED BY <1>7, <2>1
<1>11. ASSUME NEW i \in 1 .. L, i < at \/ i > last
       PROVE  w[i] = f[i]
  <2>1. i \in 1 .. n /\ i \notin at .. last
    BY ONLY <1>5, <1>11, L \in Nat, last \in Nat, at \in Nat \ {0}
  <2> QED BY <1>7, <2>1
<1> QED BY <1>2, <1>3, <1>4, <1>5, <1>6, <1>9, <1>10, <1>11

LEMMA WriteCells ==
  ASSUME NEW f \in Seq(Cell), NEW at \in Nat \ {0}, NEW cells \in Seq(Cell)
  PROVE  \A k \in 1 .. Len(cells) : Write(f, at, cells)[at + k - 1] = cells[k]
BY WriteFacts

LEMMA WriteKeeps ==
  ASSUME NEW f \in Seq(Cell), NEW at \in Nat \ {0}, NEW cells \in Seq(Cell)
  PROVE  \A i \in 1 .. Len(f) : i < at \/ i > at + Len(cells) - 1 => Write(f, at, cells)[i] = f[i]
BY WriteFacts

LEMMA PaddedFacts ==
  ASSUME StoreConstants, NEW c \in Contents, NEW room \in Nat
  PROVE  /\ Padded(c, room) \in Seq(Cell) /\ Len(Padded(c, room)) = room
         /\ \A k \in 1 .. room : k <= Size[c] => Padded(c, room)[k] = <<c, k>>
         /\ \A k \in 1 .. room : Padded(c, room)[k][1] \in {c, Err}
<1>1. \A k \in 1 .. room : (IF k <= Size[c] THEN <<c, k>> ELSE Hole) \in Cell
  BY DEF Cell, Hole
<1>2. \A k \in 1 .. room : Padded(c, room)[k][1] \in {c, Err}
  BY DEF Padded, Hole
<1> QED BY <1>1, <1>2 DEF Padded

LEMMA HeaderFacts ==
  ASSUME NEW c \in Contents
  PROVE  /\ << <<c, 0>> >> \in Seq(Cell) /\ Len(<< <<c, 0>> >>) = 1
         /\ << <<c, 0>> >>[1] = <<c, 0>>
<1>1. PICK x \in Cell : x = <<c, 0>>
  BY DEF Cell
<1>2. <<x>> \in Seq(Cell) /\ Len(<<x>>) = 1 /\ <<x>>[1] = x
  OBVIOUS
<1> QED BY <1>1, <1>2

LEMMA BlockFacts ==
  ASSUME StoreConstants, NEW c \in Values, NEW kept \in Nat
  PROVE  /\ Block(c, kept) \in Seq(Cell)
         /\ c = Draw => Len(Block(c, kept)) = 0
         /\ c # Draw => Len(Block(c, kept)) = 1 + Max({Size[c], kept})
<1>1. CASE c = Draw
  BY <1>1 DEF Block
<1>2. CASE c # Draw
  <2>1. c \in Contents /\ Size[c] \in Nat
    BY <1>2 DEF Values, StoreConstants
  <2>2. PICK room \in Nat : room = Max({Size[c], kept})
    BY <2>1, MaxPair
  <2>3. PICK x \in Seq(Cell) : x = Padded(c, room) /\ Len(x) = room
    BY <2>1, <2>2, PaddedFacts
  <2>4. PICK y \in Seq(Cell) : y = << <<c, 0>> >> /\ Len(y) = 1
    BY <2>1, HeaderFacts
  <2>5. y \o x \in Seq(Cell) /\ Len(y \o x) = 1 + room
    BY <2>2, <2>3, <2>4
  <2> QED BY <1>2, <2>2, <2>3, <2>4, <2>5 DEF Block
<1> QED BY <1>1, <1>2

LEMMA DecodeType ==
  ASSUME NEW f, NEW e
  PROVE  Decode(f, e) \in Values \cup {Err}
<1> DEFINE fits == {c \in Contents : Size[c] = e.len /\ Whole(f, e.at, c)}
<1>1. fits # {} => (CHOOSE c \in fits : TRUE) \in Contents
  OBVIOUS
<1>2. Decode(f, e) = IF e.at = 0 THEN Draw ELSE IF fits = {} THEN Err ELSE CHOOSE c \in fits : TRUE
  BY DEF Decode
<1> HIDE DEF fits
<1> QED BY <1>1, <1>2 DEF Values

(* A block that is whole is read as what was stored in it. *)
LEMMA DecodeWhole ==
  ASSUME StoreConstants, NEW f, NEW e \in Entry, NEW c \in Contents,
         e.at # 0, Size[c] = e.len, Whole(f, e.at, c)
  PROVE  Decode(f, e) = c
<1> DEFINE fits == {x \in Contents : Size[x] = e.len /\ Whole(f, e.at, x)}
<1>1. \A x \in fits : x = c
  <2> SUFFICES ASSUME NEW x \in fits PROVE x = c
    OBVIOUS
  <2>1. x \in Contents /\ Whole(f, e.at, x) /\ Size[x] \in Nat /\ Size[c] \in Nat
    BY DEF StoreConstants
  <2>2. 0 \in 0 .. Size[x] /\ 0 \in 0 .. Size[c] /\ e.at + 0 = e.at
    BY <2>1 DEF Entry
  <2>3. f[e.at] = <<x, 0>> /\ f[e.at] = <<c, 0>>
    BY <2>1, <2>2 DEF Whole
  <2> QED BY <2>3
<1>2. c \in fits
  OBVIOUS
<1>3. Decode(f, e) = IF fits = {} THEN Err ELSE CHOOSE x \in fits : TRUE
  BY DEF Decode
<1> HIDE DEF fits
<1> QED BY <1>1, <1>2, <1>3

(* What is read of an entry depends on the cells of its page alone. *)
LEMMA DecodeSame ==
  ASSUME StoreConstants, NEW f \in Seq(Cell), NEW g \in Seq(Cell), NEW e \in Entry,
         NEW reach \in Nat, e.len <= reach,
         e.at # 0 => /\ e.at + reach <= Len(f) /\ Len(f) <= Len(g)
                     /\ \A i \in e.at .. e.at + reach : g[i] = f[i]
  PROVE  Decode(g, e) = Decode(f, e)
<1>1. CASE e.at = 0
  BY <1>1 DEF Decode
<1>2. CASE e.at # 0
  <2>1. ASSUME NEW c \in Contents, Size[c] = e.len
        PROVE  Whole(g, e.at, c) <=> Whole(f, e.at, c)
    <3>1. e.at \in Nat \ {0} /\ e.len \in Nat /\ Len(f) \in Nat /\ Len(g) \in Nat
          /\ DOMAIN f = 1 .. Len(f) /\ DOMAIN g = 1 .. Len(g)
      BY <1>2 DEF Entry
    <3>2. \A k \in 0 .. Size[c] : /\ e.at + k \in e.at .. e.at + reach
                                  /\ e.at + k \in DOMAIN f /\ e.at + k \in DOMAIN g
      BY <1>2, <2>1, <3>1
    <3>3. \A k \in 0 .. Size[c] : g[e.at + k] = f[e.at + k]
      BY <1>2, <3>2
    <3> QED BY <3>2, <3>3 DEF Whole
  <2> DEFINE F(h) == {c \in Contents : Size[c] = e.len /\ Whole(h, e.at, c)}
  <2>2. F(f) = F(g)
    BY <2>1
  <2>3. \A h : Decode(h, e) = IF F(h) = {} THEN Err ELSE CHOOSE c \in F(h) : TRUE
    BY <1>2 DEF Decode
  <2> HIDE DEF F
  <2> QED BY <2>2, <2>3
<1> QED BY <1>1, <1>2

--------------------
(* Who stores a page, and who else may hold it.                            *)
LEMMA DirtyFacts ==
  ASSUME StoreConstants, StoreTypeOK, ActorsInv, CoherenceInv, NEW a \in Actors, NEW s \in Dirty(a)
  PROVE  /\ s \in Slots(a) /\ cache[a][s] \in Slot /\ cache[a][s].dirty = TRUE
         /\ cache[a][s].content \in Values /\ cache[a][s].page \in Pages
         /\ Owns(a, cache[a][s].page) /\ s = SlotOf(a, cache[a][s].page)
         /\ mode = "write"
         /\ a = Main => NoViews
         /\ a # Main => a \in Views /\ view[a] = "write"
<1>1. s \in Slots(a) /\ cache[a] \in [Slots(a) -> Slot] /\ cache[a][s].dirty
  BY DEF Dirty, StoreTypeOK
<1>2. cache[a][s] \in Slot
  BY <1>1
<1>3. cache[a][s].dirty = TRUE /\ cache[a][s].page \in Pages /\ cache[a][s].content \in Values \cup {Err}
  BY <1>1, <1>2 DEF Slot
<1>4. cache[a][s].content # Err
  BY <1>1 DEF CoherenceInv
<1>5. Owns(a, cache[a][s].page) /\ s = SlotOf(a, cache[a][s].page)
  BY <1>1, <1>4 DEF CoherenceInv
<1>6. CASE a = Main
  BY <1>1, <1>2, <1>3, <1>4, <1>5, <1>6 DEF ActorsInv, MainRight
<1>7. CASE a # Main
  <2>1. a \in Views
    BY <1>7 DEF Actors
  <2>2. view[a] \in {"none", "read", "write", "writer"} /\ ViewRight(a)
    BY <2>1 DEF StoreTypeOK, ActorsInv
  <2>3. view[a] \notin {"none", "writer"}
    <3>1. NoSlots(a)[s].dirty = FALSE
      BY <1>1, NoSlotsFacts
    <3> QED BY <1>1, <2>2, <3>1 DEF ViewRight
  <2>4. view[a] = "write" /\ mode = "write"
    BY <2>2, <2>3 DEF ViewRight
  <2> QED BY <1>1, <1>2, <1>3, <1>4, <1>5, <1>7, <2>1, <2>4
<1> QED BY <1>6, <1>7

(* Two actors that own a page overlap. *)
LEMMA OwnersOverlap ==
  ASSUME StoreConstants, NEW v \in Views, NEW o \in Views, NEW p \in Pages, Owns(v, p), Owns(o, p)
  PROVE  Overlaps(v, o)
<1>1. v # Main /\ o # Main /\ Logical(p) \in Nat
  BY PlaneFacts DEF StoreConstants
<1>2. /\ First[v] \in Nat /\ End[v] \in Nat /\ First[o] \in Nat /\ End[o] \in Nat
      /\ Logical(p) \in First[v] .. End[v] - 1 /\ Logical(p) \in First[o] .. End[o] - 1
  BY <1>1 DEF StoreConstants, Owns
<1> QED BY <1>1, <1>2 DEF Overlaps

(* What one actor is to write, no other reads. *)
LEMMA SoleHolder ==
  ASSUME StoreConstants, StoreTypeOK, ActorsInv, CoherenceInv,
         NEW a \in Actors, NEW s \in Dirty(a), NEW b \in Actors, NEW t \in Slots(b), b # a,
         cache[b][t].content # Err, cache[b][t].page = cache[a][s].page,
         Reads(b) \/ cache[b][t].dirty
  PROVE  FALSE
<1>1. /\ cache[a][s].page \in Pages /\ Owns(a, cache[a][s].page)
      /\ (a = Main => NoViews) /\ (a # Main => a \in Views /\ view[a] = "write")
  BY DirtyFacts
<1>2. Owns(b, cache[a][s].page)
  BY DEF CoherenceInv
<1>3. ASSUME b # Main
      PROVE  b \in Views /\ view[b] # "none"
  <2>1. b \in Views
    BY <1>3 DEF Actors
  <2>2. ViewRight(b)
    BY <2>1 DEF ActorsInv
  <2>3. NoSlots(b)[t].content = Err
    BY NoSlotsFacts
  <2>4. view[b] # "none"
    BY <2>2, <2>3 DEF ViewRight
  <2> QED BY <2>1, <2>4
<1>4. CASE a = Main
  BY <1>1, <1>3, <1>4 DEF NoViews
<1>5. CASE b = Main
  <2>1. ~NoWritable /\ ~NoViews
    BY <1>1, <1>5 DEF NoWritable, NoViews
  <2>2. t \in Dirty(Main)
    BY <1>5, <2>1 DEF Reads, Dirty
  <2> QED BY <2>1, <2>2 DEF ActorsInv, MainRight
<1>6. CASE a # Main /\ b # Main
  <2>1. Overlaps(a, b)
    BY <1>1, <1>2, <1>3, <1>6, OwnersOverlap
  <2>2. view[a] = "read"
    BY <1>1, <1>3, <1>6, <2>1 DEF ActorsInv, ViewsApart
  <2> QED BY <1>1, <1>6, <2>2
<1> QED BY <1>4, <1>5, <1>6

LEMMA StoringFacts ==
  ASSUME StoreConstants, StoreTypeOK, ActorsInv, CoherenceInv, NEW a \in Actors, Storing(a)
  PROVE  /\ task[a] \in Task /\ task[a].slot \in Dirty(a) /\ task[a].slot \in Slots(a)
         /\ Stored(a) \in Slot /\ Stored(a).dirty = TRUE /\ Content(a) \in Values
         /\ PageOf(a) \in Pages /\ Owns(a, PageOf(a)) /\ task[a].slot = SlotOf(a, PageOf(a))
         /\ mode = "write" /\ ~Writing /\ Reads(a)
         /\ a = Main => NoViews
         /\ a # Main => /\ a \in Views /\ view[a] = "write" /\ ~compile
                        /\ task[Main] = Idle /\ Dirty(Main) = {}
         /\ \A v \in Views : task[v].step # "extent" /\ view[v] # "writer"
<1>1. task[a].slot \in Dirty(a) /\ task[a] \in Task
  BY DEF ActorsInv, TaskRight, StoreTypeOK
<1>2. /\ task[a].slot \in Slots(a) /\ Stored(a) \in Slot /\ Stored(a).dirty = TRUE
      /\ Content(a) \in Values /\ PageOf(a) \in Pages /\ Owns(a, PageOf(a))
      /\ task[a].slot = SlotOf(a, PageOf(a)) /\ mode = "write"
      /\ (a = Main => NoViews) /\ (a # Main => a \in Views /\ view[a] = "write")
  BY <1>1, DirtyFacts DEF Stored, Content, PageOf
<1>3. a # Main => ~compile /\ task[Main] = Idle /\ Dirty(Main) = {}
  <2> SUFFICES ASSUME a # Main PROVE ~compile /\ task[Main] = Idle /\ Dirty(Main) = {}
    OBVIOUS
  <2>1. ~NoWritable /\ ~NoViews /\ view[a] \notin {"none", "writer"} /\ a \in Views
    BY <1>2 DEF NoWritable, NoViews
  <2> QED BY <2>1 DEF ActorsInv, MainRight, CompileRight
<1>4. ~Writing
  <2>1. CASE a = Main
    <3>1. Main \in Actors
      BY DEF Actors
    <3>2. \A s \in Slots(Main) : NoSlots(Main)[s].dirty = FALSE
      BY NoSlotsFacts
    <3> QED BY <1>1, <1>2, <2>1, <3>2 DEF ActorsInv, CompileRight, Dirty
  <2> QED BY <1>3, <2>1 DEF Writing
<1>5. ASSUME NEW v \in Views PROVE view[v] # "writer"
  <2>1. CASE a = Main
    BY <1>2, <2>1 DEF NoViews
  <2>2. CASE a # Main
    BY <1>3, <2>2 DEF ActorsInv, ViewRight
  <2> QED BY <2>1, <2>2
<1>6. ASSUME NEW v \in Views PROVE task[v].step # "extent"
  <2>1. v \in Actors
    BY DEF Actors
  <2>2. TaskRight(v) /\ ViewRight(v)
    BY <2>1 DEF ActorsInv
  <2> QED BY <1>5, <2>2 DEF TaskRight, ViewRight
<1>7. Reads(a)
  BY <1>2, <1>4 DEF Reads, NoViews, NoWritable
<1> QED BY <1>1, <1>2, <1>3, <1>4, <1>5, <1>6, <1>7

(* No two actors store the same page at the same time. *)
LEMMA StoringApart ==
  ASSUME StoreConstants, StoreTypeOK, ActorsInv, CoherenceInv,
         NEW a \in Actors, NEW b \in Actors, a # b, Storing(a), Storing(b)
  PROVE  PageOf(a) # PageOf(b) /\ a # Main /\ b # Main
<1>1. /\ task[a].slot \in Dirty(a) /\ task[b].slot \in Dirty(b) /\ task[b].slot \in Slots(b)
      /\ Stored(b).dirty = TRUE /\ Content(b) \in Values
      /\ (a # Main => task[Main] = Idle) /\ (b # Main => task[Main] = Idle)
  BY StoringFacts
<1>2. Content(b) # Err
  BY <1>1 DEF Values, StoreConstants, Draw, Err
<1>3. ~Storing(a) \/ a # Main
  BY <1>1 DEF Idle, Storing
<1>4. ~Storing(b) \/ b # Main
  BY <1>1 DEF Idle, Storing
<1>5. PageOf(a) # PageOf(b)
  <2> SUFFICES ASSUME PageOf(a) = PageOf(b) PROVE FALSE
    OBVIOUS
  <2> QED BY <1>1, <1>2, SoleHolder DEF PageOf, Stored, Content
<1> QED BY <1>3, <1>4, <1>5

--------------------
(* What a step of one actor leaves to the others.                          *)
LEMMA TaskFrame ==
  ASSUME NEW b \in Actors, TaskRight(b), task'[b] = task[b], cache'[b] = cache[b],
         mutex = b => mutex' = b, Storing(b) => cap' = cap,
         task[b].goal = "create" => /\ compile' = compile
                                    /\ \A o \in Views : view[o] = "none" => view'[o] = "none",
         b = Main /\ task[b].goal \in {"resize", "close"} => (NoViews => NoViews'),
         b # Main => view'[b] = view[b]
  PROVE  TaskRight(b)'
<1>1. Dirty(b)' = Dirty(b)
  BY DEF Dirty, Slots
<1>2. Storing(b)' = Storing(b)
  BY DEF Storing
<1>3. Storing(b) => \A p : SlotOf(b, p)' = SlotOf(b, p)
  BY DEF SlotOf, HandleSlot, ViewSlot
<1>4. (\A p : Owns(b, p)' = Owns(b, p)) /\ PageOf(b)' = PageOf(b)
  BY DEF Owns, PageOf, Stored
<1>5. ASSUME NEW o PROVE Overlaps(task[b].who, o)' = Overlaps(task[b].who, o)
  BY DEF Overlaps
<1> QED
  <2> DEFINE t == task[b]
  <2>1. /\ t.step = "none" => t = Idle
        /\ t.goal = "none" => t = Idle
        /\ t.goal = "writer" <=> t.step = "extent"
        /\ t.goal \in {"access", "replace", "replaced"} => Storing(b)
        /\ t.step = "directory" => Dirty(b) = {} /\ (b # Main => mutex = b)
        /\ t.step = "payload" /\ t.appended /\ b # Main => mutex = b
        /\ Storing(b) => t.slot \in Dirty(b)
        /\ Storing(b) /\ t.goal \in {"access", "replace"} =>
              t.want \in Pages /\ Owns(b, t.want) /\ SlotOf(b, t.want) = t.slot
        /\ t.goal = "access" => t.want # PageOf(b)
        /\ t.goal = "replace" => t.put \in Values
        /\ t.goal \in {"flush", "create", "resize"} => b = Main
        /\ t.goal \in {"replace", "replaced", "writer"} => b # Main
    BY DEF TaskRight
  <2>2. /\ t.goal = "create" => /\ ~compile /\ t.who \in Views /\ "write" \in Kinds[t.who]
                                /\ \A o \in Views : Overlaps(t.who, o) => view[o] = "none"
        /\ t.goal = "resize" => NoViews /\ t.size \in Caps
        /\ t.goal = "close" /\ b = Main => NoViews
        /\ t.goal = "close" /\ b # Main => view[b] = "write"
    BY DEF TaskRight
  <2>3. /\ t.goal = "create" => /\ ~compile' /\ t.who \in Views /\ "write" \in Kinds[t.who]
                                /\ \A o \in Views : Overlaps(t.who, o) => view'[o] = "none"
        /\ t.goal = "resize" => NoViews' /\ t.size \in Caps
        /\ t.goal = "close" /\ b = Main => NoViews'
        /\ t.goal = "close" /\ b # Main => view'[b] = "write"
    <3>1. t.goal = "create" => /\ ~compile' /\ t.who \in Views /\ "write" \in Kinds[t.who]
                               /\ \A o \in Views : Overlaps(t.who, o) => view'[o] = "none"
      BY <2>2
    <3>2. t.goal = "resize" => NoViews' /\ t.size \in Caps
      <4> SUFFICES ASSUME t.goal = "resize" PROVE NoViews' /\ t.size \in Caps
        OBVIOUS
      <4> QED BY <2>1, <2>2
    <3>3. t.goal = "close" /\ b = Main => NoViews'
      BY <2>2
    <3> QED BY <2>2, <3>1, <3>2, <3>3
  <2> HIDE DEF t
  <2>4. t = task[b] /\ t = task'[b]
    BY DEF t
  <2> QED BY <1>1, <1>2, <1>3, <1>4, <1>5, <2>1, <2>3, <2>4 DEF TaskRight

LEMMA ViewFrame ==
  ASSUME NEW v \in Views, ViewRight(v), task'[v] = task[v], cache'[v] = cache[v],
         view'[v] = view[v], batch'[v] = batch[v], nextPlane'[v] = nextPlane[v],
         mode' = mode, compile' = compile
  PROVE  ViewRight(v)'
<1>1. Dirty(v)' = Dirty(v)
  BY DEF Dirty, Slots
<1> QED BY <1>1 DEF ViewRight, Owns, Planes, NoSlots

(* What the handle and a view may do in a step of their own. *)
MainMay ==
  /\ task'[Main] # Idle => mode = "write" /\ NoWritable
  /\ Dirty(Main)' # {} => mode = "write" /\ NoViews
  /\ compile /\ ~NoViews => task'[Main] = Idle
  /\ Writing => task'[Main].step \in {"none", "slots", "directory"} /\ cache'[Main] = NoSlots(Main)
ViewMay(a) == /\ view[a] \in {"read", "write"} /\ task'[a].goal # "writer"
              /\ view[a] = "read" => task'[a] = Idle /\ Dirty(a)' = {}

(* A step of one actor in what it does with its own cache. *)
LEMMA ActorStep ==
  ASSUME StoreConstants, StoreTypeOK, ActorsInv, NEW a \in Actors,
         UNCHANGED <<exact, mode, cap, view, compile, batch, nextPlane>>, mode # "closed",
         \A b \in Actors \ {a} : /\ task'[b] = task[b] /\ cache'[b] = cache[b]
                                 /\ mutex = b => mutex' = b,
         TaskRight(a)',
         a = Main => MainMay,
         a # Main => ViewMay(a)
  PROVE  ActorsInv'
<1>1. ASSUME NEW b \in Actors PROVE TaskRight(b)'
  <2>1. CASE b = a
    BY <2>1
  <2>2. CASE b # a
    <3>1. task'[b] = task[b] /\ cache'[b] = cache[b] /\ (mutex = b => mutex' = b) /\ TaskRight(b)
      BY <2>2 DEF ActorsInv
    <3>2. NoViews' = NoViews
      BY DEF NoViews
    <3> QED BY <3>1, <3>2, TaskFrame
  <2> QED BY <2>1, <2>2
<1>2. ASSUME NEW v \in Views PROVE ViewRight(v)'
  <2>1. v \in Actors /\ v # Main /\ ViewRight(v)
    BY DEF Actors, ActorsInv, StoreConstants
  <2>2. CASE v # a
    <3>1. task'[v] = task[v] /\ cache'[v] = cache[v]
      BY <2>1, <2>2
    <3> QED BY <2>1, <3>1, ViewFrame
  <2>3. CASE v = a
    <3>1. view[v] \in {"read", "write"} /\ task'[v].goal # "writer"
          /\ (view[v] = "read" => task'[v] = Idle /\ Dirty(v)' = {})
      BY <2>1, <2>3 DEF ViewMay
    <3>2. batch[v] = <<>>
      BY <2>1, <3>1 DEF ViewRight
    <3>3. \A i \in DOMAIN batch'[v] : Owns(v, batch'[v][i][1])
      BY <2>1 DEF ViewRight
    <3>4. /\ view[v] = "read" \/ view[v] = "write"
          /\ (view[v] = "write" => mode = "write") /\ nextPlane[v] <= Planes(v)
      BY <2>1, <3>1 DEF ViewRight
    <3>5. \A i \in DOMAIN batch[v]' : Owns(v, batch[v][i][1])'
      BY <3>3 DEF Owns
    <3> QED BY <3>1, <3>2, <3>4, <3>5 DEF ViewRight, Planes
  <2> QED BY <2>2, <2>3
<1>3. NoViews' = NoViews /\ NoWritable' = NoWritable /\ Compiled' = Compiled
  BY DEF NoViews, NoWritable, Compiled, Owns, Planes
<1>4. Writing' = Writing
  BY <1>3 DEF Writing
<1>5. ASSUME a # Main
      PROVE  task'[Main] = task[Main] /\ cache'[Main] = cache[Main] /\ Dirty(Main)' = Dirty(Main)
  <2>1. Main \in Actors \ {a}
    BY <1>5 DEF Actors
  <2> QED BY <2>1 DEF Dirty, Slots
<1>6. MainRight'
  BY <1>3, <1>5 DEF ActorsInv, MainRight, MainMay
<1>7. CompileRight'
  <2>1. NoSlots(Main)' = NoSlots(Main)
    BY DEF NoSlots, Slots
  <2> QED BY <1>3, <1>4, <1>5, <2>1 DEF ActorsInv, CompileRight, MainMay
<1>8. ClosedRight'
  BY DEF ClosedRight
<1>9. ViewsApart'
  BY DEF ActorsInv, ViewsApart, Overlaps
<1> QED BY ONLY <1>1, <1>2, <1>6, <1>7, <1>8, <1>9 DEF ActorsInv

--------------------
(* What a write leaves of the other pages.                                 *)

(* g has what f has of every page but p, and may be longer. *)
WritesOnly(f, g, own, own2, p) ==
  /\ Len(f) <= Len(g)
  /\ \A i \in 1 .. Len(f) : own2[i] = own[i] /\ (own[i] # p => g[i] = f[i])

(* What a page being stored changes of the file: its own block is rewritten  *)
(* with its content, or cells of it are appended.                            *)
Stores(f, g, c, at) ==
  /\ \A i \in 1 .. Len(f) : g[i] = f[i] \/ \E k \in 0 .. Size[c] : i = at + k /\ g[i] = <<c, k>>
  /\ \A i \in 1 .. Len(g) : i > Len(f) => g[i][1] \in {c, Err}
StoresOwn(a) ==
  \E own \in [Nat -> Pages], own2 \in [Nat -> Pages] :
    /\ OwnInv(own) /\ WritesOnly(file, file', own, own2, PageOf(a))
    /\ Stores(file, file', Content(a), dir[PageOf(a)].at)

SameCells(f, g, at, room) == \A i \in at .. at + room : g[i] = f[i]

LEMMA InsideFrame ==
  ASSUME NEW f \in Seq(Cell), NEW g \in Seq(Cell), NEW own, NEW own2, NEW p, NEW q,
         NEW at \in Nat, NEW room \in Nat, WritesOnly(f, g, own, own2, p), Inside(f, own, q, at, room)
  PROVE  /\ Inside(g, own2, q, at, room) /\ at + room <= Len(f)
         /\ q # p => SameCells(f, g, at, room)
<1>1. Len(f) \in Nat /\ Len(g) \in Nat /\ Len(f) <= Len(g) /\ at # 0 /\ at + room <= Len(f)
      /\ \A i \in at .. at + room : own[i] = q
  BY DEF WritesOnly, Inside
<1>2. \A i \in at .. at + room : i \in 1 .. Len(f)
  BY <1>1
<1>3. \A i \in at .. at + room : own2[i] = own[i] /\ (own[i] # p => g[i] = f[i])
  BY ONLY <1>2, WritesOnly(f, g, own, own2, p) DEF WritesOnly
<1> QED BY <1>1, <1>3 DEF Inside, SameCells

LEMMA WholeFrame ==
  ASSUME StoreConstants, NEW f \in Seq(Cell), NEW g \in Seq(Cell), NEW at \in Nat, NEW room \in Nat,
         NEW c \in Contents, Size[c] <= room, at # 0, at + room <= Len(f), Len(f) <= Len(g),
         \A i \in at .. at + room : g[i] = f[i], Whole(f, at, c)
  PROVE  Whole(g, at, c)
<1>1. /\ Size[c] \in Nat /\ DOMAIN f = 1 .. Len(f) /\ DOMAIN g = 1 .. Len(g)
      /\ Len(f) \in Nat /\ Len(g) \in Nat
  BY DEF StoreConstants
<1>2. ASSUME NEW k \in 0 .. Size[c]
      PROVE  at + k \in DOMAIN g /\ g[at + k] = <<c, k>>
  <2>1. at + k \in at .. at + room /\ at + k \in DOMAIN f /\ at + k \in DOMAIN g
    BY <1>1
  <2>2. f[at + k] = <<c, k>>
    BY DEF Whole
  <2> QED BY <2>1, <2>2
<1> QED BY <1>2 DEF Whole

LEMMA ReachFacts ==
  ASSUME StoreConstants, NEW e \in Entry
  PROVE  Reach(e) \in Nat /\ e.len <= Reach(e) /\ Kept <= Reach(e) /\ e.at \in Nat /\ e.len \in Nat
<1>1. e.len \in Nat /\ e.at \in Nat /\ Kept \in Nat
  BY KeptFacts DEF Entry
<1> QED BY <1>1, MaxPair DEF Reach

(* An entry stays inside the cells of its page, and is read as before unless *)
(* it is the page written.                                                   *)
LEMMA EntryFrame ==
  ASSUME StoreConstants, NEW own, NEW own2, NEW p, NEW q, NEW e \in Entry, exact' = exact,
         file \in Seq(Cell), file' \in Seq(Cell), WritesOnly(file, file', own, own2, p),
         EntryInside(own, q, e)
  PROVE  /\ e.at # 0 => Inside(file', own2, q, e.at, Reach(e)) /\ e.at + Reach(e) <= Len(file)
         /\ q # p => Decode(file', e) = Decode(file, e)
<1>1. Reach(e) \in Nat /\ e.len <= Reach(e) /\ e.at \in Nat
  BY ReachFacts
<1>2. Len(file) <= Len(file')
  BY DEF WritesOnly
<1>3. CASE e.at = 0
  BY <1>3 DEF Decode
<1>4. CASE e.at # 0
  <2>1. Inside(file, own, q, e.at, Reach(e))
    BY <1>4 DEF EntryInside
  <2>2. /\ Inside(file', own2, q, e.at, Reach(e)) /\ e.at + Reach(e) <= Len(file)
        /\ q # p => SameCells(file, file', e.at, Reach(e))
    BY <1>1, <2>1, InsideFrame
  <2>3. q # p => Decode(file', e) = Decode(file, e)
    BY <1>1, <1>2, <2>2, DecodeSame DEF SameCells
  <2> QED BY <2>2, <2>3
<1> QED BY <1>3, <1>4

(* What another actor has begun to store is not disturbed. *)
LEMMA StoreFrame ==
  ASSUME StoreConstants, StoreTypeOK, ActorsInv, CoherenceInv, NEW own, NEW own2, NEW p,
         NEW b \in Actors, PageOf(b) # p, Storing(b),
         task'[b] = task[b], cache'[b] = cache[b], exact' = exact,
         file' \in Seq(Cell), WritesOnly(file, file', own, own2, p),
         dir'[PageOf(b)] = dir[PageOf(b)],
         task[b].step = "payload" /\ task[b].appended => Len(file') = Len(file)
  PROVE  /\ task[b].step = "payload" /\ PayloadRight(own, b) => PayloadRight(own2, b)'
         /\ task[b].step = "length" /\ LengthRight(own, b) => LengthRight(own2, b)'
<1>1. /\ task[b] \in Task /\ PageOf(b) \in Pages /\ Content(b) \in Values
      /\ file \in Seq(Cell) /\ dir[PageOf(b)] \in Entry
  BY StoringFacts DEF StoreTypeOK
<1>2. PICK q \in Pages, c \in Values : q = PageOf(b) /\ c = Content(b) /\ q # p
  BY <1>1
<1>3. q = PageOf(b)' /\ c = Content(b)'
  BY <1>2 DEF PageOf, Content, Stored
<1>4. PICK e \in Entry : e = dir[q] /\ e = dir'[q]
  BY <1>1, <1>2
<1>5. Kept' = Kept /\ Reach(e)' = Reach(e) /\ Kept \in Nat
  BY KeptFacts DEF Kept, Reach
<1>6. PICK at : at = task[b].at /\ at = task'[b].at
  OBVIOUS
<1>7. Len(file) <= Len(file') /\ Len(file) \in Nat /\ Len(file') \in Nat
      /\ DOMAIN file = 1 .. Len(file) /\ DOMAIN file' = 1 .. Len(file')
  BY <1>1 DEF WritesOnly
<1>8. ASSUME task[b].step = "payload", PayloadRight(own, b)
      PROVE  PayloadRight(own2, b)'
  <2>1. /\ c # Draw /\ at \in DOMAIN file /\ file[at] = <<c, 0>> /\ own[at] = q
        /\ IF task[b].appended THEN at = Len(file) /\ e.len <= Max({Size[c], Kept})
           ELSE at = e.at /\ Size[c] <= Reach(e)
    BY <1>2, <1>4, <1>6, <1>8 DEF PayloadRight
  <2>2. own2[at] = q /\ file'[at] = <<c, 0>> /\ at \in DOMAIN file'
    <3>1. at \in 1 .. Len(file)
      BY <1>7, <2>1
    <3>2. own2[at] = own[at] /\ (own[at] # p => file'[at] = file[at])
      BY <3>1 DEF WritesOnly
    <3>3. at \in 1 .. Len(file')
      BY ONLY <1>7, <3>1
    <3> QED BY <1>2, <1>7, <2>1, <3>2, <3>3
  <2>3. IF task'[b].appended THEN at = Len(file') /\ e.len <= Max({Size[c], Kept})
        ELSE at = e.at /\ Size[c] <= Reach(e)
    BY <1>8, <2>1
  <2>4. IF task'[b].appended THEN at = Len(file') /\ e.len <= Max({Size[c], Kept'})
        ELSE at = e.at /\ Size[c] <= Reach(e)'
    BY <1>5, <2>3
  <2> QED BY <1>3, <1>4, <1>6, <2>1, <2>2, <2>4 DEF PayloadRight
<1>9. ASSUME task[b].step = "length", LengthRight(own, b)
      PROVE  LengthRight(own2, b)'
  <2>1. CASE c = Draw
    BY <1>2, <1>3, <1>4, <1>9, <2>1 DEF LengthRight
  <2>2. CASE c # Draw
    <3>1. c \in Contents /\ Size[c] \in Nat
      BY <2>2 DEF Values, StoreConstants
    <3>2. PICK room \in Nat : room = Max({Size[c], Kept}) /\ Size[c] <= room
      BY <1>5, <3>1, MaxPair
    <3>3. Inside(file, own, q, e.at, room) /\ Whole(file, e.at, c)
      BY <1>2, <1>4, <1>9, <2>2, <3>2 DEF LengthRight
    <3>4. e.at \in Nat /\ e.at # 0
      BY <3>3 DEF Entry, Inside
    <3>5. Inside(file', own2, q, e.at, room) /\ e.at + room <= Len(file)
          /\ SameCells(file, file', e.at, room)
      BY <1>1, <1>2, <3>2, <3>3, <3>4, InsideFrame
    <3>6. Whole(file', e.at, c)
      BY <1>1, <1>7, <3>1, <3>2, <3>3, <3>4, <3>5, WholeFrame DEF SameCells
    <3>7. Inside(file', own2, q, e.at, Max({Size[c], Kept'}))
      BY <1>5, <3>2, <3>5
    <3> QED BY <1>3, <1>4, <2>2, <3>6, <3>7 DEF LengthRight
  <2> QED BY <2>1, <2>2
<1> QED BY <1>8, <1>9

(* A step of an actor that stores a page. *)
LEMMA OwnStep ==
  ASSUME StoreConstants, StoreTypeOK, ActorsInv, CoherenceInv, NEW own, OwnInv(own), NEW own2,
         NEW a \in Actors, Storing(a), NEW p, p = PageOf(a),
         UNCHANGED <<disk, exact, view, compile, compileEnd, nextPlane, batch>>,
         file' \in Seq(Cell), WritesOnly(file, file', own, own2, p),
         dir' \in [Pages -> Entry], \A q \in Pages \ {p} : dir'[q] = dir[q],
         dir'[p].at # 0 => Inside(file', own2, p, dir'[p].at, Reach(dir'[p])),
         \A b \in Actors \ {a} :
           /\ task'[b] = task[b] /\ cache'[b] = cache[b]
           /\ task[b].step = "payload" /\ task[b].appended => Len(file') = Len(file),
         task'[a].step # "extent",
         task'[a].step = "payload" => PayloadRight(own2, a)',
         task'[a].step = "length" => LengthRight(own2, a)',
         \/ task'[a].step = "length" /\ PageOf(a)' = p
         \/ dir'[p].at = 0 <=> dir'[p].len = 0
  PROVE  OwnInv(own2)'
<1>1. /\ PageOf(a) \in Pages /\ ~Writing /\ \A v \in Views : task[v].step # "extent"
      /\ file \in Seq(Cell) /\ dir \in [Pages -> Entry] /\ disk \in [Pages -> Entry]
  BY StoringFacts DEF StoreTypeOK
<1>2. \A e : Reach(e)' = Reach(e)
  BY DEF Reach, Kept
<1>3. ASSUME NEW b \in Actors, b # a, Storing(b)
      PROVE  PageOf(b) # p /\ PageOf(b) \in Pages
  BY <1>3, StoringApart, StoringFacts
<1>4. EntriesInside(own2)'
  <2> SUFFICES ASSUME NEW q \in Pages
               PROVE  /\ dir'[q].at # 0 => Inside(file', own2, q, dir'[q].at, Reach(dir'[q]))
                      /\ disk[q].at # 0 => Inside(file', own2, q, disk[q].at, Reach(disk[q]))
    BY <1>2 DEF EntriesInside, EntryInside
  <2>1. EntryInside(own, q, dir[q]) /\ EntryInside(own, q, disk[q])
    BY DEF OwnInv, EntriesInside
  <2>2. dir[q] \in Entry /\ disk[q] \in Entry
    BY <1>1
  <2>3. /\ dir[q].at # 0 => Inside(file', own2, q, dir[q].at, Reach(dir[q]))
        /\ disk[q].at # 0 => Inside(file', own2, q, disk[q].at, Reach(disk[q]))
    BY <1>1, <2>1, <2>2, EntryFrame
  <2> QED BY <2>3
<1>5. EntriesComplete'
  <2> SUFFICES ASSUME NEW q \in Pages
               PROVE  Settling(q)' \/ (dir'[q].at = 0 <=> dir'[q].len = 0)
    BY DEF EntriesComplete
  <2>1. CASE q = p
    BY <2>1 DEF Settling
  <2>2. CASE q # p
    <3>1. dir'[q] = dir[q]
      BY <2>2
    <3>2. Settling(q) => Settling(q)'
      <4> SUFFICES ASSUME NEW b \in Actors, task[b].step = "length", PageOf(b) = q
                   PROVE  Settling(q)'
        BY DEF Settling
      <4>1. b # a
        BY <2>2
      <4>2. task'[b].step = "length" /\ PageOf(b)' = q
        BY <4>1 DEF PageOf, Stored
      <4> QED BY <4>2 DEF Settling
    <3> QED BY <3>1, <3>2 DEF OwnInv, EntriesComplete
  <2> QED BY <2>1, <2>2
<1>6. StoresRight(own2)'
  <2> SUFFICES ASSUME NEW b \in Actors
               PROVE  /\ task'[b].step = "payload" => PayloadRight(own2, b)'
                      /\ task'[b].step = "length" => LengthRight(own2, b)'
    BY DEF StoresRight
  <2>1. CASE b = a
    BY <2>1
  <2>2. CASE b # a
    <3>1. /\ task'[b] = task[b] /\ cache'[b] = cache[b]
          /\ task[b].step = "payload" /\ task[b].appended => Len(file') = Len(file)
      BY <2>2
    <3>2. /\ task[b].step = "payload" => PayloadRight(own, b)
          /\ task[b].step = "length" => LengthRight(own, b)
      BY DEF OwnInv, StoresRight
    <3>3. CASE Storing(b)
      <4>1. PageOf(b) # p /\ dir'[PageOf(b)] = dir[PageOf(b)]
        BY <1>3, <2>2, <3>3
      <4> QED BY <3>1, <3>2, <3>3, <4>1, StoreFrame
    <3>4. CASE ~Storing(b)
      BY <3>1, <3>4 DEF Storing
    <3> QED BY <3>3, <3>4
  <2> QED BY <2>1, <2>2
<1>7. ExtentsRight(own2)'
  <2>1. \A v \in Views : task'[v].step # "extent"
    BY <1>1 DEF Actors
  <2> QED BY <2>1 DEF ExtentsRight
<1>8. ~Writing'
  BY <1>1 DEF Writing, NoViews, Compiled, Owns, Planes
<1> QED BY <1>4, <1>5, <1>6, <1>7, <1>8 DEF OwnInv

(* A step that leaves the cells and the directory in memory. *)
(* A step that leaves an actor alone, or has nothing to do with its cells. *)
Undisturbed(b) ==
  \/ task'[b] = task[b] /\ cache'[b] = cache[b] /\ (b \in Views => batch'[b] = batch[b])
  \/ task[b].step # "length" /\ task'[b].step \notin {"payload", "length", "extent"}

LEMMA QuietOwn ==
  ASSUME NEW own, OwnInv(own), UNCHANGED <<file, exact, dir, compileEnd>>,
         \A p \in Pages : disk'[p] = disk[p] \/ disk'[p] = dir[p],
         \A b \in Actors : Undisturbed(b),
         Writing' => Writing
  PROVE  OwnInv(own)'
<1>1. \A e : Reach(e)' = Reach(e)
  BY DEF Reach, Kept
<1>2. EntriesInside(own)'
  <2> SUFFICES ASSUME NEW q \in Pages
               PROVE  /\ dir[q].at # 0 => Inside(file, own, q, dir[q].at, Reach(dir[q]))
                      /\ disk'[q].at # 0 => Inside(file, own, q, disk'[q].at, Reach(disk'[q]))
    BY <1>1 DEF EntriesInside, EntryInside
  <2>1. EntryInside(own, q, dir[q]) /\ EntryInside(own, q, disk[q])
    BY DEF OwnInv, EntriesInside
  <2>2. CASE disk'[q] = disk[q]
    BY <2>1, <2>2 DEF EntryInside
  <2>3. CASE disk'[q] = dir[q]
    BY <2>1, <2>3 DEF EntryInside
  <2> QED BY <2>2, <2>3
<1>3. EntriesComplete'
  <2> SUFFICES ASSUME NEW q \in Pages, Settling(q) PROVE Settling(q)'
    BY DEF OwnInv, EntriesComplete
  <2>1. PICK b \in Actors : task[b].step = "length" /\ PageOf(b) = q
    BY DEF Settling
  <2>2. task'[b] = task[b] /\ cache'[b] = cache[b]
    BY <2>1 DEF Undisturbed
  <2> QED BY <2>1, <2>2 DEF Settling, PageOf, Stored
<1>4. StoresRight(own)'
  <2> SUFFICES ASSUME NEW b \in Actors, task'[b].step \in {"payload", "length"}
               PROVE  /\ task'[b].step = "payload" => PayloadRight(own, b)'
                      /\ task'[b].step = "length" => LengthRight(own, b)'
    BY DEF StoresRight
  <2>1. task'[b] = task[b] /\ cache'[b] = cache[b]
    BY DEF Undisturbed
  <2>2. /\ task[b].step = "payload" => PayloadRight(own, b)
        /\ task[b].step = "length" => LengthRight(own, b)
    BY DEF OwnInv, StoresRight
  <2>3. PageOf(b)' = PageOf(b) /\ Content(b)' = Content(b) /\ Kept' = Kept
    BY <2>1 DEF PageOf, Content, Stored, Kept
  <2> QED BY <1>1, <2>1, <2>2, <2>3 DEF PayloadRight, LengthRight
<1>5. ExtentsRight(own)'
  <2> SUFFICES ASSUME NEW v \in Views, task'[v].step = "extent" PROVE ExtentRight(own, v)'
    BY DEF ExtentsRight
  <2>1. task'[v] = task[v] /\ batch'[v] = batch[v]
    BY DEF Actors, Undisturbed
  <2>2. ExtentRight(own, v)
    BY <2>1 DEF OwnInv, ExtentsRight
  <2> QED BY <2>1, <2>2 DEF ExtentRight, BatchEnd, BatchAt
<1> QED BY <1>2, <1>3, <1>4, <1>5 DEF OwnInv

--------------------
(* What the caches hold of the other pages.                                *)
LEMMA SlotTypes ==
  ASSUME StoreTypeOK, NEW a \in Actors, NEW s \in Slots(a)
  PROVE  /\ cache[a][s] \in Slot /\ cache[a][s].page \in Pages
         /\ cache[a][s].content \in Values \cup {Err} /\ cache[a][s].dirty \in BOOLEAN
<1>1. cache[a][s] \in Slot
  BY DEF StoreTypeOK
<1> QED BY <1>1 DEF Slot

(* A step of one actor in the caches, when the others' pages read as before. *)
LEMMA CoherenceStep ==
  ASSUME StoreTypeOK, CoherenceInv, NEW a \in Actors,
         UNCHANGED <<mode, view, compile, cap, nextPlane>>,
         \A b \in Actors \ {a} :
           /\ cache'[b] = cache[b]
           /\ Reads(b) => \A s \in Slots(b) : cache[b][s].content # Err =>
                 Decode(file', dir'[cache[b][s].page]) = Decode(file, dir[cache[b][s].page]),
         \A s \in Slots(a) :
           /\ cache'[a][s].dirty => cache'[a][s].content # Err
           /\ cache'[a][s].content # Err =>
                 /\ s = SlotOf(a, cache'[a][s].page) /\ Owns(a, cache'[a][s].page)
                 /\ ~cache'[a][s].dirty /\ Reads(a) =>
                       cache'[a][s].content = Decode(file', dir'[cache'[a][s].page])
  PROVE  CoherenceInv'
<1>1. \A b : (\A p : SlotOf(b, p)' = SlotOf(b, p) /\ Owns(b, p)' = Owns(b, p)) /\ Slots(b)' = Slots(b)
  BY DEF SlotOf, HandleSlot, ViewSlot, Owns, Slots
<1>2. \A b : Reads(b)' = Reads(b)
  BY DEF Reads, NoWritable, Writing, NoViews, Compiled, Owns, Planes
<1>3. ASSUME NEW b \in Actors, NEW s \in Slots(b)
      PROVE  /\ cache'[b][s].dirty => cache'[b][s].content # Err
             /\ cache'[b][s].content # Err =>
                   s = SlotOf(b, cache'[b][s].page) /\ Owns(b, cache'[b][s].page)
             /\ cache'[b][s].content # Err /\ ~cache'[b][s].dirty /\ Reads(b) =>
                   cache'[b][s].content = Decode(file', dir'[cache'[b][s].page])
  <2>1. CASE b = a
    BY <2>1
  <2>2. CASE b # a
    <3>1. cache'[b] = cache[b]
      BY <2>2
    <3>2. Reads(b) /\ cache[b][s].content # Err =>
            Decode(file', dir'[cache[b][s].page]) = Decode(file, dir[cache[b][s].page])
      BY <2>2
    <3> QED BY <3>1, <3>2 DEF CoherenceInv
  <2> QED BY <2>1, <2>2
<1>4. ASSUME NEW b \in Actors, NEW s \in Slots(b)
      PROVE  /\ cache'[b][s].dirty => cache'[b][s].content # Err
             /\ cache'[b][s].content # Err =>
                   s = SlotOf(b, cache[b][s].page)' /\ Owns(b, cache[b][s].page)'
             /\ cache'[b][s].content # Err /\ ~cache'[b][s].dirty /\ Reads(b)' =>
                   cache'[b][s].content = Decode(file', dir'[cache'[b][s].page])
  <2>1. PICK p : p = cache'[b][s].page
    OBVIOUS
  <2>2. SlotOf(b, p)' = SlotOf(b, p) /\ Owns(b, p)' = Owns(b, p) /\ Reads(b)' = Reads(b)
    BY <1>1, <1>2
  <2>3. SlotOf(b, cache[b][s].page)' = SlotOf(b, p)' /\ Owns(b, cache[b][s].page)' = Owns(b, p)'
    BY <2>1 DEF SlotOf, HandleSlot, ViewSlot, Owns
  <2> QED BY <1>3, <2>1, <2>2, <2>3
<1> QED BY <1>1, <1>4 DEF CoherenceInv

(* The other pages read as before when an actor stores one. *)
LEMMA OthersRead ==
  ASSUME StoreConstants, StoreTypeOK, ActorsInv, CoherenceInv, NEW own, OwnInv(own), NEW own2,
         NEW a \in Actors, Storing(a), NEW p, p = PageOf(a), exact' = exact,
         file' \in Seq(Cell), WritesOnly(file, file', own, own2, p),
         \A q \in Pages \ {p} : dir'[q] = dir[q]
  PROVE  /\ \A q \in Pages \ {p} : Decode(file', dir'[q]) = Decode(file, dir[q])
         /\ \A b \in Actors \ {a} : Reads(b) => \A s \in Slots(b) : cache[b][s].content # Err =>
                 Decode(file', dir'[cache[b][s].page]) = Decode(file, dir[cache[b][s].page])
         /\ \A s \in Slots(a) : cache[a][s].content # Err /\ s # task[a].slot =>
                 Decode(file', dir'[cache[a][s].page]) = Decode(file, dir[cache[a][s].page])
<1>1. ASSUME NEW q \in Pages \ {p}
      PROVE  Decode(file', dir'[q]) = Decode(file, dir[q])
  <2>1. dir[q] \in Entry /\ file \in Seq(Cell)
    BY DEF StoreTypeOK
  <2>2. EntryInside(own, q, dir[q])
    BY DEF OwnInv, EntriesInside
  <2>3. Decode(file', dir[q]) = Decode(file, dir[q])
    BY <2>1, <2>2, EntryFrame
  <2> QED BY <2>3
<1>2. task[a].slot \in Dirty(a) /\ task[a].slot = SlotOf(a, PageOf(a))
  BY StoringFacts
<1>3. ASSUME NEW b \in Actors \ {a}, Reads(b), NEW s \in Slots(b), cache[b][s].content # Err
      PROVE  cache[b][s].page \in Pages \ {p}
  <2>1. cache[b][s].page \in Pages
    BY SlotTypes
  <2>2. cache[b][s].page # p
    <3> SUFFICES ASSUME cache[b][s].page = p PROVE FALSE
      OBVIOUS
    <3>1. cache[a][task[a].slot].page = p
      BY DEF PageOf, Stored
    <3> QED BY <1>2, <1>3, <3>1, SoleHolder
  <2> QED BY <2>1, <2>2
<1>4. ASSUME NEW s \in Slots(a), cache[a][s].content # Err, s # task[a].slot
      PROVE  cache[a][s].page \in Pages \ {p}
  <2>1. cache[a][s].page \in Pages
    BY SlotTypes
  <2>2. s = SlotOf(a, cache[a][s].page)
    BY <1>4 DEF CoherenceInv
  <2> QED BY <1>2, <1>4, <2>1, <2>2
<1> QED BY <1>1, <1>3, <1>4

(* While a page is being stored its slot is dirty, and the cache stays. *)
LEMMA StoreCoherence ==
  ASSUME StoreConstants, StoreTypeOK, ActorsInv, CoherenceInv, NEW own, OwnInv(own), NEW own2,
         NEW a \in Actors, Storing(a), NEW p, p = PageOf(a),
         UNCHANGED <<exact, mode, view, compile, cap, nextPlane, cache>>,
         file' \in Seq(Cell), WritesOnly(file, file', own, own2, p),
         \A q \in Pages \ {p} : dir'[q] = dir[q]
  PROVE  CoherenceInv'
<1>1. /\ \A b \in Actors \ {a} : Reads(b) => \A s \in Slots(b) : cache[b][s].content # Err =>
                 Decode(file', dir'[cache[b][s].page]) = Decode(file, dir[cache[b][s].page])
      /\ \A s \in Slots(a) : cache[a][s].content # Err /\ s # task[a].slot =>
                 Decode(file', dir'[cache[a][s].page]) = Decode(file, dir[cache[a][s].page])
  BY OthersRead
<1>2. cache[a][task[a].slot].dirty = TRUE
  BY StoringFacts DEF Stored
<1>3. ASSUME NEW s \in Slots(a)
      PROVE  /\ cache[a][s].dirty => cache[a][s].content # Err
             /\ cache[a][s].content # Err =>
                   /\ s = SlotOf(a, cache[a][s].page) /\ Owns(a, cache[a][s].page)
                   /\ ~cache[a][s].dirty /\ Reads(a) =>
                         cache[a][s].content = Decode(file', dir'[cache[a][s].page])
  <2>1. CASE s = task[a].slot
    BY <1>2, <2>1 DEF CoherenceInv
  <2>2. CASE s # task[a].slot
    BY <1>1, <2>2 DEF CoherenceInv
  <2> QED BY <2>1, <2>2
<1> QED BY <1>1, <1>3, CoherenceStep

(* A task that goes on to its next step. *)
LEMMA StoreTask ==
  ASSUME StoreConstants, ActorsInv, NEW a \in Actors, Storing(a), Storing(a)',
         UNCHANGED <<cache, cap, view, compile>>,
         task'[a].goal = task[a].goal, task'[a].slot = task[a].slot, task'[a].want = task[a].want,
         task'[a].put = task[a].put, task'[a].who = task[a].who, task'[a].size = task[a].size,
         task'[a].step = "payload" /\ task'[a].appended /\ a # Main => mutex' = a
  PROVE  TaskRight(a)'
<1>1. TaskRight(a)
  BY DEF ActorsInv
<1>2. Dirty(a)' = Dirty(a) /\ NoViews' = NoViews /\ PageOf(a)' = PageOf(a)
  BY <1>1 DEF Dirty, Slots, NoViews, PageOf, Stored, TaskRight
<1>3. \A p : SlotOf(a, p)' = SlotOf(a, p) /\ Owns(a, p)' = Owns(a, p)
  BY DEF SlotOf, HandleSlot, ViewSlot, Owns
<1>4. \A o : Overlaps(task[a].who, o)' = Overlaps(task[a].who, o)
  BY DEF Overlaps
<1>5. task[a].step \in {"block", "payload", "length"} /\ task'[a].step \in {"block", "payload", "length"}
  BY DEF Storing
<1>6. task[a].goal \notin {"none", "writer"}
  BY <1>1, <1>5 DEF TaskRight, Idle
<1>7. /\ (task[a].goal = "create" => /\ ~compile /\ task[a].who \in Views
                                     /\ "write" \in Kinds[task[a].who]
                                     /\ \A o \in Views : Overlaps(task[a].who, o) => view[o] = "none")
      /\ (task[a].goal = "resize" => NoViews /\ task[a].size \in Caps)
      /\ (task[a].goal = "close" /\ a = Main => NoViews)
      /\ (task[a].goal = "close" /\ a # Main => view[a] = "write")
  BY <1>1 DEF TaskRight
<1>8. /\ (task[a].goal = "create" => /\ ~compile' /\ task'[a].who \in Views
                                     /\ "write" \in Kinds[task'[a].who]
                                     /\ \A o \in Views : Overlaps(task'[a].who, o) => view'[o] = "none")
      /\ (task[a].goal = "resize" => NoViews' /\ task'[a].size \in Caps)
      /\ (task[a].goal = "close" /\ a = Main => NoViews')
      /\ (task[a].goal = "close" /\ a # Main => view'[a] = "write")
  BY <1>2, <1>7
<1>9. /\ task'[a].goal = "create" => /\ ~compile' /\ task'[a].who \in Views
                                     /\ "write" \in Kinds[task'[a].who]
                                     /\ \A o \in Views : Overlaps(task[a].who, o)' => view'[o] = "none"
      /\ task'[a].goal = "resize" => NoViews' /\ task'[a].size \in Caps
      /\ task'[a].goal = "close" /\ a = Main => NoViews'
      /\ task'[a].goal = "close" /\ a # Main => view'[a] = "write"
  BY <1>4, <1>8 DEF Overlaps
<1> QED BY <1>1, <1>2, <1>3, <1>5, <1>6, <1>9 DEF TaskRight, Storing

--------------------
(* Storing a page.                                                         *)

(* Of the actors that have appended a block, none waits while another does. *)
LEMMA AppendAlone ==
  ASSUME StoreConstants, StoreTypeOK, ActorsInv, CoherenceInv, NEW a \in Actors, Storing(a),
         NEW b \in Actors, b # a, task[b].step = "payload", task[b].appended
  PROVE  mutex = b /\ a # Main
<1>1. Storing(b)
  BY DEF Storing
<1>2. a # Main /\ b # Main
  BY <1>1, StoringApart
<1>3. TaskRight(b)
  BY DEF ActorsInv
<1> QED BY <1>2, <1>3 DEF TaskRight

LEMMA StoreKeeps ==
  ASSUME StoreConstants, StoreTypeOK, ActorsInv, CoherenceInv, NEW own, OwnInv(own), NEW own2,
         NEW a \in Actors, Storing(a), Storing(a)', NEW p, p = PageOf(a),
         UNCHANGED <<disk, exact, mode, cap, cache, view, compile, compileEnd, batch, nextPlane>>,
         file' \in Seq(Cell), WritesOnly(file, file', own, own2, p),
         dir' \in [Pages -> Entry], \A q \in Pages \ {p} : dir'[q] = dir[q],
         dir'[p].at # 0 => Inside(file', own2, p, dir'[p].at, Reach(dir'[p])),
         \A b \in Actors \ {a} :
           /\ task'[b] = task[b]
           /\ mutex = b => mutex' = b
           /\ task[b].step = "payload" /\ task[b].appended => Len(file') = Len(file),
         task'[a].goal = task[a].goal, task'[a].slot = task[a].slot, task'[a].want = task[a].want,
         task'[a].put = task[a].put, task'[a].who = task[a].who, task'[a].size = task[a].size,
         task'[a].step = "payload" /\ task'[a].appended /\ a # Main => mutex' = a,
         task'[a].step = "payload" => PayloadRight(own2, a)',
         task'[a].step = "length" => LengthRight(own2, a)',
         task'[a].step = "length" \/ (dir'[p].at = 0 <=> dir'[p].len = 0)
  PROVE  ActorsInv' /\ OwnInv(own2)' /\ CoherenceInv'
<1>1. /\ mode = "write" /\ ~Writing /\ (a = Main => NoViews)
      /\ (a # Main => a \in Views /\ view[a] = "write")
      /\ task[a].slot \in Dirty(a)
  BY StoringFacts
<1>2. TaskRight(a)'
  BY StoreTask
<1>3. TaskRight(a)
  BY DEF ActorsInv
<1>4. task'[a].goal # "writer" /\ task'[a].step # "extent"
  BY <1>3 DEF TaskRight, Storing
<1>5. NoViews => NoWritable
  BY DEF NoViews, NoWritable
<1>6. ActorsInv'
  <2>1. a = Main => MainMay
    BY <1>1, <1>5 DEF MainMay
  <2>2. a # Main => ViewMay(a)
    BY <1>1, <1>4 DEF ViewMay
  <2>3. \A b \in Actors \ {a} : task'[b] = task[b] /\ cache'[b] = cache[b] /\ (mutex = b => mutex' = b)
    OBVIOUS
  <2> QED BY <1>1, <1>2, <2>1, <2>2, <2>3, ActorStep
<1>7. OwnInv(own2)'
  <2>1. PageOf(a)' = p
    BY DEF PageOf, Stored
  <2>2. \A b \in Actors \ {a} :
           /\ task'[b] = task[b] /\ cache'[b] = cache[b]
           /\ task[b].step = "payload" /\ task[b].appended => Len(file') = Len(file)
    OBVIOUS
  <2> QED BY <1>4, <2>1, <2>2, OwnStep
<1>8. CoherenceInv'
  BY StoreCoherence
<1> QED BY <1>6, <1>7, <1>8

(* The type of what a storing step changes. *)
LEMMA StoreType ==
  ASSUME StoreConstants, StoreTypeOK, NEW a \in Actors,
         UNCHANGED <<disk, exact, mode, refs, cap, cache, view, writers>>,
         file' \in Seq(Cell), dir' \in [Pages -> Entry], task' \in [Actors -> Task],
         mutex' \in Actors \cup {Nobody}
  PROVE  StoreTypeOK'
BY DEF StoreTypeOK, writers, Slots

LEMMA AdvanceType ==
  ASSUME StoreTypeOK, NEW a \in Actors, NEW st \in {"payload", "length"},
         NEW at \in Nat, NEW appended \in BOOLEAN,
         task' = [task EXCEPT ![a] = [@ EXCEPT !.step = st, !.at = at, !.appended = appended]]
  PROVE  task' \in [Actors -> Task]
<1>1. task \in [Actors -> Task]
  BY DEF StoreTypeOK
<1>2. PICK t \in Task : t = task[a]
  BY <1>1
<1>3. [t EXCEPT !.step = st, !.at = at, !.appended = appended] \in Task
  BY DEF Task
<1> QED BY <1>1, <1>2, <1>3

LEMMA StoreDrawRight ==
  ASSUME StoreConstants, StoreInv, NEW a \in Actors, StoreDraw(a)
  PROVE  StoreInv'
<1>1. StoreTypeOK /\ ActorsInv /\ CoherenceInv
  BY DEF StoreInv
<1>2. PICK own \in [Nat -> Pages] : OwnInv(own)
  BY DEF StoreInv
<1>3. Storing(a) /\ Content(a) = Draw /\ task[a] \in Task
  BY <1>1 DEF StoreDraw, Storing, Content, StoreTypeOK
<1>4. PICK p \in Pages : p = PageOf(a)
  BY <1>1, <1>3, StoringFacts
<1>5. dir' = [dir EXCEPT ![p].at = 0] /\ dir \in [Pages -> Entry] /\ file \in Seq(Cell)
  BY <1>1, <1>4 DEF StoreDraw, PageOf, StoreTypeOK
<1>6. dir' \in [Pages -> Entry] /\ dir'[p].at = 0 /\ \A q \in Pages \ {p} : dir'[q] = dir[q]
  BY <1>5 DEF Entry
<1>7. /\ task' = [task EXCEPT ![a].step = "length"] /\ file' = file /\ mutex' = mutex
      /\ UNCHANGED <<disk, exact, mode, refs, cap, cache, view, writers>>
  BY DEF StoreDraw, Advance, stored
<1>8. task' \in [Actors -> Task]
  <2>1. task \in [Actors -> Task]
    BY <1>1 DEF StoreTypeOK
  <2>2. [task[a] EXCEPT !.step = "length"] \in Task
    BY <1>3 DEF Task
  <2> QED BY <1>7, <2>1, <2>2
<1>9. StoreTypeOK'
  <2>1. file' \in Seq(Cell) /\ mutex' \in Actors \cup {Nobody}
    BY <1>1, <1>5, <1>7 DEF StoreTypeOK
  <2> QED BY <1>1, <1>6, <1>7, <1>8, <2>1, StoreType
<1>10. /\ task'[a].step = "length" /\ task'[a].goal = task[a].goal /\ task'[a].slot = task[a].slot
       /\ task'[a].want = task[a].want /\ task'[a].put = task[a].put
       /\ task'[a].who = task[a].who /\ task'[a].size = task[a].size
       /\ \A b \in Actors \ {a} : task'[b] = task[b]
  BY <1>1, <1>3, <1>7 DEF StoreTypeOK, Task
<1>11. WritesOnly(file, file', own, own, p)
  BY <1>5, <1>7 DEF WritesOnly
<1>12. LengthRight(own, a)'
  <2>1. Content(a)' = Draw /\ PageOf(a)' = p
    BY <1>3, <1>4, <1>7, <1>10 DEF Content, PageOf, Stored
  <2> QED BY <1>6, <2>1 DEF LengthRight
<1>13. Storing(a)'
  BY <1>10 DEF Storing
<1>14. ActorsInv' /\ OwnInv(own)' /\ CoherenceInv'
  <2>1. UNCHANGED <<disk, exact, mode, cap, cache, view, compile, compileEnd, batch, nextPlane>>
    BY <1>7 DEF writers
  <2>2. \A b \in Actors \ {a} :
           /\ task'[b] = task[b]
           /\ mutex = b => mutex' = b
           /\ task[b].step = "payload" /\ task[b].appended => Len(file') = Len(file)
    BY <1>7, <1>10
  <2>3. file' \in Seq(Cell)
    BY <1>5, <1>7
  <2> QED BY <1>1, <1>2, <1>3, <1>4, <1>6, <1>10, <1>11, <1>12, <1>13, <2>1, <2>2, <2>3, StoreKeeps
<1> QED BY <1>9, <1>14 DEF StoreInv

LEMMA NotSettling ==
  ASSUME StoreConstants, StoreTypeOK, ActorsInv, CoherenceInv, NEW own, OwnInv(own),
         NEW a \in Actors, Storing(a), task[a].step # "length"
  PROVE  dir[PageOf(a)].at = 0 <=> dir[PageOf(a)].len = 0
<1>1. ~Settling(PageOf(a))
  <2> SUFFICES ASSUME NEW b \in Actors, task[b].step = "length", PageOf(b) = PageOf(a) PROVE FALSE
    BY DEF Settling
  <2>1. Storing(b) /\ a # b
    BY DEF Storing
  <2> QED BY <2>1, StoringApart
<1>2. PageOf(a) \in Pages
  BY StoringFacts
<1> QED BY <1>1, <1>2 DEF OwnInv, EntriesComplete

LEMMA InsideLess ==
  ASSUME NEW f, NEW own, NEW p, NEW at \in Nat, NEW room \in Nat, NEW less \in Nat,
         Len(f) \in Nat, Inside(f, own, p, at, room), less <= room
  PROVE  Inside(f, own, p, at, less)
BY DEF Inside

(* Past its end the file belongs to whoever appends to it. *)
Appending(own, n, p) == [i \in Nat |-> IF i > n THEN p ELSE own[i]]

LEMMA AppendingFacts ==
  ASSUME NEW own \in [Nat -> Pages], NEW n \in Nat, NEW p \in Pages
  PROVE  /\ Appending(own, n, p) \in [Nat -> Pages]
         /\ \A i \in Nat : i > n => Appending(own, n, p)[i] = p
         /\ \A i \in 1 .. n : Appending(own, n, p)[i] = own[i]
BY DEF Appending

LEMMA StoreInPlaceRight ==
  ASSUME StoreConstants, StoreInv, NEW a \in Actors, StoreInPlace(a)
  PROVE  StoreInv' /\ StoresOwn(a)
<1>1. StoreTypeOK /\ ActorsInv /\ CoherenceInv
  BY DEF StoreInv
<1>2. PICK own \in [Nat -> Pages] : OwnInv(own)
  BY DEF StoreInv
<1>3. Storing(a) /\ task[a].step = "block"
  BY DEF StoreInPlace, Storing
<1>4. PICK p \in Pages, c \in Values : p = PageOf(a) /\ c = Content(a)
  BY <1>1, <1>3, StoringFacts
<1>5. PICK e \in Entry : e = dir[p]
  BY <1>1 DEF StoreTypeOK
<1>6. c # Draw /\ e.at # 0 /\ Size[c] <= Reach(e) /\ file' = Write(file, e.at, << <<c, 0>> >>)
      /\ task' = [task EXCEPT ![a] = [@ EXCEPT !.step = "payload", !.at = e.at, !.appended = FALSE]]
      /\ UNCHANGED <<disk, exact, mode, refs, dir, cap, cache, view, mutex, writers>>
  BY <1>4, <1>5 DEF StoreInPlace, InPlace, Reach, PageOf, Content
<1>7. c \in Contents /\ Size[c] \in Nat /\ e.at \in Nat \ {0} /\ e.len \in Nat /\ Reach(e) \in Nat
  BY <1>4, <1>5, <1>6, ReachFacts DEF Values, StoreConstants
<1>8. file \in Seq(Cell) /\ Len(file) \in Nat /\ DOMAIN file = 1 .. Len(file)
      /\ dir \in [Pages -> Entry]
  BY <1>1 DEF StoreTypeOK
<1>9. Inside(file, own, p, e.at, Reach(e)) /\ EntryInside(own, p, e)
  BY <1>2, <1>5, <1>6 DEF OwnInv, EntriesInside, EntryInside
<1>10. e.at + Reach(e) <= Len(file) /\ own[e.at] = p
  BY <1>7, <1>9 DEF Inside
<1>11. /\ file' \in Seq(Cell) /\ Len(file') = Len(file) /\ file'[e.at] = <<c, 0>>
       /\ \A i \in 1 .. Len(file) : i # e.at => file'[i] = file[i]
  <2>1. PICK cells \in Seq(Cell) : /\ cells = << <<c, 0>> >> /\ Len(cells) = 1 /\ cells[1] = <<c, 0>>
    BY <1>7, HeaderFacts
  <2>2. e.at + Len(cells) - 1 = e.at /\ e.at <= Len(file) /\ e.at + 1 - 1 = e.at /\ 1 \in 1 .. Len(cells)
    BY <1>7, <1>8, <1>10, <2>1
  <2>3. file' = Write(file, e.at, cells)
    BY <1>6, <2>1
  <2>4. /\ Write(file, e.at, cells) \in Seq(Cell)
        /\ e.at + Len(cells) - 1 <= Len(file) => Len(Write(file, e.at, cells)) = Len(file)
        /\ \A i \in 1 .. Len(file) :
             i < e.at \/ i > e.at + Len(cells) - 1 => Write(file, e.at, cells)[i] = file[i]
        /\ \A k \in 1 .. Len(cells) : Write(file, e.at, cells)[e.at + k - 1] = cells[k]
    BY <1>7, <1>8, WriteFacts
  <2>5. file'[e.at] = <<c, 0>>
    BY <2>1, <2>2, <2>3, <2>4
  <2>6. \A i \in 1 .. Len(file) : i # e.at => i < e.at \/ i > e.at
    BY <1>7, <1>8
  <2> QED BY <2>2, <2>3, <2>4, <2>5, <2>6
<1>12. WritesOnly(file, file', own, own, p)
  BY <1>8, <1>10, <1>11 DEF WritesOnly
<1>13. /\ task'[a].step = "payload" /\ task'[a].at = e.at /\ task'[a].appended = FALSE
       /\ task'[a].goal = task[a].goal /\ task'[a].slot = task[a].slot
       /\ task'[a].want = task[a].want /\ task'[a].put = task[a].put
       /\ task'[a].who = task[a].who /\ task'[a].size = task[a].size
       /\ \A b \in Actors \ {a} : task'[b] = task[b]
  BY <1>1, <1>6 DEF StoreTypeOK, Task
<1>14. StoreTypeOK'
  <2>1. task' \in [Actors -> Task]
    BY <1>1, <1>6, <1>7, AdvanceType
  <2>2. dir' \in [Pages -> Entry] /\ mutex' \in Actors \cup {Nobody}
    BY <1>1, <1>6 DEF StoreTypeOK
  <2> QED BY <1>1, <1>6, <1>11, <2>1, <2>2, StoreType
<1>15. PayloadRight(own, a)'
  <2>1. Content(a)' = c /\ PageOf(a)' = p /\ dir' = dir /\ Reach(e)' = Reach(e)
    BY <1>4, <1>6, <1>13 DEF Content, PageOf, Stored, Reach, Kept
  <2>2. e.at \in DOMAIN file'
    BY <1>7, <1>8, <1>10, <1>11
  <2>3. Size[c] <= Reach(e)'
    BY <1>6, <2>1
  <2>4. dir'[p] = e
    BY <1>5, <2>1
  <2> QED BY <1>6, <1>10, <1>11, <1>13, <2>1, <2>2, <2>3, <2>4 DEF PayloadRight
<1>16. Storing(a)'
  BY <1>13 DEF Storing
<1>17. dir'[p].at # 0 => Inside(file', own, p, dir'[p].at, Reach(dir'[p]))
  BY <1>5, <1>6, <1>8, <1>9, <1>11, <1>12, EntryFrame
<1>18. dir'[p].at = 0 <=> dir'[p].len = 0
  BY <1>1, <1>2, <1>3, <1>4, <1>6, NotSettling
<1>19. ActorsInv' /\ OwnInv(own)' /\ CoherenceInv'
  <2>1. /\ UNCHANGED <<disk, exact, mode, cap, cache, view, compile, compileEnd, batch, nextPlane>>
        /\ dir' \in [Pages -> Entry] /\ \A q \in Pages \ {p} : dir'[q] = dir[q]
    BY <1>6, <1>8 DEF writers
  <2>2. \A b \in Actors \ {a} :
           /\ task'[b] = task[b]
           /\ mutex = b => mutex' = b
           /\ task[b].step = "payload" /\ task[b].appended => Len(file') = Len(file)
    BY <1>6, <1>11, <1>13
  <2> QED BY <1>1, <1>2, <1>3, <1>4, <1>11, <1>12, <1>13, <1>15, <1>16, <1>17, <1>18,
             <2>1, <2>2, StoreKeeps
<1>20. Stores(file, file', c, e.at)
  <2>1. \A i \in 1 .. Len(file) : file'[i] = file[i] \/ (i = e.at + 0 /\ file'[i] = <<c, 0>>)
    BY <1>7, <1>11
  <2>2. 0 \in 0 .. Size[c]
    BY <1>7
  <2> QED BY <1>8, <1>11, <2>1, <2>2 DEF Stores
<1>21. StoresOwn(a)
  BY <1>2, <1>4, <1>5, <1>12, <1>20 DEF StoresOwn
<1> QED BY <1>2, <1>14, <1>19, <1>21 DEF StoreInv

LEMMA StoreAppendRight ==
  ASSUME StoreConstants, StoreInv, NEW a \in Actors, StoreAppend(a)
  PROVE  StoreInv' /\ StoresOwn(a)
<1>1. StoreTypeOK /\ ActorsInv /\ CoherenceInv
  BY DEF StoreInv
<1>2. PICK own \in [Nat -> Pages] : OwnInv(own)
  BY DEF StoreInv
<1>3. Storing(a) /\ task[a].step = "block"
  BY DEF StoreAppend, Storing
<1>4. PICK p \in Pages, c \in Values : p = PageOf(a) /\ c = Content(a)
  BY <1>1, <1>3, StoringFacts
<1>5. PICK e \in Entry : e = dir[p]
  BY <1>1 DEF StoreTypeOK
<1>6. file \in Seq(Cell) /\ Len(file) \in Nat /\ DOMAIN file = 1 .. Len(file)
      /\ dir \in [Pages -> Entry] /\ mutex \in Actors \cup {Nobody}
  BY <1>1 DEF StoreTypeOK
<1>7. PICK at \in Nat \ {0} : at = Len(file) + 1
  BY <1>6
<1>8. /\ c # Draw /\ ~(e.at # 0 /\ Size[c] <= Reach(e)) /\ MayAppend(a)
      /\ file' = Write(file, at, << <<c, 0>> >>)
      /\ task' = [task EXCEPT ![a] = [@ EXCEPT !.step = "payload", !.at = at, !.appended = TRUE]]
      /\ mutex' = (IF a = Main THEN mutex ELSE a)
      /\ UNCHANGED <<disk, exact, mode, refs, dir, cap, cache, view, writers>>
  BY <1>4, <1>5, <1>7 DEF StoreAppend, InPlace, Reach, PageOf, Content
<1>9. c \in Contents /\ Size[c] \in Nat /\ e.at \in Nat /\ e.len \in Nat /\ Reach(e) \in Nat
      /\ e.len <= Reach(e) /\ Kept <= Reach(e) /\ Kept \in Nat
  BY <1>4, <1>5, <1>8, ReachFacts, KeptFacts DEF Values, StoreConstants
<1>10. EntryInside(own, p, e)
  BY <1>2, <1>5 DEF OwnInv, EntriesInside
<1>11. /\ file' \in Seq(Cell) /\ Len(file') = at /\ file'[at] = <<c, 0>>
       /\ \A i \in 1 .. Len(file) : file'[i] = file[i]
  <2>1. PICK cells \in Seq(Cell) : /\ cells = << <<c, 0>> >> /\ Len(cells) = 1 /\ cells[1] = <<c, 0>>
    BY <1>9, HeaderFacts
  <2>2. /\ at + Len(cells) - 1 = at /\ at + 1 - 1 = at /\ 1 \in 1 .. Len(cells)
        /\ at >= Len(file) /\ \A i \in 1 .. Len(file) : i < at
    BY <1>6, <1>7, <2>1
  <2>3. file' = Write(file, at, cells)
    BY <1>8, <2>1
  <2>4. /\ Write(file, at, cells) \in Seq(Cell)
        /\ Len(Write(file, at, cells)) = Max({Len(file), at + Len(cells) - 1})
        /\ \A i \in 1 .. Len(file) :
             i < at \/ i > at + Len(cells) - 1 => Write(file, at, cells)[i] = file[i]
        /\ \A k \in 1 .. Len(cells) : Write(file, at, cells)[at + k - 1] = cells[k]
    <3>1. file \in Seq(Cell)
      BY <1>6
    <3>2. /\ Write(file, at, cells) \in Seq(Cell)
          /\ Len(Write(file, at, cells)) = Max({Len(file), at + Len(cells) - 1})
      BY <3>1, WriteFacts
    <3>3. \A i \in 1 .. Len(file) :
             i < at \/ i > at + Len(cells) - 1 => Write(file, at, cells)[i] = file[i]
      BY <3>1, WriteFacts
    <3>4. \A k \in 1 .. Len(cells) : Write(file, at, cells)[at + k - 1] = cells[k]
      BY <3>1, WriteFacts
    <3> QED BY <3>2, <3>3, <3>4
  <2>5. file'[at] = <<c, 0>>
    BY <2>1, <2>2, <2>3, <2>4
  <2>6. Max({Len(file), at}) = at
    BY <1>6, <1>7, <2>2, MaxPair
  <2> QED BY <2>2, <2>3, <2>4, <2>5, <2>6
<1>12. PICK own2 \in [Nat -> Pages] : /\ \A i \in Nat : i > Len(file) => own2[i] = p
                                      /\ \A i \in 1 .. Len(file) : own2[i] = own[i]
  BY <1>6, AppendingFacts
<1>13. WritesOnly(file, file', own, own2, p)
  BY <1>6, <1>7, <1>11, <1>12 DEF WritesOnly
<1>14. /\ task'[a].step = "payload" /\ task'[a].at = at /\ task'[a].appended = TRUE
       /\ task'[a].goal = task[a].goal /\ task'[a].slot = task[a].slot
       /\ task'[a].want = task[a].want /\ task'[a].put = task[a].put
       /\ task'[a].who = task[a].who /\ task'[a].size = task[a].size
       /\ \A b \in Actors \ {a} : task'[b] = task[b]
  BY <1>1, <1>8 DEF StoreTypeOK, Task
<1>15. StoreTypeOK'
  <2>1. task' \in [Actors -> Task]
    BY <1>1, <1>7, <1>8, AdvanceType
  <2>2. dir' \in [Pages -> Entry] /\ mutex' \in Actors \cup {Nobody}
    BY <1>6, <1>8
  <2> QED BY <1>1, <1>8, <1>11, <2>1, <2>2, StoreType
<1>16. dir[p].at = 0 <=> dir[p].len = 0
  BY <1>1, <1>2, <1>3, <1>4, NotSettling
<1>17. e.len <= Max({Size[c], Kept})
  <2>1. Max({Size[c], Kept}) \in Nat /\ Max({Size[c], Kept}) >= Size[c] /\ Max({Size[c], Kept}) >= 0
    BY <1>9, MaxPair
  <2>2. CASE e.at = 0
    BY <1>5, <1>9, <1>16, <2>1, <2>2
  <2>3. CASE e.at # 0
    BY <1>8, <1>9, <2>1, <2>3
  <2> QED BY <2>2, <2>3
<1>18. PayloadRight(own2, a)'
  <2>1. Content(a)' = c /\ PageOf(a)' = p /\ dir' = dir /\ Kept' = Kept
    BY <1>4, <1>8, <1>14 DEF Content, PageOf, Stored, Kept
  <2>2. at \in DOMAIN file' /\ own2[at] = p
    BY <1>6, <1>7, <1>11, <1>12
  <2>3. dir'[p].len <= Max({Size[c], Kept'})
    BY <1>5, <1>17, <2>1
  <2> QED BY <1>8, <1>11, <1>14, <2>1, <2>2, <2>3 DEF PayloadRight
<1>19. Storing(a)'
  BY <1>14 DEF Storing
<1>20. dir'[p].at # 0 => Inside(file', own2, p, dir'[p].at, Reach(dir'[p]))
  BY <1>5, <1>6, <1>8, <1>10, <1>11, <1>13, EntryFrame
<1>21. ActorsInv' /\ OwnInv(own2)' /\ CoherenceInv'
  <2>1. /\ UNCHANGED <<disk, exact, mode, cap, cache, view, compile, compileEnd, batch, nextPlane>>
        /\ dir' \in [Pages -> Entry] /\ \A q \in Pages \ {p} : dir'[q] = dir[q]
    BY <1>6, <1>8 DEF writers
  <2>2. ASSUME NEW b \in Actors \ {a}
        PROVE  /\ task'[b] = task[b]
               /\ mutex = b => mutex' = b
               /\ task[b].step = "payload" /\ task[b].appended => Len(file') = Len(file)
    <3>1. Nobody \notin Actors
      BY DEF StoreConstants
    <3>2. mutex = b => a = Main
      BY <1>8, <3>1 DEF MayAppend
    <3>3. ~(task[b].step = "payload" /\ task[b].appended)
      BY <1>1, <1>3, <3>2, AppendAlone
    <3> QED BY <1>8, <1>14, <3>2, <3>3
  <2>3. task'[a].step = "payload" /\ task'[a].appended /\ a # Main => mutex' = a
    BY <1>8
  <2>4. dir'[p].at = 0 <=> dir'[p].len = 0
    BY <1>8, <1>16
  <2>5. task'[a].step = "length" => LengthRight(own2, a)'
    BY <1>14
  <2> QED BY <1>1, <1>2, <1>3, <1>4, <1>11, <1>13, <1>14, <1>18, <1>19, <1>20,
             <2>1, <2>2, <2>3, <2>4, <2>5, StoreKeeps
<1>22. Stores(file, file', c, e.at)
  <2>1. \A i \in 1 .. Len(file') : i > Len(file) => i = at
    BY <1>6, <1>7, <1>11
  <2>2. file'[at][1] = c
    BY <1>11
  <2> QED BY <1>11, <2>1, <2>2 DEF Stores
<1>23. StoresOwn(a)
  BY <1>2, <1>4, <1>5, <1>12, <1>13, <1>22 DEF StoresOwn
<1> QED BY <1>12, <1>15, <1>21, <1>23 DEF StoreInv

LEMMA StorePayloadRight ==
  ASSUME StoreConstants, StoreInv, NEW a \in Actors, StorePayload(a)
  PROVE  StoreInv' /\ StoresOwn(a)
<1>1. StoreTypeOK /\ ActorsInv /\ CoherenceInv
  BY DEF StoreInv
<1>2. PICK own \in [Nat -> Pages] : OwnInv(own)
  BY DEF StoreInv
<1>3. Storing(a) /\ task[a].step = "payload" /\ task[a] \in Task
  BY <1>1 DEF StorePayload, Storing, StoreTypeOK
<1>4. PICK p \in Pages, c \in Values : p = PageOf(a) /\ c = Content(a)
  BY <1>1, <1>3, StoringFacts
<1>5. PICK e \in Entry : e = dir[p]
  BY <1>1 DEF StoreTypeOK
<1>6. PICK at \in Nat : at = task[a].at
  BY <1>3 DEF Task
<1>7. file \in Seq(Cell) /\ Len(file) \in Nat /\ DOMAIN file = 1 .. Len(file)
      /\ dir \in [Pages -> Entry] /\ mutex \in Actors \cup {Nobody}
  BY <1>1 DEF StoreTypeOK
<1>8. /\ c # Draw /\ at \in 1 .. Len(file) /\ file[at] = <<c, 0>> /\ own[at] = p
      /\ IF task[a].appended THEN at = Len(file) /\ e.len <= Max({Size[c], Kept})
         ELSE at = e.at /\ Size[c] <= Reach(e)
  <2>1. PayloadRight(own, a)
    BY <1>2, <1>3 DEF OwnInv, StoresRight
  <2> QED BY <1>4, <1>5, <1>6, <1>7, <2>1 DEF PayloadRight
<1>9. c \in Contents /\ Size[c] \in Nat /\ e.at \in Nat /\ e.len \in Nat /\ Reach(e) \in Nat
      /\ e.len <= Reach(e) /\ Kept <= Reach(e) /\ Kept \in Nat
  BY <1>4, <1>5, <1>8, ReachFacts, KeptFacts DEF Values, StoreConstants
<1>10. PICK most \in Nat : most = Max({Size[c], Kept}) /\ Size[c] <= most /\ Kept <= most
                           /\ most \in {Size[c], Kept}
  BY <1>9, MaxPair
<1>11. PICK room \in Nat : room = IF task[a].appended THEN most ELSE Size[c]
  BY <1>9
<1>12. /\ file' = Write(file, at + 1, Padded(c, room))
       /\ dir' = [dir EXCEPT ![p].at = at]
       /\ mutex' = (IF mutex = a THEN Nobody ELSE mutex)
       /\ task' = [task EXCEPT ![a].step = "length"]
       /\ UNCHANGED <<disk, exact, mode, refs, cap, cache, view, writers>>
  <2>1. Room(a) = room
    BY <1>4, <1>10, <1>11 DEF Room, Content
  <2> QED BY <1>4, <1>6, <2>1 DEF StorePayload, PageOf, Content, Advance
<1>13. /\ file' \in Seq(Cell) /\ Len(file') \in Nat /\ DOMAIN file' = 1 .. Len(file')
       /\ Len(file') >= Len(file) /\ Len(file') >= at + room
       /\ at + room <= Len(file) => Len(file') = Len(file)
       /\ \A i \in 1 .. Len(file) : i <= at \/ i > at + room => file'[i] = file[i]
       /\ \A k \in 1 .. room : k <= Size[c] => file'[at + k] = <<c, k>>
       /\ \A k \in 1 .. room : file'[at + k][1] \in {c, Err}
       /\ at + room >= Len(file) => Len(file') = at + room
  <2>1. PICK cells \in Seq(Cell) :
          /\ cells = Padded(c, room) /\ Len(cells) = room
          /\ \A k \in 1 .. room : k <= Size[c] => cells[k] = <<c, k>>
          /\ \A k \in 1 .. room : cells[k][1] \in {c, Err}
    BY <1>9, PaddedFacts
  <2>2. PICK start \in Nat \ {0} : start = at + 1
    OBVIOUS
  <2>3. PICK g \in Seq(Cell) : g = file' /\ g = Write(file, start, cells)
    <3>1. Write(file, start, cells) \in Seq(Cell)
      BY <1>7, WriteFacts
    <3> QED BY <1>12, <2>1, <2>2, <3>1
  <2>4. /\ Len(g) >= Len(file) /\ Len(g) >= start + Len(cells) - 1
        /\ start + Len(cells) - 1 <= Len(file) => Len(g) = Len(file)
        /\ \A i \in 1 .. Len(file) : i < start \/ i > start + Len(cells) - 1 => g[i] = file[i]
        /\ \A k \in 1 .. Len(cells) : g[start + k - 1] = cells[k]
        /\ Len(g) = Max({Len(file), start + Len(cells) - 1})
    <3>1. file \in Seq(Cell) /\ g = Write(file, start, cells)
      BY <1>7, <2>3
    <3>2. /\ Len(g) >= Len(file) /\ Len(g) >= start + Len(cells) - 1
          /\ start + Len(cells) - 1 <= Len(file) => Len(g) = Len(file)
      BY <3>1, WriteFacts
    <3>3. \A i \in 1 .. Len(file) : i < start \/ i > start + Len(cells) - 1 => g[i] = file[i]
      <4>1. \A i \in 1 .. Len(file) :
              i < start \/ i > start + Len(cells) - 1 => Write(file, start, cells)[i] = file[i]
        BY ONLY <3>1, cells \in Seq(Cell), start \in Nat \ {0}, WriteKeeps
      <4> QED BY <3>1, <4>1
    <3>4. \A k \in 1 .. Len(cells) : g[start + k - 1] = cells[k]
      BY ONLY <3>1, WriteCells, cells \in Seq(Cell), start \in Nat \ {0}
    <3>5. Len(g) = Max({Len(file), start + Len(cells) - 1})
      BY <3>1, WriteFacts
    <3> QED BY <3>2, <3>3, <3>4, <3>5
  <2>5. start + Len(cells) - 1 = at + room
    BY <2>1, <2>2
  <2>6. \A k \in 1 .. room : start + k - 1 = at + k
    BY <2>2
  <2>7. \A i \in 1 .. Len(file) : i <= at => i < start
    BY <1>7, <2>2
  <2>8. at + room >= Len(file) => Len(g) = at + room
    <3>1. PICK last \in Nat : last = at + room
      OBVIOUS
    <3>2. last >= Len(file) => Max({Len(file), last}) = last
      BY <1>7, <3>1, MaxPair
    <3> QED BY <2>4, <2>5, <3>1, <3>2
  <2>9. /\ \A k \in 1 .. room : file'[at + k] = cells[k]
        /\ at + room >= Len(file) => Len(file') = at + room
    <3>1. \A k \in 1 .. room : g[start + k - 1] = cells[k]
      BY <2>1, <2>4
    <3> QED BY <2>3, <2>6, <2>8, <3>1
  <2>10. /\ file' \in Seq(Cell) /\ Len(file') \in Nat /\ DOMAIN file' = 1 .. Len(file')
         /\ Len(file') >= Len(file) /\ Len(file') >= at + room
         /\ at + room <= Len(file) => Len(file') = Len(file)
         /\ \A i \in 1 .. Len(file) : i <= at \/ i > at + room => file'[i] = file[i]
    <3>1. file' \in Seq(Cell) /\ Len(file') \in Nat /\ DOMAIN file' = 1 .. Len(file')
      BY <2>3
    <3>2. /\ Len(file') >= Len(file) /\ Len(file') >= at + room
          /\ at + room <= Len(file) => Len(file') = Len(file)
      BY <2>3, <2>4, <2>5
    <3>3. ASSUME NEW i \in 1 .. Len(file), i <= at \/ i > at + room
          PROVE  file'[i] = file[i]
      <4>1. i < start \/ i > start + Len(cells) - 1
        BY <2>5, <2>7, <3>3
      <4> QED BY <2>3, <2>4, <4>1
    <3> QED BY <3>1, <3>2, <3>3
  <2> QED BY <2>1, <2>9, <2>10
<1>14. PICK own2 \in [Nat -> Pages] : /\ \A i \in Nat : i > Len(file) => own2[i] = p
                                      /\ \A i \in 1 .. Len(file) : own2[i] = own[i]
  BY <1>7, AppendingFacts
<1>15. ASSUME ~task[a].appended
       PROVE  Inside(file, own, p, at, Reach(e)) /\ at + room <= Len(file) /\ most <= Reach(e)
  <2>1. at = e.at /\ Size[c] <= Reach(e) /\ room = Size[c]
    BY <1>8, <1>11, <1>15
  <2>2. EntryInside(own, p, e)
    BY <1>2, <1>5 DEF OwnInv, EntriesInside
  <2>3. Inside(file, own, p, at, Reach(e))
    BY <1>8, <2>1, <2>2 DEF EntryInside
  <2>4. at + Reach(e) <= Len(file)
    BY <2>3 DEF Inside
  <2> QED BY <1>7, <1>9, <1>10, <2>1, <2>3, <2>4
<1>16. WritesOnly(file, file', own, own2, p)
  <2>1. ASSUME NEW i \in 1 .. Len(file), own[i] # p PROVE file'[i] = file[i]
    <3>1. CASE task[a].appended
      <4>1. at = Len(file)
        BY <1>8, <3>1
      <4>2. i <= at
        BY ONLY <1>7, <4>1, i \in 1 .. Len(file)
      <4> QED BY <1>13, <4>2
    <3>2. CASE ~task[a].appended
      <4>1. i \in at .. at + Reach(e) => own[i] = p
        BY <1>15, <3>2 DEF Inside
      <4>2. room <= Reach(e)
        BY <1>8, <1>11, <3>2
      <4>3. i <= at \/ i > at + room
        BY <1>7, <1>9, <2>1, <4>1, <4>2
      <4> QED BY <1>13, <4>3
    <3> QED BY <3>1, <3>2
  <2> QED BY <1>13, <1>14, <2>1 DEF WritesOnly
<1>17. Inside(file', own2, p, at, most) /\ (e.len <= most \/ ~task[a].appended)
  <2>1. CASE task[a].appended
    <3>1. at = Len(file) /\ e.len <= most /\ room = most
      BY <1>8, <1>10, <1>11, <2>1
    <3>2. at + most <= Len(file')
      BY <1>13, <3>1
    <3>3. \A i \in at .. at + most : own2[i] = p
      <4> SUFFICES ASSUME NEW i \in at .. at + most PROVE own2[i] = p
        OBVIOUS
      <4>1. i \in Nat /\ (i = at \/ i > Len(file))
        <5>1. at = Len(file)
          BY <3>1
        <5> QED BY ONLY <5>1, at \in Nat, most \in Nat, i \in at .. at + most
      <4> QED BY <1>8, <1>14, <4>1
    <3> QED BY <1>8, <3>1, <3>2, <3>3 DEF Inside
  <2>2. CASE ~task[a].appended
    <3>1. Inside(file', own2, p, at, Reach(e))
      BY <1>7, <1>9, <1>13, <1>15, <1>16, <2>2, InsideFrame
    <3> QED BY <1>9, <1>13, <1>15, <2>2, <3>1, InsideLess
  <2> QED BY <2>1, <2>2
<1>18. dir' \in [Pages -> Entry] /\ dir'[p].at = at /\ dir'[p].len = e.len
       /\ \A q \in Pages \ {p} : dir'[q] = dir[q]
  BY <1>5, <1>7, <1>12 DEF Entry
<1>19. Inside(file', own2, p, dir'[p].at, Reach(dir'[p]))
  <2>1. Reach(dir'[p]) = Reach(e)
    BY <1>18 DEF Reach
  <2>2. CASE task[a].appended
    <3>1. Reach(e) <= most
      <4>1. e.len <= most /\ Reach(e) \in {e.len, Kept}
        BY <1>9, <1>17, <2>2, MaxPair DEF Reach
      <4> QED BY <1>10, <4>1
    <3> QED BY <1>9, <1>13, <1>17, <1>18, <2>1, <3>1, InsideLess
  <2>3. CASE ~task[a].appended
    <3>1. Inside(file', own2, p, at, Reach(e))
      BY <1>7, <1>9, <1>13, <1>15, <1>16, <2>3, InsideFrame
    <3> QED BY <1>18, <2>1, <3>1
  <2> QED BY <2>2, <2>3
<1>20. Whole(file', at, c)
  <2> SUFFICES ASSUME NEW k \in 0 .. Size[c]
               PROVE  at + k \in DOMAIN file' /\ file'[at + k] = <<c, k>>
    BY DEF Whole
  <2>1. Size[c] <= room
    BY <1>9, <1>10, <1>11
  <2>2. at + k \in 1 .. Len(file')
    <3>1. /\ Len(file') \in Nat /\ Len(file') >= at + room
          /\ at >= 1 /\ Size[c] \in Nat
      <4>1. at >= 1 /\ Size[c] \in Nat
        <5>1. at \in 1 .. Len(file) /\ Len(file) \in Nat /\ Size[c] \in Nat
          BY <1>7, <1>8, <1>9
        <5> QED BY ONLY <5>1
      <4> QED BY <1>13, <4>1
    <3> QED BY ONLY <2>1, <3>1, at \in Nat, room \in Nat, k \in 0 .. Size[c]
  <2>3. CASE k = 0
    <3>1. at + k = at /\ at <= at /\ at \in 1 .. Len(file)
      BY <1>8, <2>3
    <3> QED BY <1>8, <1>13, <2>2, <2>3, <3>1
  <2>4. CASE k # 0
    <3>1. k \in 1 .. room /\ k <= Size[c]
      BY <1>9, <2>1, <2>4
    <3> QED BY <1>13, <2>2, <3>1
  <2> QED BY <2>3, <2>4
<1>21. /\ task'[a].step = "length" /\ task'[a].goal = task[a].goal /\ task'[a].slot = task[a].slot
       /\ task'[a].want = task[a].want /\ task'[a].put = task[a].put
       /\ task'[a].who = task[a].who /\ task'[a].size = task[a].size
       /\ \A b \in Actors \ {a} : task'[b] = task[b]
  BY <1>1, <1>3, <1>12 DEF StoreTypeOK, Task
<1>22. StoreTypeOK'
  <2>1. task' \in [Actors -> Task]
    <3>1. task \in [Actors -> Task]
      BY <1>1 DEF StoreTypeOK
    <3>2. [task[a] EXCEPT !.step = "length"] \in Task
      BY <1>3 DEF Task
    <3> QED BY <1>12, <3>1, <3>2
  <2>2. mutex' \in Actors \cup {Nobody}
    BY <1>7, <1>12
  <2> QED BY <1>1, <1>12, <1>13, <1>18, <2>1, <2>2, StoreType
<1>23. LengthRight(own2, a)'
  <2>1. Content(a)' = c /\ PageOf(a)' = p /\ Kept' = Kept
    BY <1>4, <1>12, <1>21 DEF Content, PageOf, Stored, Kept
  <2>2. Inside(file', own2, p, dir'[p].at, Max({Size[c], Kept'})) /\ Whole(file', dir'[p].at, c)
    BY <1>10, <1>17, <1>18, <1>20, <2>1
  <2> QED BY <1>8, <2>1, <2>2 DEF LengthRight
<1>24. Storing(a)'
  BY <1>21 DEF Storing
<1>25. ActorsInv' /\ OwnInv(own2)' /\ CoherenceInv'
  <2>1. UNCHANGED <<disk, exact, mode, cap, cache, view, compile, compileEnd, batch, nextPlane>>
    BY <1>12 DEF writers
  <2>2. ASSUME NEW b \in Actors \ {a}
        PROVE  /\ task'[b] = task[b]
               /\ mutex = b => mutex' = b
               /\ task[b].step = "payload" /\ task[b].appended => Len(file') = Len(file)
    <3>1. ASSUME task[b].step = "payload", task[b].appended PROVE ~task[a].appended
      <4>1. mutex = b /\ a # Main
        BY <1>1, <1>3, <3>1, AppendAlone
      <4>2. TaskRight(a)
        BY <1>1 DEF ActorsInv
      <4> QED BY <1>3, <4>1, <4>2 DEF TaskRight
    <3> QED BY <1>12, <1>13, <1>15, <1>21, <3>1
  <2>3. task'[a].step # "payload"
    BY <1>21
  <2>4. dir'[p].at # 0 => Inside(file', own2, p, dir'[p].at, Reach(dir'[p]))
    BY <1>19
  <2> QED BY <1>1, <1>2, <1>3, <1>4, <1>13, <1>16, <1>18, <1>21, <1>23, <1>24,
             <2>1, <2>2, <2>3, <2>4, StoreKeeps
<1>26. Stores(file, file', c, e.at)
  <2>1. ASSUME NEW i \in 1 .. Len(file), file'[i] # file[i]
        PROVE  \E k \in 0 .. Size[c] : i = e.at + k /\ file'[i] = <<c, k>>
    <3>1. ~(i <= at \/ i > at + room)
      BY <1>13, <2>1
    <3>2. i > at /\ i <= at + room
      BY ONLY <3>1, <1>7, at \in Nat, room \in Nat, i \in 1 .. Len(file)
    <3>3. ~task[a].appended
      <4>1. task[a].appended => at = Len(file)
        BY <1>8
      <4>2. at # Len(file)
        <5>1. Len(file) \in Nat
          BY <1>7
        <5> QED BY ONLY <3>2, <5>1, at \in Nat, i \in 1 .. Len(file)
      <4> QED BY <4>1, <4>2
    <3>4. at = e.at /\ room = Size[c]
      BY <1>8, <1>11, <3>3
    <3>5. PICK k \in 1 .. room : i = at + k
      <4>1. i - at \in 1 .. room /\ i = at + (i - at)
        BY ONLY <3>2, <1>7, at \in Nat, room \in Nat, i \in 1 .. Len(file)
      <4> QED BY <4>1
    <3>6. k <= Size[c] /\ k \in 0 .. Size[c]
      BY <1>9, <3>4, <3>5
    <3> QED BY <1>13, <3>4, <3>5, <3>6
  <2>2. ASSUME NEW i \in 1 .. Len(file'), i > Len(file)
        PROVE  file'[i][1] \in {c, Err}
    <3>1. task[a].appended
      <4> SUFFICES ASSUME ~task[a].appended PROVE FALSE
        OBVIOUS
      <4>1. Len(file') = Len(file)
        BY <1>13, <1>15
      <4> QED BY ONLY <1>7, <2>2, <4>1
    <3>2. at = Len(file)
      BY <1>8, <3>1
    <3>3. Len(file') = at + room
      BY <1>13, <3>2
    <3>4. i - at \in 1 .. room /\ i = at + (i - at)
      BY ONLY <1>7, <2>2, <3>2, <3>3, at \in Nat, room \in Nat, i \in 1 .. Len(file')
    <3> QED BY <1>13, <3>4
  <2> QED BY <2>1, <2>2 DEF Stores
<1>27. StoresOwn(a)
  BY <1>2, <1>4, <1>5, <1>14, <1>16, <1>26 DEF StoresOwn
<1> QED BY <1>14, <1>22, <1>25, <1>27 DEF StoreInv

--------------------
(* One slot takes another page, or another content.                        *)
SlotChange(a, s, x) ==
  /\ DOMAIN cache' = Actors /\ cache'[a] \in [Slots(a) -> Slot]
  /\ cache'[a][s] = x
  /\ \A t \in Slots(a) \ {s} : cache'[a][t] = cache[a][t]
  /\ \A b \in Actors \ {a} : cache'[b] = cache[b]

(* Caches that differ in that slot at most. *)
Alike(a, s, rows) ==
  /\ DOMAIN rows = Actors /\ rows[a] \in [Slots(a) -> Slot]
  /\ \A t \in Slots(a) \ {s} : rows[a][t] = cache[a][t]
  /\ \A b \in Actors \ {a} : rows[b] = cache[b]

LEMMA AlikeSelf == ASSUME StoreTypeOK, NEW a \in Actors, NEW s PROVE Alike(a, s, cache)
BY DEF Alike, StoreTypeOK

LEMMA SlotChanged ==
  ASSUME StoreTypeOK, NEW a \in Actors, NEW s \in Slots(a), NEW x \in Slot,
         NEW rows, Alike(a, s, rows),
         cache' = [rows EXCEPT ![a] = [@ EXCEPT ![s] = x]]
  PROVE  SlotChange(a, s, x)
BY DEF SlotChange, Alike

(* A slot that is made clean. *)
Cleaned(a, s) == [cache EXCEPT ![a][s].dirty = FALSE]

LEMMA CleanFacts ==
  ASSUME StoreTypeOK, NEW a \in Actors, NEW s \in Slots(a)
  PROVE  /\ Alike(a, s, Cleaned(a, s))
         /\ Cleaned(a, s)[a][s].page = cache[a][s].page
         /\ Cleaned(a, s)[a][s].content = cache[a][s].content
         /\ Cleaned(a, s)[a][s].dirty = FALSE
<1>1. DOMAIN cache = Actors /\ cache[a] \in [Slots(a) -> Slot]
  BY DEF StoreTypeOK
<1>2. PICK y \in Slot : y = cache[a][s]
  BY <1>1
<1>3. PICK z \in Slot : z = [y EXCEPT !.dirty = FALSE]
                        /\ z.page = y.page /\ z.content = y.content /\ z.dirty = FALSE
  <2>1. [y EXCEPT !.dirty = FALSE] \in Slot
    BY DEF Slot
  <2> QED BY <2>1 DEF Slot
<1>4. Cleaned(a, s) = [cache EXCEPT ![a] = [cache[a] EXCEPT ![s] = z]]
  BY <1>2, <1>3 DEF Cleaned
<1> QED BY <1>1, <1>2, <1>3, <1>4 DEF Alike

LEMMA SlotType ==
  ASSUME NEW p \in Pages, NEW c \in Values \cup {Err}, NEW d \in BOOLEAN
  PROVE  [page |-> p, content |-> c, dirty |-> d] \in Slot
BY DEF Slot

LEMMA FetchedFacts ==
  ASSUME StoreConstants, StoreTypeOK, NEW a \in Actors, NEW s \in Slots(a), NEW p \in Pages,
         NEW put \in Values \cup {Err},
         NEW rows, Alike(a, s, rows),
         Fetched(a, s, p, put, rows)
  PROVE  \E x \in Slot :
           /\ SlotChange(a, s, x)
           /\ x.dirty => x.content # Err /\ put # Err
           /\ x.content # Err => x.page = p /\ (x.dirty \/ x.content = Decode(file, dir[p]))
           /\ IF x.dirty THEN x.content = put /\ Noted(p, put) ELSE UNCHANGED history
<1>1. PICK c \in Values \cup {Err} : c = Decode(file, dir[p])
  BY DecodeType
<1>2. PICK x : x = IF c = Err THEN Empty
                   ELSE [page |-> p, content |-> IF put = Err THEN c ELSE put, dirty |-> put # Err]
  OBVIOUS
<1>3. cache' = [rows EXCEPT ![a] = [@ EXCEPT ![s] = x]]
  BY <1>1, <1>2 DEF Fetched
<1>4. x \in Slot
  BY <1>2, NoSlotsFacts, SlotType
<1>5. SlotChange(a, s, x)
  BY <1>3, <1>4, SlotChanged
<1>6. IF c = Err \/ put = Err THEN UNCHANGED history ELSE Noted(p, put)
  BY <1>1 DEF Fetched
<1>7. CASE c = Err
  BY <1>2, <1>4, <1>5, <1>6, <1>7, NoSlotsFacts
<1>8. CASE c # Err
  BY <1>1, <1>2, <1>4, <1>5, <1>6, <1>8
<1> QED BY <1>7, <1>8

LEMMA SlotChangeFacts ==
  ASSUME StoreConstants, NEW a \in Actors, NEW s \in Slots(a), NEW x \in Slot, SlotChange(a, s, x)
  PROVE  /\ Dirty(a)' = {t \in Dirty(a) : t # s} \cup (IF x.dirty THEN {s} ELSE {})
         /\ x.dirty \in BOOLEAN
<1>1. Slots(a)' = Slots(a)
  BY DEF Slots
<1>2. \A t \in Slots(a) : cache'[a][t].dirty = IF t = s THEN x.dirty ELSE cache[a][t].dirty
  BY DEF SlotChange
<1>3. x.dirty \in BOOLEAN
  BY DEF Slot
<1>4. Dirty(a)' = {t \in Slots(a) : cache'[a][t].dirty}
  BY <1>1 DEF Dirty
<1>5. \A t : t \in Dirty(a)' <=> t \in {u \in Dirty(a) : u # s} \cup (IF x.dirty THEN {s} ELSE {})
  <2> SUFFICES ASSUME NEW t
               PROVE  t \in Dirty(a)' <=> t \in {u \in Dirty(a) : u # s} \cup (IF x.dirty THEN {s} ELSE {})
    OBVIOUS
  <2>1. CASE t = s
    BY <1>2, <1>3, <1>4, <2>1
  <2>2. CASE t # s
    BY <1>2, <1>4, <2>2 DEF Dirty
  <2> QED BY <2>1, <2>2
<1> QED BY <1>3, <1>5

(* The type of a step in the caches. *)
LEMMA CacheType ==
  ASSUME StoreConstants, StoreTypeOK, NEW a \in Actors, NEW s \in Slots(a), NEW x \in Slot,
         SlotChange(a, s, x),
         UNCHANGED <<disk, exact, mode, refs, cap, view, writers, mutex, file>>,
         dir' \in [Pages -> Entry], task' \in [Actors -> Task]
  PROVE  StoreTypeOK'
<1>1. \A b \in Actors : cache'[b] \in [Slots(b) -> Slot]
  BY DEF SlotChange, StoreTypeOK
<1>2. \A b : Slots(b)' = Slots(b)
  BY DEF Slots
<1> QED BY <1>1, <1>2 DEF StoreTypeOK, writers, SlotChange

LEMMA SlotCoherence ==
  ASSUME StoreTypeOK, CoherenceInv, NEW a \in Actors, NEW s \in Slots(a), NEW x \in Slot,
         SlotChange(a, s, x), UNCHANGED <<mode, view, compile, cap, nextPlane>>,
         \A b \in Actors \ {a} : Reads(b) => \A t \in Slots(b) : cache[b][t].content # Err =>
             Decode(file', dir'[cache[b][t].page]) = Decode(file, dir[cache[b][t].page]),
         \A t \in Slots(a) : cache[a][t].content # Err /\ t # s =>
             Decode(file', dir'[cache[a][t].page]) = Decode(file, dir[cache[a][t].page]),
         x.dirty => x.content # Err,
         x.content # Err => /\ s = SlotOf(a, x.page) /\ Owns(a, x.page)
                            /\ x.dirty \/ x.content = Decode(file', dir'[x.page])
  PROVE  CoherenceInv'
<1>1. ASSUME NEW t \in Slots(a)
      PROVE  /\ cache'[a][t].dirty => cache'[a][t].content # Err
             /\ cache'[a][t].content # Err =>
                   /\ t = SlotOf(a, cache'[a][t].page) /\ Owns(a, cache'[a][t].page)
                   /\ ~cache'[a][t].dirty /\ Reads(a) =>
                         cache'[a][t].content = Decode(file', dir'[cache'[a][t].page])
  <2>1. CASE t = s
    BY <2>1 DEF SlotChange
  <2>2. CASE t # s
    <3>1. cache'[a][t] = cache[a][t]
      BY <2>2 DEF SlotChange
    <3> QED BY <2>2, <3>1 DEF CoherenceInv
  <2> QED BY <2>1, <2>2
<1>2. \A b \in Actors \ {a} :
           /\ cache'[b] = cache[b]
           /\ Reads(b) => \A t \in Slots(b) : cache[b][t].content # Err =>
                 Decode(file', dir'[cache[b][t].page]) = Decode(file, dir[cache[b][t].page])
  BY DEF SlotChange
<1> QED BY <1>1, <1>2, CoherenceStep

LEMMA IdleRight ==
  ASSUME NEW a, task'[a] = Idle
  PROVE  TaskRight(a)' /\ task'[a].step = "none" /\ task'[a].goal = "none" /\ task'[a].next = 0
BY DEF TaskRight, Idle, Storing

LEMMA ReadFacts ==
  ASSUME StoreConstants, StoreTypeOK, ActorsInv, NEW a \in Actors, NEW p \in Pages, MayRead(a, p)
  PROVE  /\ SlotOf(a, p) \in Slots(a) /\ Owns(a, p) /\ task[a] = Idle /\ mode # "closed"
         /\ a = Main => NoViews /\ NoWritable /\ ~Writing
         /\ a # Main => a \in Views /\ view[a] \in {"read", "write"}
         /\ Reads(a)
<1>1. Owns(a, p) /\ task[a] = Idle
  BY DEF MayRead
<1>2. SlotOf(a, p) \in Slots(a)
  BY <1>1, SlotFacts DEF StoreTypeOK
<1>3. CASE a = Main
  BY <1>1, <1>2, <1>3 DEF MayRead, NoViews, NoWritable, Writing, Reads
<1>4. CASE a # Main
  <2>1. a \in Views /\ view[a] \in {"read", "write"}
    BY <1>4 DEF MayRead, Actors
  <2>2. mode # "closed"
    BY <2>1 DEF ActorsInv, ClosedRight, NoViews
  <2> QED BY <1>1, <1>2, <1>4, <2>1, <2>2 DEF Reads
<1> QED BY <1>3, <1>4

(* A step in the caches that leaves the actor idle. *)
LEMMA AccessKeeps ==
  ASSUME StoreConstants, StoreInv, NEW a \in Actors, NEW p \in Pages, MayRead(a, p),
         NEW s, s = SlotOf(a, p), NEW x \in Slot, SlotChange(a, s, x),
         UNCHANGED <<stored, mode, refs, dir, cap, view, mutex, writers, task>>,
         x.dirty => x.content # Err /\ MayPut(a, p),
         x.content # Err => x.page = p /\ (x.dirty \/ x.content = Decode(file, dir[p]))
  PROVE  StoreInv'
<1>1. StoreTypeOK /\ ActorsInv /\ CoherenceInv
  BY DEF StoreInv
<1>2. PICK own \in [Nat -> Pages] : OwnInv(own)
  BY DEF StoreInv
<1>3. /\ s \in Slots(a) /\ Owns(a, p) /\ task[a] = Idle /\ mode # "closed"
      /\ a = Main => NoViews /\ NoWritable /\ ~Writing
      /\ a # Main => a \in Views /\ view[a] \in {"read", "write"}
      /\ Reads(a)
  BY <1>1, ReadFacts
<1>4. /\ UNCHANGED <<file, disk, exact, mode, refs, dir, cap, view, mutex, compile, compileEnd,
                     batch, nextPlane, task>>
      /\ UNCHANGED writers
  BY DEF stored, writers
<1>5. StoreTypeOK'
  <2>1. dir' \in [Pages -> Entry] /\ task' \in [Actors -> Task]
    BY <1>1, <1>4 DEF StoreTypeOK
  <2> QED BY <1>1, <1>3, <1>4, <2>1, CacheType
<1>6. Dirty(a)' = {t \in Dirty(a) : t # s} \cup (IF x.dirty THEN {s} ELSE {})
  BY <1>3, SlotChangeFacts
<1>7. Dirty(a)' # {} => x.dirty \/ Dirty(a) # {}
  BY <1>6
<1>8. ActorsInv'
  <2>1. a = Main => MainMay
    BY <1>1, <1>3, <1>4, <1>7 DEF MayPut, ActorsInv, MainRight, MainMay
  <2>2. a # Main => ViewMay(a)
    <3> SUFFICES ASSUME a # Main PROVE ViewMay(a)
      OBVIOUS
    <3>1. task'[a] = Idle /\ task'[a].goal # "writer"
      BY <1>3, <1>4 DEF Idle
    <3>2. view[a] = "read" => Dirty(a) = {} /\ ~x.dirty
      BY <1>1, <1>3 DEF MayPut, ActorsInv, ViewRight
    <3> QED BY <1>3, <1>7, <3>1, <3>2 DEF ViewMay
  <2>3. \A b \in Actors \ {a} : task'[b] = task[b] /\ cache'[b] = cache[b] /\ (mutex = b => mutex' = b)
    BY <1>4 DEF SlotChange
  <2>4. TaskRight(a)'
    BY <1>3, <1>4, IdleRight
  <2> QED BY <1>1, <1>3, <1>4, <2>1, <2>2, <2>3, <2>4, ActorStep
<1>9. OwnInv(own)'
  <2>1. ASSUME NEW b \in Actors
        PROVE  Undisturbed(b)
    <3>1. CASE b = a
      BY <1>3, <1>4, <3>1 DEF Idle, Undisturbed
    <3>2. CASE b # a
      BY <1>4, <3>2 DEF SlotChange, Undisturbed
    <3> QED BY <3>1, <3>2
  <2>2. Writing' => Writing
    BY <1>4 DEF Writing, NoViews, Compiled, Owns, Planes
  <2> QED BY <1>2, <1>4, <2>1, <2>2, QuietOwn
<1>10. CoherenceInv'
  <2>1. /\ \A q : Decode(file', dir'[q]) = Decode(file, dir[q])
        /\ UNCHANGED <<mode, view, compile, cap, nextPlane>>
    BY <1>4
  <2>2. x.content # Err => /\ s = SlotOf(a, x.page) /\ Owns(a, x.page)
                           /\ x.dirty \/ x.content = Decode(file', dir'[x.page])
    BY <1>3, <2>1
  <2> QED BY <1>1, <1>3, <2>1, <2>2, SlotCoherence
<1> QED BY <1>2, <1>5, <1>8, <1>9, <1>10 DEF StoreInv

(* A step that changes what an actor is in the middle of, or writes directory *)
(* entries to the file.                                                       *)
LEMMA TaskKeeps ==
  ASSUME StoreConstants, StoreInv, NEW a \in Actors,
         UNCHANGED <<file, exact, mode, refs, dir, cap, cache, view, writers>>, mode # "closed",
         task' \in [Actors -> Task], mutex' \in Actors \cup {Nobody}, disk' \in [Pages -> Entry],
         \A p \in Pages : disk'[p] = disk[p] \/ disk'[p] = dir[p],
         \A b \in Actors \ {a} : task'[b] = task[b] /\ (mutex = b => mutex' = b),
         task[a].step # "length", task'[a].step \notin {"payload", "length", "extent"},
         TaskRight(a)',
         a = Main => /\ task'[Main] # Idle => mode = "write" /\ NoWritable
                     /\ compile /\ ~NoViews => task'[Main] = Idle
                     /\ Writing => task'[Main].step \in {"none", "slots", "directory"},
         a # Main => /\ view[a] \in {"read", "write"} /\ task'[a].goal # "writer"
                     /\ view[a] = "read" => task'[a] = Idle
  PROVE  StoreInv'
<1>1. StoreTypeOK /\ ActorsInv /\ CoherenceInv
  BY DEF StoreInv
<1>2. PICK own \in [Nat -> Pages] : OwnInv(own)
  BY DEF StoreInv
<1>3. UNCHANGED <<compile, compileEnd, batch, nextPlane>>
  BY DEF writers
<1>4. StoreTypeOK'
  BY <1>1 DEF StoreTypeOK, writers, Slots
<1>5. Dirty(a)' = Dirty(a) /\ Dirty(Main)' = Dirty(Main)
  BY DEF Dirty, Slots
<1>6. ActorsInv'
  <2>1. a = Main => MainMay
    BY <1>1, <1>5 DEF ActorsInv, MainRight, CompileRight, MainMay
  <2>2. a # Main => ViewMay(a)
    BY <1>1, <1>5 DEF ActorsInv, ViewRight, Actors, ViewMay
  <2>3. \A b \in Actors \ {a} : task'[b] = task[b] /\ cache'[b] = cache[b] /\ (mutex = b => mutex' = b)
    OBVIOUS
  <2> QED BY <1>1, <1>3, <2>1, <2>2, <2>3, ActorStep
<1>7. OwnInv(own)'
  <2>1. ASSUME NEW b \in Actors
        PROVE  Undisturbed(b)
    BY <1>3 DEF Undisturbed
  <2>2. Writing' => Writing
    BY <1>3 DEF Writing, NoViews, Compiled, Owns, Planes
  <2> QED BY <1>2, <1>3, <2>1, <2>2, QuietOwn
<1>8. CoherenceInv'
  <2>1. \A b : Reads(b)' = Reads(b) /\ Slots(b)' = Slots(b)
    BY <1>3 DEF Reads, NoWritable, Writing, NoViews, Compiled, Owns, Planes, Slots
  <2>2. \A b, p : SlotOf(b, p)' = SlotOf(b, p) /\ Owns(b, p)' = Owns(b, p)
    BY DEF SlotOf, HandleSlot, ViewSlot, Owns
  <2> QED BY <1>1, <2>1, <2>2 DEF CoherenceInv, SlotOf, HandleSlot, ViewSlot, Owns
<1> QED BY <1>2, <1>4, <1>6, <1>7, <1>8 DEF StoreInv

LEMMA TaskType ==
  ASSUME StoreTypeOK, NEW a \in Actors, NEW t \in Task, task' = [task EXCEPT ![a] = t]
  PROVE  /\ task' \in [Actors -> Task] /\ task'[a] = t
         /\ \A b \in Actors \ {a} : task'[b] = task[b]
BY DEF StoreTypeOK

LEMMA AccessRight ==
  ASSUME StoreConstants, StoreInv, NEW a \in Actors, NEW p \in Pages, NEW put \in Values \cup {Err},
         Access(a, p, put)
  PROVE  StoreInv'
<1>1. StoreTypeOK /\ ActorsInv /\ CoherenceInv
  BY DEF StoreInv
<1>2. MayRead(a, p) /\ (put # Err => MayPut(a, p))
      /\ UNCHANGED <<stored, mode, refs, dir, cap, view, mutex, writers>>
  BY DEF Access
<1>3. PICK s \in Slots(a) : s = SlotOf(a, p)
  BY <1>1, <1>2, ReadFacts
<1>4. Hit(a, s, p, put) \/ Evict(a, s, p, put) \/ Miss(a, s, p, put)
  BY <1>3 DEF Access
<1>5. CASE Hit(a, s, p, put)
  <2>1. PICK x \in Slot : x = [page |-> p, content |-> put, dirty |-> TRUE]
    BY SlotType
  <2>2. x.page = p /\ x.content = put /\ x.dirty = TRUE /\ put # Err /\ task' = task
    BY <1>5, <2>1 DEF Hit
  <2>3. cache' = [cache EXCEPT ![a] = [@ EXCEPT ![s] = x]]
    BY <1>5, <2>1 DEF Hit
  <2>4. SlotChange(a, s, x)
    <3>1. Alike(a, s, cache)
      BY <1>1, AlikeSelf
    <3> QED BY <1>1, <2>3, <3>1, SlotChanged
  <2> QED BY <1>2, <1>3, <2>2, <2>4, AccessKeeps
<1>6. CASE Miss(a, s, p, put)
  <2>1. PICK x \in Slot :
           /\ SlotChange(a, s, x)
           /\ x.dirty => x.content # Err /\ put # Err
           /\ x.content # Err => x.page = p /\ (x.dirty \/ x.content = Decode(file, dir[p]))
           /\ IF x.dirty THEN x.content = put /\ Noted(p, put) ELSE UNCHANGED history
    <3>1. Alike(a, s, cache)
      BY <1>1, AlikeSelf
    <3>2. Fetched(a, s, p, put, cache)
      BY <1>6 DEF Miss
    <3> QED BY <1>1, <3>1, <3>2, FetchedFacts
  <2>2. task' = task
    BY <1>6 DEF Miss
  <2> QED BY <1>2, <1>3, <2>1, <2>2, AccessKeeps
<1>7. CASE Evict(a, s, p, put)
  <2>1. s \in Dirty(a) /\ cache[a][s].content # Err /\ cache[a][s].page # p
    <3>1. s \in Dirty(a)
      BY <1>7 DEF Evict, Dirty
    <3>2. cache[a][s].content # Err
      BY <1>1, <3>1 DEF CoherenceInv, Dirty
    <3> QED BY <1>7, <3>1, <3>2 DEF Evict, Holds
  <2>2. PICK t \in Task : /\ t = [Idle EXCEPT !.goal = "access", !.step = "block",
                                             !.slot = s, !.want = p, !.put = put]
                          /\ t.goal = "access" /\ t.step = "block" /\ t.slot = s /\ t.want = p
    <3>1. Idle \in Task /\ s \in Nat /\ p \in Nat
      <4>1. s \in Nat
        BY <1>3 DEF Slots
      <4> QED BY <4>1, NoSlotsFacts, PlaneFacts
    <3>2. PICK t : t = [Idle EXCEPT !.goal = "access", !.step = "block",
                                    !.slot = s, !.want = p, !.put = put]
      OBVIOUS
    <3>3. t.goal = "access" /\ t.step = "block" /\ t.slot = s /\ t.want = p
      BY <3>2 DEF Idle
    <3>4. t \in Task
      BY <3>1, <3>2 DEF Task, Idle
    <3> QED BY <3>2, <3>3, <3>4
  <2>3. task' = [task EXCEPT ![a] = t] /\ cache' = cache
    BY <1>7, <2>2 DEF Evict
  <2>4. /\ task' \in [Actors -> Task] /\ task'[a] = t
        /\ \A b \in Actors \ {a} : task'[b] = task[b]
    BY <1>1, <2>3, TaskType
  <2>5. /\ Owns(a, p) /\ task[a] = Idle /\ mode # "closed"
        /\ a = Main => NoViews /\ NoWritable /\ ~Writing
        /\ a # Main => a \in Views /\ view[a] \in {"read", "write"}
    BY <1>1, <1>2, ReadFacts
  <2>6. mode = "write" /\ (a # Main => view[a] = "write")
    BY <1>1, <2>1, DirtyFacts
  <2>7. TaskRight(a)'
    <3>1. Dirty(a)' = Dirty(a) /\ SlotOf(a, p)' = SlotOf(a, p) /\ Owns(a, p)' = Owns(a, p)
      BY <1>2, <2>3 DEF Dirty, Slots, SlotOf, HandleSlot, ViewSlot, Owns
    <3>2. PageOf(a)' # p
      BY <2>1, <2>2, <2>3, <2>4 DEF PageOf, Stored
    <3>3. SlotOf(a, task[a].want)' = s /\ Owns(a, task[a].want)'
      BY <1>3, <2>2, <2>4, <2>5, <3>1 DEF SlotOf, HandleSlot, ViewSlot, Owns
    <3> QED BY <2>1, <2>2, <2>4, <3>1, <3>2, <3>3 DEF TaskRight, Storing, Idle
  <2>8. /\ UNCHANGED <<file, disk, exact, mode, refs, dir, cap, cache, view, mutex>>
        /\ UNCHANGED writers
    BY <1>2, <2>3 DEF stored
  <2>9. mutex' \in Actors \cup {Nobody} /\ disk' \in [Pages -> Entry]
    BY <1>1, <2>8 DEF StoreTypeOK
  <2>10. task[a].step = "none"
    BY <2>5 DEF Idle
  <2> QED BY <2>2, <2>4, <2>5, <2>6, <2>7, <2>8, <2>9, <2>10, TaskKeeps
<1> QED BY <1>4, <1>5, <1>6, <1>7

LEMMA SlotKeeps ==
  ASSUME StoreConstants, StoreTypeOK, ActorsInv, NEW a \in Actors, NEW s \in Slots(a), NEW x \in Slot,
         SlotChange(a, s, x), UNCHANGED <<exact, mode, cap, view, compile, batch, nextPlane, mutex>>,
         mode = "write", a = Main => NoViews /\ ~Writing, a # Main => view[a] = "write",
         \A b \in Actors \ {a} : task'[b] = task[b],
         TaskRight(a)', task'[a].goal # "writer"
  PROVE  ActorsInv'
<1>1. a = Main => MainMay
  BY DEF NoViews, NoWritable, MainMay
<1>2. a # Main => ViewMay(a)
  BY DEF ViewMay
<1>3. \A b \in Actors \ {a} : task'[b] = task[b] /\ cache'[b] = cache[b] /\ (mutex = b => mutex' = b)
  BY DEF SlotChange
<1>4. mode # "closed"
  OBVIOUS
<1> QED BY <1>1, <1>2, <1>3, <1>4, ActorStep

(* A page to be written takes a slot. *)
LEMMA ReplacedTask ==
  ASSUME StoreConstants, NEW a \in Actors, a # Main, NEW s \in Slots(a), NEW x \in Slot,
         SlotChange(a, s, x), x.dirty = TRUE,
         task'[a] = [Idle EXCEPT !.goal = "replaced", !.step = "block", !.slot = s]
  PROVE  TaskRight(a)' /\ task'[a] \in Task /\ task'[a].step = "block" /\ task'[a].goal = "replaced"
<1>1. PICK t : t = [Idle EXCEPT !.goal = "replaced", !.step = "block", !.slot = s]
  OBVIOUS
<1>2. t.goal = "replaced" /\ t.step = "block" /\ t.slot = s
  BY <1>1 DEF Idle
<1>3. t \in Task
  <2>1. Idle \in Task /\ s \in Nat
    <3>1. s \in Nat
      BY DEF Slots
    <3> QED BY <3>1, NoSlotsFacts
  <2> QED BY <1>1, <2>1 DEF Task, Idle
<1>4. s \in Dirty(a)'
  BY SlotChangeFacts
<1>5. TaskRight(a)'
  BY <1>1, <1>2, <1>4 DEF TaskRight, Storing, Idle
<1> QED BY <1>1, <1>2, <1>3, <1>5

LEMMA ReplaceRight ==
  ASSUME StoreConstants, StoreInv, NEW a \in Views, NEW p \in Pages, NEW put \in Values,
         Replace(a, p, put)
  PROVE  StoreInv'
<1>1. StoreTypeOK /\ ActorsInv /\ CoherenceInv /\ a \in Actors
  BY DEF StoreInv, Actors
<1>2. PICK own \in [Nat -> Pages] : OwnInv(own)
  BY DEF StoreInv
<1>3. /\ a # Main /\ MayRead(a, p) /\ view[a] = "write" /\ put # Err
      /\ UNCHANGED <<stored, mode, refs, dir, cap, view, mutex, writers>>
  BY DEF Replace, MayPut, Values, StoreConstants, Draw, Err
<1>4. PICK s \in Slots(a) : s = SlotOf(a, p)
  BY <1>1, <1>3, ReadFacts
<1>5. Owns(a, p) /\ task[a] = Idle /\ mode # "closed" /\ task[a].step = "none"
  <2>1. Owns(a, p) /\ task[a] = Idle /\ mode # "closed"
    BY <1>1, <1>3, ReadFacts
  <2> QED BY <2>1 DEF Idle
<1>6. mode = "write"
  BY <1>3 DEF Replace, ActorsInv, ViewRight, StoreInv
<1>7. /\ UNCHANGED <<file, disk, exact, mode, refs, dir, cap, view, mutex, compile, compileEnd,
                     batch, nextPlane>>
      /\ UNCHANGED writers
  BY <1>3 DEF stored, writers
<1>8. CASE cache[a][s].dirty
  <2>1. s \in Dirty(a)
    BY <1>8 DEF Dirty
  <2>2. PICK t : t = [Idle EXCEPT !.goal = "replace", !.step = "block",
                                  !.slot = s, !.want = p, !.put = put]
    OBVIOUS
  <2>3. t.goal = "replace" /\ t.step = "block" /\ t.slot = s /\ t.want = p /\ t.put = put
    BY <2>2 DEF Idle
  <2>4. t \in Task
    <3>1. Idle \in Task /\ s \in Nat /\ p \in Nat
      <4>1. s \in Nat
        BY <1>4 DEF Slots
      <4> QED BY <4>1, NoSlotsFacts, PlaneFacts
    <3> QED BY <2>2, <3>1 DEF Task, Idle
  <2>5. task' = [task EXCEPT ![a] = t] /\ cache' = cache
    BY <1>4, <1>8, <2>2 DEF Replace
  <2>6. /\ task' \in [Actors -> Task] /\ task'[a] = t
        /\ \A b \in Actors \ {a} : task'[b] = task[b]
    BY <1>1, <2>4, <2>5, TaskType
  <2>7. TaskRight(a)'
    <3>1. Dirty(a)' = Dirty(a) /\ SlotOf(a, p)' = SlotOf(a, p) /\ Owns(a, p)' = Owns(a, p)
      BY <1>7, <2>5 DEF Dirty, Slots, SlotOf, HandleSlot, ViewSlot, Owns
    <3>2. SlotOf(a, task[a].want)' = s /\ Owns(a, task[a].want)'
      BY <1>4, <1>5, <2>3, <2>6, <3>1 DEF SlotOf, HandleSlot, ViewSlot, Owns
    <3> QED BY <1>3, <2>1, <2>3, <2>6, <3>1, <3>2 DEF TaskRight, Storing, Idle
  <2>8. mutex' \in Actors \cup {Nobody} /\ disk' \in [Pages -> Entry]
    BY <1>1, <1>7 DEF StoreTypeOK
  <2> QED BY <1>1, <1>3, <1>5, <1>7, <2>3, <2>5, <2>6, <2>7, <2>8, TaskKeeps
<1>9. CASE ~cache[a][s].dirty
  <2>1. PICK x \in Slot : x = [page |-> p, content |-> put, dirty |-> TRUE]
    BY SlotType
  <2>2. /\ x.page = p /\ x.content = put /\ x.dirty = TRUE
        /\ cache' = [cache EXCEPT ![a] = [@ EXCEPT ![s] = x]]
        /\ task' = [task EXCEPT ![a] = [Idle EXCEPT !.goal = "replaced", !.step = "block", !.slot = s]]
    BY <1>4, <1>9, <2>1 DEF Replace, Replaced
  <2>3. SlotChange(a, s, x)
    <3>1. Alike(a, s, cache)
      BY <1>1, AlikeSelf
    <3> QED BY <1>1, <2>2, <3>1, SlotChanged
  <2>4. /\ task'[a] = [Idle EXCEPT !.goal = "replaced", !.step = "block", !.slot = s]
        /\ \A b \in Actors \ {a} : task'[b] = task[b]
    BY <1>1, <2>2 DEF StoreTypeOK
  <2>5. TaskRight(a)' /\ task'[a] \in Task /\ task'[a].step = "block" /\ task'[a].goal = "replaced"
    BY <1>1, <1>3, <2>2, <2>3, <2>4, ReplacedTask
  <2>6. task' \in [Actors -> Task]
    BY <1>1, <2>2, <2>4, <2>5 DEF StoreTypeOK
  <2>7. StoreTypeOK'
    <3>1. dir' \in [Pages -> Entry]
      BY <1>1, <1>7 DEF StoreTypeOK
    <3> QED BY <1>1, <1>7, <2>3, <2>6, <3>1, CacheType
  <2>8. ActorsInv'
    BY <1>1, <1>3, <1>6, <1>7, <2>3, <2>4, <2>5, SlotKeeps
  <2>9. OwnInv(own)'
    <3>1. ASSUME NEW b \in Actors
          PROVE  Undisturbed(b)
      <4>1. CASE b = a
        BY <1>5, <2>5, <4>1 DEF Undisturbed
      <4>2. CASE b # a
        BY <1>7, <2>3, <2>4, <4>2 DEF SlotChange, Undisturbed
      <4> QED BY <4>1, <4>2
    <3>2. Writing' => Writing
      BY <1>7 DEF Writing, NoViews, Compiled, Owns, Planes
    <3> QED BY <1>2, <1>7, <3>1, <3>2, QuietOwn
  <2>10. CoherenceInv'
    <3>1. \A q : Decode(file', dir'[q]) = Decode(file, dir[q])
      BY <1>7
    <3> QED BY <1>1, <1>3, <1>4, <1>5, <1>7, <2>2, <2>3, <3>1, SlotCoherence
  <2> QED BY <1>2, <2>7, <2>8, <2>9, <2>10 DEF StoreInv
<1> QED BY <1>8, <1>9

(* A page is stored, and the caller goes on with the next dirty slot. *)
LEMMA SlotsTask ==
  ASSUME StoreConstants, ActorsInv, NEW a \in Actors, Storing(a), task'[a].step = "slots",
         UNCHANGED <<cap, view, compile>>, task[a].goal \notin {"access", "replace", "replaced"},
         task'[a].goal = task[a].goal, task'[a].who = task[a].who, task'[a].size = task[a].size
  PROVE  TaskRight(a)' /\ task'[a].goal # "writer"
<1>1. TaskRight(a)
  BY DEF ActorsInv
<1>2. NoViews' = NoViews
  BY DEF NoViews
<1>3. \A o : Overlaps(task[a].who, o)' = Overlaps(task[a].who, o)
  BY DEF Overlaps
<1>4. task[a].step \in {"block", "payload", "length"}
  BY DEF Storing
<1>5. task[a].goal \notin {"none", "writer"}
  BY <1>1, <1>4 DEF TaskRight, Idle
<1>6. /\ (task[a].goal = "create" => /\ ~compile /\ task[a].who \in Views
                                     /\ "write" \in Kinds[task[a].who]
                                     /\ \A o \in Views : Overlaps(task[a].who, o) => view[o] = "none")
      /\ (task[a].goal = "resize" => NoViews /\ task[a].size \in Caps)
      /\ (task[a].goal = "close" /\ a = Main => NoViews)
      /\ (task[a].goal = "close" /\ a # Main => view[a] = "write")
      /\ (task[a].goal \in {"flush", "create", "resize"} => a = Main)
  BY <1>1 DEF TaskRight
<1>7. /\ (task[a].goal = "create" => /\ ~compile' /\ task'[a].who \in Views
                                     /\ "write" \in Kinds[task'[a].who]
                                     /\ \A o \in Views : Overlaps(task'[a].who, o) => view'[o] = "none")
      /\ (task[a].goal = "resize" => NoViews' /\ task'[a].size \in Caps)
      /\ (task[a].goal = "close" /\ a = Main => NoViews')
      /\ (task[a].goal = "close" /\ a # Main => view'[a] = "write")
  BY <1>2, <1>6
<1> QED BY <1>5, <1>6, <1>7 DEF TaskRight, Storing, Overlaps

(* What the slot of a stored page holds next: nothing changes but that it is *)
(* clean, or another page takes it.                                          *)
LEMMA LengthCases ==
  ASSUME StoreConstants, StoreTypeOK, ActorsInv, CoherenceInv, NEW a \in Actors, StoreLength(a),
         NEW s \in Slots(a), s = task[a].slot, NEW p, p = PageOf(a)
  PROVE  \E x \in Slot :
           /\ SlotChange(a, s, x)
           /\ x.dirty => x.content # Err
           /\ x.content # Err =>
                \/ x.page = p /\ x.content = Content(a) /\ x.dirty = FALSE
                \/ /\ x.page \in Pages /\ s = SlotOf(a, x.page) /\ Owns(a, x.page)
                   /\ x.dirty \/ (x.page # p /\ x.content = Decode(file, dir[x.page]))
           /\ IF x.dirty THEN Noted(x.page, x.content) ELSE UNCHANGED history
           /\ TaskRight(a)' /\ task'[a].step \in {"none", "block", "slots"}
           /\ task'[a].goal # "writer" /\ (task'[a].next = 0 \/ task'[a].next = task[a].next)
           /\ task' \in [Actors -> Task] /\ \A b \in Actors \ {a} : task'[b] = task[b]
<1>1. task[a].step = "length" /\ Storing(a) /\ task[a] \in Task /\ TaskRight(a)
  BY DEF StoreLength, Storing, StoreTypeOK, ActorsInv
<1>2. UNCHANGED <<cap, view, compile, mutex>>
  BY DEF StoreLength, writers
<1>3. PICK rows : rows = Cleaned(a, s)
  OBVIOUS
<1>4. /\ Alike(a, s, rows) /\ rows[a][s].page = cache[a][s].page
      /\ rows[a][s].content = cache[a][s].content /\ rows[a][s].dirty = FALSE
  BY <1>3, CleanFacts
<1>5. task[a].goal \in {"access", "replace"} =>
        task[a].want \in Pages /\ Owns(a, task[a].want) /\ SlotOf(a, task[a].want) = s
  BY <1>1 DEF TaskRight
<1>6. Idle \in Task /\ task[a].put \in Values \cup {Err}
  BY <1>1, NoSlotsFacts DEF Task
<1>7. CASE task[a].goal = "access"
  <2>1. /\ Fetched(a, s, task[a].want, task[a].put, rows) /\ task' = [task EXCEPT ![a] = Idle]
    BY <1>3, <1>7 DEF StoreLength, Cleaned
  <2>2. /\ task' \in [Actors -> Task] /\ task'[a] = Idle
        /\ \A b \in Actors \ {a} : task'[b] = task[b]
    BY <1>6, <2>1, TaskType
  <2>3. PICK q \in Pages : q = task[a].want
    BY <1>5, <1>7
  <2>4. PICK x \in Slot :
           /\ SlotChange(a, s, x)
           /\ x.dirty => x.content # Err /\ task[a].put # Err
           /\ x.content # Err => x.page = q /\ (x.dirty \/ x.content = Decode(file, dir[q]))
           /\ IF x.dirty THEN x.content = task[a].put /\ Noted(q, task[a].put)
              ELSE UNCHANGED history
    BY <1>4, <1>6, <2>1, <2>3, FetchedFacts
  <2>5. TaskRight(a)' /\ task'[a].step = "none" /\ task'[a].goal = "none" /\ task'[a].next = 0
    BY <2>2, IdleRight
  <2>6. q # p /\ s = SlotOf(a, q) /\ Owns(a, q)
    BY <1>1, <1>5, <1>7, <2>3 DEF TaskRight
  <2> QED BY <2>2, <2>4, <2>5, <2>6
<1>8. CASE task[a].goal = "replace"
  <2>1. PICK q \in Pages, put \in Values : q = task[a].want /\ put = task[a].put
    BY <1>1, <1>5, <1>8 DEF TaskRight
  <2>2. PICK x \in Slot : x = [page |-> q, content |-> put, dirty |-> TRUE]
    BY SlotType
  <2>3. /\ x.page = q /\ x.content = put /\ x.dirty = TRUE /\ put # Err
        /\ cache' = [cache EXCEPT ![a] = [@ EXCEPT ![s] = x]] /\ Noted(q, put)
        /\ task' = [task EXCEPT ![a] = [Idle EXCEPT !.goal = "replaced", !.step = "block", !.slot = s]]
    BY <1>8, <2>1, <2>2 DEF StoreLength, Replaced, Values, StoreConstants, Draw, Err
  <2>4. SlotChange(a, s, x)
    <3>1. Alike(a, s, cache)
      BY AlikeSelf
    <3> QED BY <2>3, <3>1, SlotChanged
  <2>5. /\ task'[a] = [Idle EXCEPT !.goal = "replaced", !.step = "block", !.slot = s]
        /\ \A b \in Actors \ {a} : task'[b] = task[b]
    BY <2>3 DEF StoreTypeOK
  <2>6. a # Main
    BY <1>1, <1>8 DEF TaskRight
  <2>7. TaskRight(a)' /\ task'[a] \in Task /\ task'[a].step = "block" /\ task'[a].goal = "replaced"
    BY <2>3, <2>4, <2>5, <2>6, ReplacedTask
  <2>8. task' \in [Actors -> Task]
    BY <2>3, <2>5, <2>7 DEF StoreTypeOK
  <2>9. s = SlotOf(a, q) /\ Owns(a, q) /\ task'[a].next = 0
    BY <1>5, <1>8, <2>1, <2>5 DEF Idle
  <2> QED BY <2>3, <2>4, <2>5, <2>7, <2>8, <2>9
<1>9. CASE task[a].goal \notin {"access", "replace"}
  <2>1. cache' = rows /\ UNCHANGED history
    BY <1>3, <1>9 DEF StoreLength, Cleaned
  <2>2. PICK x \in Slot : x = rows[a][s]
    BY <1>4 DEF Alike
  <2>3. SlotChange(a, s, x)
    BY <1>4, <2>1, <2>2 DEF SlotChange, Alike
  <2>4. x.page = p /\ x.content = Content(a) /\ x.dirty = FALSE
    BY <1>4, <2>2 DEF PageOf, Content, Stored
  <2>5. /\ task' \in [Actors -> Task] /\ \A b \in Actors \ {a} : task'[b] = task[b]
        /\ TaskRight(a)' /\ task'[a].step \in {"none", "block", "slots"} /\ task'[a].goal # "writer"
        /\ (task'[a].next = 0 \/ task'[a].next = task[a].next)
    <3>1. CASE task[a].goal = "replaced"
      <4>1. task' = [task EXCEPT ![a] = Idle]
        BY <3>1 DEF StoreLength
      <4>2. /\ task' \in [Actors -> Task] /\ task'[a] = Idle
            /\ \A b \in Actors \ {a} : task'[b] = task[b]
        BY <1>6, <4>1, TaskType
      <4> QED BY <4>2, IdleRight
    <3>2. CASE task[a].goal # "replaced"
      <4>1. task' = [task EXCEPT ![a].step = "slots"]
        BY <1>9, <3>2 DEF StoreLength, Advance
      <4>2. PICK t : t = [task[a] EXCEPT !.step = "slots"]
        OBVIOUS
      <4>3. /\ t \in Task /\ t.step = "slots" /\ t.goal = task[a].goal /\ t.who = task[a].who
            /\ t.size = task[a].size /\ t.next = task[a].next
        BY <1>1, <4>2 DEF Task
      <4>4. task' = [task EXCEPT ![a] = t]
        BY <4>1, <4>2
      <4>5. /\ task' \in [Actors -> Task] /\ task'[a] = t
            /\ \A b \in Actors \ {a} : task'[b] = task[b]
        BY <4>3, <4>4, TaskType
      <4>6. TaskRight(a)' /\ task'[a].goal # "writer"
        BY <1>1, <1>2, <1>9, <3>2, <4>3, <4>5, SlotsTask
      <4> QED BY <4>3, <4>5, <4>6
    <3> QED BY <3>1, <3>2
  <2> QED BY <2>1, <2>3, <2>4, <2>5
<1> QED BY <1>7, <1>8, <1>9


LEMMA StoreLengthRight ==
  ASSUME StoreConstants, StoreInv, NEW a \in Actors, StoreLength(a)
  PROVE  StoreInv'
<1>1. StoreTypeOK /\ ActorsInv /\ CoherenceInv
  BY DEF StoreInv
<1>2. PICK own \in [Nat -> Pages] : OwnInv(own)
  BY DEF StoreInv
<1>3. Storing(a) /\ task[a].step = "length"
  BY DEF StoreLength, Storing
<1>4. /\ PageOf(a) \in Pages /\ Content(a) \in Values /\ task[a].slot \in Slots(a) /\ mode = "write"
      /\ ~Writing /\ Owns(a, PageOf(a)) /\ task[a].slot = SlotOf(a, PageOf(a))
      /\ (a = Main => NoViews) /\ (a # Main => view[a] = "write")
  BY <1>1, <1>3, StoringFacts
<1>5. PICK p \in Pages, c \in Values, s \in Slots(a) : p = PageOf(a) /\ c = Content(a) /\ s = task[a].slot
  BY <1>4
<1>6. PICK x \in Slot :
           /\ SlotChange(a, s, x)
           /\ x.dirty => x.content # Err
           /\ x.content # Err =>
                \/ x.page = p /\ x.content = Content(a) /\ x.dirty = FALSE
                \/ /\ x.page \in Pages /\ s = SlotOf(a, x.page) /\ Owns(a, x.page)
                   /\ x.dirty \/ (x.page # p /\ x.content = Decode(file, dir[x.page]))
           /\ IF x.dirty THEN Noted(x.page, x.content) ELSE UNCHANGED history
           /\ TaskRight(a)' /\ task'[a].step \in {"none", "block", "slots"}
           /\ task'[a].goal # "writer" /\ (task'[a].next = 0 \/ task'[a].next = task[a].next)
           /\ task' \in [Actors -> Task] /\ \A b \in Actors \ {a} : task'[b] = task[b]
  BY <1>1, <1>5, LengthCases
<1>7. /\ dir' = [dir EXCEPT ![p].len = IF c = Draw THEN 0 ELSE Size[c]]
      /\ UNCHANGED <<file, disk, exact, mode, refs, cap, view, mutex, compile, compileEnd, batch, nextPlane>>
      /\ UNCHANGED writers
  BY <1>5 DEF StoreLength, PageOf, Content, stored, writers
<1>8. PICK e \in Entry : e = dir[p]
  BY <1>1 DEF StoreTypeOK
<1>9. PICK n \in Nat : n = (IF c = Draw THEN 0 ELSE Size[c]) /\ (c # Draw => n # 0 /\ c \in Contents)
  <2>1. c # Draw => c \in Contents /\ Size[c] \in Nat \ {0}
    BY DEF Values, StoreConstants
  <2> QED BY <2>1
<1>10. PICK e2 \in Entry : e2 = [e EXCEPT !.len = n] /\ e2.at = e.at /\ e2.len = n
  <2>1. [e EXCEPT !.len = n] \in Entry
    BY DEF Entry
  <2> QED BY <2>1 DEF Entry
<1>11. dir' \in [Pages -> Entry] /\ dir'[p] = e2 /\ \A q \in Pages \ {p} : dir'[q] = dir[q]
  <2>1. dir \in [Pages -> Entry]
    BY <1>1 DEF StoreTypeOK
  <2>2. dir' = [dir EXCEPT ![p] = e2]
    BY <1>7, <1>8, <1>9, <1>10
  <2> QED BY <2>1, <2>2
<1>12. IF c = Draw THEN e.at = 0
       ELSE Inside(file, own, p, e.at, Max({Size[c], Kept})) /\ Whole(file, e.at, c)
  BY <1>2, <1>3, <1>5, <1>8 DEF OwnInv, StoresRight, LengthRight
<1>13. e2.at # 0 => Inside(file', own, p, e2.at, Reach(e2)) /\ c # Draw
  BY <1>7, <1>9, <1>10, <1>12 DEF Reach
<1>14. e2.at = 0 <=> e2.len = 0
  BY <1>9, <1>10, <1>12 DEF Inside
<1>15. file \in Seq(Cell) /\ file' \in Seq(Cell) /\ Len(file) \in Nat
  BY <1>1, <1>7 DEF StoreTypeOK
<1>16. WritesOnly(file, file', own, own, p)
  BY <1>7, <1>15 DEF WritesOnly
<1>17. StoreTypeOK'
  BY <1>1, <1>6, <1>7, <1>11, CacheType
<1>18. ActorsInv'
  BY <1>1, <1>4, <1>6, <1>7, SlotKeeps
<1>19. \A b \in Actors \ {a} : cache'[b] = cache[b]
  BY <1>6 DEF SlotChange
<1>20. OwnInv(own)'
  <2>1. task'[a].step \notin {"extent", "payload", "length"}
    BY <1>6
  <2>2. UNCHANGED <<disk, exact, view, compile, compileEnd, nextPlane, batch>>
    BY <1>7
  <2>3. \A b \in Actors \ {a} :
           /\ task'[b] = task[b] /\ cache'[b] = cache[b]
           /\ task[b].step = "payload" /\ task[b].appended => Len(file') = Len(file)
    BY <1>6, <1>7, <1>19
  <2>4. /\ dir'[p].at # 0 => Inside(file', own, p, dir'[p].at, Reach(dir'[p]))
        /\ dir'[p].at = 0 <=> dir'[p].len = 0
    BY <1>11, <1>13, <1>14
  <2> QED BY <1>1, <1>2, <1>3, <1>5, <1>11, <1>15, <1>16, <2>1, <2>2, <2>3, <2>4, OwnStep
<1>21. /\ \A q \in Pages \ {p} : Decode(file', dir'[q]) = Decode(file, dir[q])
       /\ \A b \in Actors \ {a} : Reads(b) => \A t \in Slots(b) : cache[b][t].content # Err =>
             Decode(file', dir'[cache[b][t].page]) = Decode(file, dir[cache[b][t].page])
       /\ \A t \in Slots(a) : cache[a][t].content # Err /\ t # s =>
             Decode(file', dir'[cache[a][t].page]) = Decode(file, dir[cache[a][t].page])
  BY <1>1, <1>2, <1>3, <1>5, <1>7, <1>11, <1>15, <1>16, OthersRead
<1>22. Decode(file', dir'[p]) = c
  <2>1. CASE c = Draw
    BY <1>10, <1>11, <1>12, <2>1 DEF Decode
  <2>2. CASE c # Draw
    <3>1. Whole(file, e2.at, c) /\ e2.at # 0 /\ Size[c] = e2.len /\ c \in Contents
      BY <1>9, <1>10, <1>12, <2>2 DEF Inside
    <3>2. Decode(file, e2) = c
      BY <3>1, DecodeWhole
    <3> QED BY <1>7, <1>11, <3>2
  <2> QED BY <2>1, <2>2
<1>23. x.content # Err => /\ s = SlotOf(a, x.page) /\ Owns(a, x.page)
                          /\ x.dirty \/ x.content = Decode(file', dir'[x.page])
  BY <1>4, <1>5, <1>6, <1>21, <1>22
<1>24. CoherenceInv'
  <2>1. UNCHANGED <<mode, view, compile, cap, nextPlane>> /\ SlotChange(a, s, x)
        /\ (x.dirty => x.content # Err)
    BY <1>6, <1>7
  <2> QED BY <1>1, <1>21, <1>23, <2>1, SlotCoherence
<1> QED BY <1>2, <1>17, <1>18, <1>20, <1>24 DEF StoreInv

--------------------
(* Flushing.                                                               *)

(* What an actor that flushes is in the middle of. *)
LEMMA FlushFacts ==
  ASSUME StoreConstants, StoreInv, NEW a \in Actors, task[a].step \in {"slots", "directory"}
  PROVE  /\ task[a] \in Task /\ task[a] # Idle
         /\ task[a].goal \in {"flush", "close", "create", "resize"}
         /\ mode = "write" /\ ~Storing(a)
         /\ a = Main => NoWritable /\ (compile => NoViews)
         /\ a # Main => a \in Views /\ view[a] = "write" /\ task[a].goal = "close"
<1>1. StoreTypeOK /\ ActorsInv /\ TaskRight(a)
  BY DEF StoreInv, ActorsInv
<1>2. task[a] \in Task
  BY <1>1 DEF StoreTypeOK
<1>3. ~Storing(a) /\ task[a] # Idle
  BY DEF Storing, Idle
<1>4. task[a].goal \in {"flush", "close", "create", "resize"}
  <2>1. task[a].goal \notin {"access", "replace", "replaced", "writer", "none"}
    BY <1>1, <1>3 DEF TaskRight
  <2> QED BY <1>2, <2>1 DEF Task
<1>5. CASE a = Main
  BY <1>1, <1>2, <1>3, <1>4, <1>5 DEF ActorsInv, MainRight, CompileRight
<1>6. CASE a # Main
  <2>1. task[a].goal = "close" /\ view[a] = "write" /\ a \in Views
    BY <1>1, <1>4, <1>6 DEF TaskRight, Actors
  <2>2. mode = "write"
    BY <1>1, <2>1 DEF ActorsInv, ViewRight
  <2> QED BY <1>2, <1>3, <1>4, <1>6, <2>1, <2>2
<1> QED BY <1>5, <1>6

(* A flush goes on to a page, or to the directory. *)
LEMMA FlushGoes ==
  ASSUME StoreConstants, StoreInv, NEW a \in Actors, task[a].step \in {"slots", "directory"},
         UNCHANGED <<file, exact, mode, refs, dir, cap, cache, view, writers>>,
         mutex' \in Actors \cup {Nobody}, disk' \in [Pages -> Entry],
         \A p \in Pages : disk'[p] = disk[p] \/ disk'[p] = dir[p],
         \A b \in Actors \ {a} : mutex = b => mutex' = b,
         NEW t \in Task, task' = [task EXCEPT ![a] = t],
         t.goal = task[a].goal, t.who = task[a].who, t.size = task[a].size,
         \/ t.step = "block" /\ t.slot \in Dirty(a)
         \/ t.step = "directory" /\ Dirty(a) = {} /\ (a # Main => mutex' = a)
  PROVE  StoreInv'
<1>1. StoreTypeOK /\ ActorsInv /\ TaskRight(a)
  BY DEF StoreInv, ActorsInv
<1>2. /\ task' \in [Actors -> Task] /\ task'[a] = t
      /\ \A b \in Actors \ {a} : task'[b] = task[b]
  BY <1>1, TaskType
<1>3. /\ task[a].goal \in {"flush", "close", "create", "resize"} /\ task[a] # Idle
      /\ mode = "write"
      /\ a = Main => NoWritable /\ (compile => NoViews)
      /\ a # Main => a \in Views /\ view[a] = "write" /\ task[a].goal = "close"
  BY FlushFacts
<1>4. compile' = compile /\ Dirty(a)' = Dirty(a) /\ NoViews' = NoViews
  BY DEF writers, Dirty, Slots, NoViews
<1>5. TaskRight(a)'
  <2>1. /\ (task[a].goal = "create" => /\ ~compile /\ task[a].who \in Views
                                       /\ "write" \in Kinds[task[a].who]
                                       /\ \A o \in Views : Overlaps(task[a].who, o) => view[o] = "none")
        /\ (task[a].goal = "resize" => NoViews /\ task[a].size \in Caps)
        /\ (task[a].goal = "close" /\ a = Main => NoViews)
        /\ (task[a].goal = "close" /\ a # Main => view[a] = "write")
        /\ (task[a].goal \in {"flush", "create", "resize"} => a = Main)
    BY <1>1 DEF TaskRight
  <2>2. /\ (task[a].goal = "create" => /\ ~compile' /\ task'[a].who \in Views
                                       /\ "write" \in Kinds[task'[a].who]
                                       /\ \A o \in Views : Overlaps(task'[a].who, o) => view'[o] = "none")
        /\ (task[a].goal = "resize" => NoViews' /\ task'[a].size \in Caps)
        /\ (task[a].goal = "close" /\ a = Main => NoViews')
        /\ (task[a].goal = "close" /\ a # Main => view'[a] = "write")
    BY <1>2, <1>4, <2>1
  <2>3. task'[a].goal = task[a].goal
    BY <1>2
  <2>4. \/ task'[a].step = "block" /\ task'[a].slot \in Dirty(a)'
        \/ task'[a].step = "directory" /\ Dirty(a)' = {} /\ (a # Main => mutex' = a)
    BY <1>2, <1>4
  <2> QED BY <1>3, <2>1, <2>2, <2>3, <2>4 DEF TaskRight, Storing, Overlaps
<1>6. a = Main => /\ task'[Main] # Idle => mode = "write" /\ NoWritable
                  /\ compile /\ ~NoViews => task'[Main] = Idle
                  /\ Writing => task'[Main].step \in {"none", "slots", "directory"}
  <2> SUFFICES ASSUME a = Main, Writing, t.step = "block" PROVE FALSE
    BY <1>2, <1>3
  <2>1. cache[Main] = NoSlots(Main) /\ t.slot \in Slots(Main) /\ cache[Main][t.slot].dirty
    BY <1>1 DEF ActorsInv, CompileRight, Dirty
  <2>2. \A s \in Slots(Main) : NoSlots(Main)[s].dirty = FALSE
    BY ONLY StoreConstants, NoSlotsFacts
  <2> QED BY <2>1, <2>2
<1>7. a # Main => /\ view[a] \in {"read", "write"} /\ task'[a].goal # "writer"
                  /\ view[a] = "read" => task'[a] = Idle
  BY <1>2, <1>3
<1>8. task[a].step # "length" /\ task'[a].step \notin {"payload", "length", "extent"} /\ mode # "closed"
  BY <1>2, <1>3
<1> QED BY <1>2, <1>5, <1>6, <1>7, <1>8, TaskKeeps

LEMMA FlushSlotRight ==
  ASSUME StoreConstants, StoreInv, NEW a \in Actors, FlushSlot(a)
  PROVE  StoreInv'
<1>1. StoreTypeOK
  BY DEF StoreInv
<1>2. Min(Dirty(a)) \in Dirty(a) /\ Min(Dirty(a)) \in Nat
  <2>1. Dirty(a) \in SUBSET Nat /\ Dirty(a) # {}
    BY DEF FlushSlot, Dirty, Slots
  <2>2. Min(Dirty(a)) \in Dirty(a)
    BY <2>1, LeastFacts
  <2> QED BY <2>1, <2>2
<1>3. PICK m \in Dirty(a) : m = Min(Dirty(a)) /\ m \in Nat
  BY <1>2
<1>4. PICK u \in Task : u = task[a]
  BY <1>1 DEF StoreTypeOK
<1>5. PICK t \in Task : /\ t = [u EXCEPT !.step = "block", !.slot = m]
                        /\ t.step = "block" /\ t.slot = m
                        /\ t.goal = u.goal /\ t.who = u.who /\ t.size = u.size
  <2>1. [u EXCEPT !.step = "block", !.slot = m] \in Task
    BY <1>3 DEF Task
  <2> QED BY <2>1 DEF Task
<1>6. task' = [task EXCEPT ![a] = t]
  BY <1>3, <1>4, <1>5 DEF FlushSlot
<1>7. /\ UNCHANGED <<file, disk, exact, mode, refs, dir, cap, cache, view, mutex>>
      /\ UNCHANGED writers
  BY DEF FlushSlot, stored
<1>8. mutex' \in Actors \cup {Nobody} /\ disk' \in [Pages -> Entry]
  BY <1>1, <1>7 DEF StoreTypeOK
<1>9. task[a].step \in {"slots", "directory"}
  BY DEF FlushSlot
<1> QED BY <1>3, <1>4, <1>5, <1>6, <1>7, <1>8, <1>9, FlushGoes

(* A flush begins. *)
LEMMA FlushingRight ==
  ASSUME StoreConstants, StoreInv, NEW a \in Actors, task[a] = Idle, mode = "write",
         NEW goal \in {"flush", "close", "create", "resize"}, NEW who \in Actors, NEW size \in Nat,
         Flushing(a, goal, who, size),
         UNCHANGED <<stored, mode, refs, dir, cap, cache, view, mutex, writers>>,
         a = Main => NoWritable /\ (compile => NoViews),
         a # Main => view[a] = "write" /\ goal = "close",
         goal = "create" => /\ ~compile /\ who \in Views /\ "write" \in Kinds[who]
                            /\ \A o \in Views : Overlaps(who, o) => view[o] = "none",
         goal = "resize" => NoViews /\ size \in Caps,
         goal = "close" /\ a = Main => NoViews
  PROVE  StoreInv'
<1>1. StoreTypeOK /\ Idle \in Task
  BY NoSlotsFacts DEF StoreInv
<1>2. PICK t : t = [Idle EXCEPT !.goal = goal, !.step = "slots", !.who = who, !.size = size]
  OBVIOUS
<1>3. t.goal = goal /\ t.step = "slots" /\ t.who = who /\ t.size = size
  BY <1>2 DEF Idle
<1>4. t \in Task
  BY <1>1, <1>2 DEF Task, Idle
<1>5. task' = [task EXCEPT ![a] = t]
  BY <1>2 DEF Flushing
<1>6. /\ task' \in [Actors -> Task] /\ task'[a] = t
      /\ \A b \in Actors \ {a} : task'[b] = task[b]
  BY <1>1, <1>4, <1>5, TaskType
<1>7. /\ UNCHANGED <<file, disk, exact, mode, refs, dir, cap, cache, view, mutex, compile>>
      /\ UNCHANGED writers
  BY DEF stored, writers
<1>8. NoViews' = NoViews
  BY DEF NoViews
<1>9. TaskRight(a)'
  <2>1. /\ goal = "create" => /\ ~compile' /\ who \in Views /\ "write" \in Kinds[who]
                              /\ \A o \in Views : Overlaps(who, o) => view'[o] = "none"
        /\ goal = "resize" => NoViews' /\ size \in Caps
        /\ goal = "close" /\ a = Main => NoViews'
        /\ goal = "close" /\ a # Main => view'[a] = "write"
    BY <1>7, <1>8
  <2>2. task'[a].goal = goal /\ task'[a].step = "slots" /\ task'[a].who = who /\ task'[a].size = size
    BY <1>3, <1>6
  <2> QED BY <2>1, <2>2 DEF TaskRight, Storing, Overlaps
<1>10. a = Main => /\ task'[Main] # Idle => mode = "write" /\ NoWritable
                   /\ compile /\ ~NoViews => task'[Main] = Idle
                   /\ Writing => task'[Main].step \in {"none", "slots", "directory"}
  BY <1>3, <1>6
<1>11. a # Main => /\ view[a] \in {"read", "write"} /\ task'[a].goal # "writer"
                   /\ view[a] = "read" => task'[a] = Idle
  BY <1>3, <1>6
<1>12. task[a].step # "length" /\ task'[a].step \notin {"payload", "length", "extent"} /\ mode # "closed"
  BY <1>3, <1>6 DEF Idle
<1>13. mutex' \in Actors \cup {Nobody} /\ disk' \in [Pages -> Entry]
  BY <1>1, <1>7 DEF StoreTypeOK
<1> QED BY <1>6, <1>7, <1>9, <1>10, <1>11, <1>12, <1>13, TaskKeeps

LEMMA FlushHandleRight ==
  ASSUME StoreConstants, StoreInv, FlushHandle
  PROVE  StoreInv'
<1>1. Main \in Actors /\ 0 \in Nat
  BY DEF Actors
<1>2. /\ task[Main] = Idle /\ mode = "write" /\ NoWritable /\ (compile => NoViews)
      /\ Flushing(Main, "flush", Main, 0)
      /\ UNCHANGED <<stored, mode, refs, dir, cap, cache, view, mutex, writers>>
  BY DEF FlushHandle
<1> QED BY <1>1, <1>2, FlushingRight

--------------------
(* A closed file.                                                          *)

(* Nobody has anything to do with the file. *)
NothingOpen ==
  /\ mode = "closed" /\ dir = NoPages /\ ~compile
  /\ \A a \in Actors : task[a] = Idle /\ cache[a] = NoSlots(a)
  /\ \A v \in Views : view[v] = "none" /\ batch[v] = <<>> /\ nextPlane[v] <= Planes(v)

LEMMA PlanesType ==
  ASSUME StoreConstants, NEW v \in Views
  PROVE  Planes(v) \in Nat \ {0} /\ v # Main /\ v \in Actors
<1>1. /\ First[v] \in Nat /\ End[v] \in Nat /\ First[v] < End[v] /\ Sides \in {1, 2}
      /\ v # Main
  BY DEF StoreConstants
<1>2. End[v] - First[v] \in Nat \ {0}
  BY <1>1
<1>3. CASE Sides = 1
  BY <1>1, <1>2, <1>3 DEF Planes, Actors
<1>4. CASE Sides = 2
  BY <1>1, <1>2, <1>4 DEF Planes, Actors
<1> QED BY <1>1, <1>3, <1>4

LEMMA NothingOpenRight == StoreConstants /\ NothingOpen => ActorsInv /\ CoherenceInv
<1> SUFFICES ASSUME StoreConstants, NothingOpen PROVE ActorsInv /\ CoherenceInv
  OBVIOUS
<1>1. ASSUME NEW a \in Actors
      PROVE  /\ task[a] = Idle /\ cache[a] = NoSlots(a) /\ Dirty(a) = {}
             /\ \A s \in Slots(a) : cache[a][s].content = Err /\ cache[a][s].dirty = FALSE
  <2>1. task[a] = Idle /\ cache[a] = NoSlots(a)
    BY DEF NothingOpen
  <2>2. \A s \in Slots(a) : NoSlots(a)[s] = Empty
    BY NoSlotsFacts
  <2>3. \A s \in Slots(a) : cache[a][s].content = Err /\ cache[a][s].dirty = FALSE
    BY <2>1, <2>2 DEF Empty
  <2> QED BY <2>1, <2>3 DEF Dirty
<1>2. \A a \in Actors : TaskRight(a)
  <2>1. Idle.goal = "none" /\ Idle.step = "none"
    BY DEF Idle
  <2> QED BY <1>1, <2>1 DEF TaskRight, Storing
<1>3. NoViews /\ ~Writing /\ mode = "closed" /\ dir = NoPages /\ ~compile
  BY DEF NoViews, NothingOpen, Writing
<1>4. \A v \in Views : ViewRight(v)
  <2> SUFFICES ASSUME NEW v \in Views PROVE ViewRight(v)
    OBVIOUS
  <2>1. /\ view[v] = "none" /\ batch[v] = <<>> /\ nextPlane[v] <= Planes(v)
        /\ v \in Actors
    BY PlanesType DEF NothingOpen
  <2>2. task[v] = Idle /\ cache[v] = NoSlots(v) /\ Dirty(v) = {}
    BY <1>1, <2>1
  <2> QED BY <2>1, <2>2 DEF ViewRight, Idle
<1>5. ViewsApart
  BY <1>3 DEF ViewsApart, NoViews
<1>6. Main \in Actors
  BY DEF Actors
<1>7. MainRight /\ CompileRight /\ ClosedRight
  BY <1>1, <1>3, <1>6 DEF MainRight, CompileRight, ClosedRight
<1>8. CoherenceInv
  BY <1>1 DEF CoherenceInv
<1> QED BY <1>2, <1>4, <1>5, <1>7, <1>8 DEF ActorsInv

(* The same of the next state. *)
LEMMA NothingOpenNext == StoreConstants /\ NothingOpen' => ActorsInv' /\ CoherenceInv'
<1>1. StoreConstants /\ NothingOpen => ActorsInv /\ CoherenceInv
  BY NothingOpenRight
<1>2. StoreConstants => StoreConstants'
  BY DEF StoreConstants, Values, Actors, Pages
<1> QED BY <1>1, <1>2, PTL

(* Whatever was going on, what the directory of the file leads to stays. *)
LEMMA DroppedRight ==
  ASSUME StoreConstants, StoreInv, NEW f, NEW d, Dropped(f, d), UNCHANGED <<file, exact, cap>>,
         disk' \in [Pages -> Entry], \A p \in Pages : disk'[p] = disk[p] \/ disk'[p] = dir[p]
  PROVE  StoreInv'
<1>1. StoreTypeOK
  BY DEF StoreInv
<1>2. PICK own \in [Nat -> Pages] : OwnInv(own)
  BY DEF StoreInv
<1>3. NothingOpen'
  <2>1. \A v \in Views : 0 <= Planes(v)
    BY PlanesType
  <2>2. \A v \in Views : nextPlane'[v] = 0 /\ Planes(v)' = Planes(v)
    BY DEF Dropped, Planes
  <2> QED BY <2>1, <2>2 DEF NothingOpen, Dropped, NoSlots, Slots
<1>4. ActorsInv' /\ CoherenceInv'
  BY <1>3, NothingOpenNext
<1>5. NoPages \in [Pages -> Entry] /\ \A p \in Pages : NoPages[p] = NoBlock
  BY NoSlotsFacts DEF NoPages
<1>6. StoreTypeOK'
  <2>1. file' \in Seq(Cell) /\ exact' \in BOOLEAN /\ cap' \in Caps
    BY <1>1 DEF StoreTypeOK
  <2>2. /\ mode' \in {"closed", "read", "write"} /\ refs' \in Nat /\ dir' \in [Pages -> Entry]
        /\ view' \in [Views -> {"none", "read", "write", "writer"}]
        /\ mutex' \in Actors \cup {Nobody} /\ compile' \in BOOLEAN /\ compileEnd' \in Nat
        /\ nextPlane' \in [Views -> Nat]
    BY <1>5 DEF Dropped
  <2>3. task' \in [Actors -> Task]
    <3>1. Idle \in Task
      BY NoSlotsFacts
    <3> QED BY <3>1 DEF Dropped
  <2>4. DOMAIN cache' = Actors /\ \A a \in Actors : cache'[a] \in [Slots(a)' -> Slot]
    <3>1. \A a \in Actors : NoSlots(a) \in [Slots(a) -> Slot]
      BY NoSlotsFacts
    <3> QED BY <3>1 DEF Dropped, Slots
  <2>5. batch' \in [Views -> Seq(Pages \X Contents)]
    <3>1. <<>> \in Seq(Pages \X Contents)
      OBVIOUS
    <3> QED BY <3>1 DEF Dropped
  <2> QED BY <2>1, <2>2, <2>3, <2>4, <2>5 DEF StoreTypeOK
<1>7. OwnInv(own)'
  <2>1. \A e : Reach(e)' = Reach(e)
    BY DEF Reach, Kept
  <2>2. dir' = NoPages /\ NoBlock.at = 0 /\ NoBlock.len = 0
    BY DEF Dropped, NoBlock
  <2>3. EntriesInside(own)'
    <3> SUFFICES ASSUME NEW q \in Pages
                 PROVE  disk'[q].at # 0 => Inside(file, own, q, disk'[q].at, Reach(disk'[q]))
      BY <1>5, <2>1, <2>2 DEF EntriesInside, EntryInside
    <3>1. EntryInside(own, q, dir[q]) /\ EntryInside(own, q, disk[q])
      BY <1>2 DEF OwnInv, EntriesInside
    <3> QED BY <3>1 DEF EntryInside
  <2>4. EntriesComplete'
    BY <1>5, <2>2 DEF EntriesComplete
  <2>5. \A a \in Actors : task'[a].step = "none"
    BY DEF Dropped, Idle
  <2>6. StoresRight(own)' /\ ExtentsRight(own)'
    BY <2>5, PlanesType DEF StoresRight, ExtentsRight
  <2>7. ~Writing'
    BY DEF Dropped, Writing
  <2> QED BY <2>3, <2>4, <2>6, <2>7 DEF OwnInv
<1> QED BY <1>2, <1>4, <1>6, <1>7 DEF StoreInv

LEMMA CrashRight ==
  ASSUME StoreConstants, StoreInv, Crash
  PROVE  StoreInv'
<1>1. Dropped(file, disk) /\ UNCHANGED <<file, exact, cap>> /\ disk' = disk
  BY DEF Crash, stored
<1>2. disk' \in [Pages -> Entry]
  BY <1>1 DEF StoreInv, StoreTypeOK
<1> QED BY <1>1, <1>2, DroppedRight

--------------------
(* A view goes.                                                            *)
LEMMA ViewGoneFacts ==
  ASSUME StoreConstants, StoreTypeOK, NEW v \in Views, ViewGone(v)
  PROVE  /\ view' \in [Views -> {"none", "read", "write", "writer"}] /\ view'[v] = "none"
         /\ \A o \in Views \ {v} : view'[o] = view[o]
         /\ DOMAIN cache' = Actors /\ cache'[v] = NoSlots(v)
         /\ \A b \in Views \ {v} : cache'[b] = cache[b]
         /\ \/ cache'[Main] = NoSlots(Main)
            \/ cache'[Main] = cache[Main] /\ ~NoWritable'
<1>1. view \in [Views -> {"none", "read", "write", "writer"}]
  BY DEF StoreTypeOK
<1>2. view' = [view EXCEPT ![v] = "none"]
  BY DEF ViewGone
<1>3. /\ view' \in [Views -> {"none", "read", "write", "writer"}] /\ view'[v] = "none"
      /\ \A o \in Views \ {v} : view'[o] = view[o]
  BY <1>1, <1>2
<1>4. v \in Actors /\ Main \in Actors /\ \A b \in Views : b \in Actors /\ b # Main
  BY DEF Actors, StoreConstants
<1>5. /\ DOMAIN cache' = Actors /\ cache'[v] = NoSlots(v)
      /\ \A b \in Views \ {v} : cache'[b] = cache[b]
      /\ cache'[Main] = IF \A o \in Views \ {v} : view[o] # "write" THEN NoSlots(Main) ELSE cache[Main]
  BY <1>4 DEF ViewGone
<1>6. (\E o \in Views \ {v} : view[o] = "write") => ~NoWritable'
  BY <1>3 DEF NoWritable
<1> QED BY <1>3, <1>5, <1>6

LEMMA ViewGoneRight ==
  ASSUME StoreConstants, StoreInv, NEW v \in Views, ViewGone(v), view[v] \in {"read", "write"},
         UNCHANGED <<file, exact, mode, refs, dir, cap, writers>>,
         disk' \in [Pages -> Entry], \A p \in Pages : disk'[p] = disk[p] \/ disk'[p] = dir[p],
         task' \in [Actors -> Task], task'[v] = Idle, \A b \in Actors \ {v} : task'[b] = task[b],
         mutex' \in Actors \cup {Nobody}, \A b \in Actors \ {v} : mutex = b => mutex' = b,
         task[v].step # "length", task[Main] = Idle
  PROVE  StoreInv'
<1>1. StoreTypeOK /\ ActorsInv /\ CoherenceInv
  BY DEF StoreInv
<1>2. PICK own \in [Nat -> Pages] : OwnInv(own)
  BY DEF StoreInv
<1>3. /\ view' \in [Views -> {"none", "read", "write", "writer"}] /\ view'[v] = "none"
      /\ \A o \in Views \ {v} : view'[o] = view[o]
      /\ DOMAIN cache' = Actors /\ cache'[v] = NoSlots(v)
      /\ \A b \in Views \ {v} : cache'[b] = cache[b]
      /\ \/ cache'[Main] = NoSlots(Main)
         \/ cache'[Main] = cache[Main] /\ ~NoWritable'
  BY <1>1, ViewGoneFacts
<1>4. /\ v \in Actors /\ v # Main /\ Main \in Actors /\ \A b \in Actors : b # Main => b \in Views
      /\ Main \notin Views
  BY DEF Actors, StoreConstants
<1>5. UNCHANGED <<compile, compileEnd, batch, nextPlane>>
  BY DEF writers
<1>6. mode # "closed" /\ ~compile /\ Dirty(Main) = {} /\ ~Writing /\ ~Writing'
  <2>1. ~NoViews
    BY DEF NoViews
  <2>2. mode # "closed" /\ ~compile
    BY <1>1, <2>1 DEF ActorsInv, ClosedRight, CompileRight
  <2>3. Dirty(Main) = {}
    BY <1>1, <2>1 DEF ActorsInv, MainRight
  <2> QED BY <1>5, <2>2, <2>3 DEF Writing
<1>7. task'[Main] = Idle
  BY <1>4
<1>8. Dirty(Main)' = {}
  <2>1. \A s \in Slots(Main) : NoSlots(Main)[s].dirty = FALSE
    BY NoSlotsFacts
  <2>2. Dirty(Main)' = {s \in Slots(Main) : cache'[Main][s].dirty}
    BY DEF Dirty, Slots
  <2> QED BY <1>3, <1>6, <2>1, <2>2 DEF Dirty
<1>9. StoreTypeOK'
  <2>1. \A b \in Actors : cache'[b] \in [Slots(b) -> Slot]
    <3> SUFFICES ASSUME NEW b \in Actors PROVE cache'[b] \in [Slots(b) -> Slot]
      OBVIOUS
    <3>1. cache[b] \in [Slots(b) -> Slot]
      BY <1>1 DEF StoreTypeOK
    <3>2. NoSlots(b) \in [Slots(b) -> Slot]
      BY NoSlotsFacts
    <3> QED BY <1>3, <1>4, <3>1, <3>2
  <2>2. \A b : Slots(b)' = Slots(b)
    BY DEF Slots
  <2> QED BY <1>1, <1>3, <1>5, <2>1, <2>2 DEF StoreTypeOK
<1>10. ActorsInv'
  <2>1. NoViews => NoViews'
    BY <1>3 DEF NoViews
  <2>2. ASSUME NEW b \in Actors PROVE TaskRight(b)'
    <3>1. CASE b = v
      BY <3>1, IdleRight
    <3>2. CASE b = Main
      BY <1>7, <3>2, IdleRight
    <3>3. CASE b \notin {v, Main}
      <4>1. /\ TaskRight(b) /\ task'[b] = task[b] /\ cache'[b] = cache[b] /\ cap' = cap
            /\ (mutex = b => mutex' = b) /\ view'[b] = view[b] /\ compile' = compile
        BY <1>1, <1>3, <1>4, <1>5, <3>3 DEF ActorsInv
      <4>2. \A o \in Views : view[o] = "none" => view'[o] = "none"
        BY <1>3
      <4> QED BY <3>3, <4>1, <4>2, TaskFrame
    <3> QED BY <3>1, <3>2, <3>3
  <2>3. ASSUME NEW o \in Views PROVE ViewRight(o)'
    <3>1. ViewRight(o)
      BY <1>1 DEF ActorsInv
    <3>2. CASE o = v
      <4>1. batch[v] = <<>> /\ nextPlane[v] <= Planes(v)
        BY <3>1, <3>2 DEF ViewRight
      <4>2. /\ view'[v] = "none" /\ cache'[v] = NoSlots(v)' /\ task'[v] = Idle /\ batch'[v] = <<>>
            /\ nextPlane'[v] <= Planes(v)'
        BY <1>3, <1>5, <4>1 DEF NoSlots, Slots, Planes
      <4>3. Idle.goal = "none"
        BY DEF Idle
      <4> QED BY <3>2, <4>2, <4>3 DEF ViewRight
    <3>3. CASE o # v
      <4>1. /\ task'[o] = task[o] /\ cache'[o] = cache[o] /\ view'[o] = view[o]
            /\ batch'[o] = batch[o] /\ nextPlane'[o] = nextPlane[o] /\ mode' = mode
            /\ compile' = compile
        BY <1>3, <1>5, <3>3 DEF Actors
      <4> QED BY <3>1, <4>1, ViewFrame
    <3> QED BY <3>2, <3>3
  <2>4. ViewsApart'
    <3> SUFFICES ASSUME NEW w \in Views, NEW o \in Views, w # o, Overlaps(w, o)',
                        view'[w] # "none", view'[o] # "none"
                 PROVE  view'[w] = "read" /\ view'[o] = "read"
      BY DEF ViewsApart
    <3>1. w # v /\ o # v /\ Overlaps(w, o)
      BY <1>3 DEF Overlaps
    <3> QED BY <1>1, <1>3, <3>1 DEF ActorsInv, ViewsApart
  <2>5. ClosedRight' /\ CompileRight' /\ MainRight'
    BY <1>5, <1>6, <1>7, <1>8 DEF ClosedRight, CompileRight, MainRight
  <2> QED BY <2>2, <2>3, <2>4, <2>5 DEF ActorsInv
<1>11. OwnInv(own)'
  <2>1. ASSUME NEW b \in Actors
        PROVE  Undisturbed(b)
    <3>1. Idle.step = "none"
      BY DEF Idle
    <3>2. CASE b \in {v, Main}
      BY <1>7, <3>1, <3>2 DEF Undisturbed
    <3>3. CASE b \notin {v, Main}
      BY <1>3, <1>4, <1>5, <3>3 DEF Undisturbed
    <3> QED BY <3>2, <3>3
  <2> QED BY <1>2, <1>5, <1>6, <2>1, QuietOwn
<1>12. CoherenceInv'
  <2>1. \A b, p : SlotOf(b, p)' = SlotOf(b, p) /\ Owns(b, p)' = Owns(b, p)
    BY DEF SlotOf, HandleSlot, ViewSlot, Owns
  <2>2. ASSUME NEW b \in Actors, NEW s \in Slots(b), NEW x, x = cache'[b][s]
        PROVE  /\ x.dirty => x.content # Err
               /\ x.content # Err => s = SlotOf(b, x.page) /\ Owns(b, x.page)
               /\ x.content # Err /\ ~x.dirty /\ Reads(b)' => x.content = Decode(file', dir'[x.page])
    <3>1. CASE cache'[b] = NoSlots(b)
      <4>1. NoSlots(b)[s] = Empty
        BY NoSlotsFacts
      <4>2. Empty.content = Err /\ Empty.dirty = FALSE
        BY DEF Empty
      <4> QED BY <2>2, <3>1, <4>1, <4>2
    <3>2. CASE cache'[b] = cache[b] /\ b # Main /\ view'[b] = view[b]
      <4>1. Reads(b)' = Reads(b) /\ x = cache[b][s]
        BY <2>2, <3>2 DEF Reads
      <4> QED BY <1>1, <4>1 DEF CoherenceInv
    <3>3. CASE cache'[b] = cache[b] /\ b = Main /\ ~NoWritable'
      <4>1. ~Reads(b)' /\ x = cache[b][s]
        BY <2>2, <3>3 DEF Reads
      <4> QED BY <1>1, <4>1 DEF CoherenceInv
    <3> QED BY <1>3, <1>4, <3>1, <3>2, <3>3
  <2>3. \A b \in Actors : \A s \in Slots(b) :
          /\ cache'[b][s].dirty => cache'[b][s].content # Err
          /\ cache'[b][s].content # Err => s = SlotOf(b, cache'[b][s].page) /\ Owns(b, cache'[b][s].page)
          /\ cache'[b][s].content # Err /\ ~cache'[b][s].dirty /\ Reads(b)' =>
               cache'[b][s].content = Decode(file', dir'[cache'[b][s].page])
    BY <2>2
  <2>4. \A b : Slots(b)' = Slots(b)
    BY DEF Slots
  <2> HIDE DEF StoreInv
  <2> QED BY <2>3, <2>4 DEF CoherenceInv, SlotOf, HandleSlot, ViewSlot, Owns
<1> QED BY <1>2, <1>9, <1>10, <1>11, <1>12 DEF StoreInv

(* An actor that stores or flushes has the file to itself, or its view does. *)
LEMMA ViewBusy ==
  ASSUME StoreConstants, StoreInv, NEW v \in Views, view[v] = "write"
  PROVE  mode = "write" /\ task[Main] = Idle
<1>1. ViewRight(v) /\ MainRight /\ ~NoWritable
  BY DEF StoreInv, ActorsInv, NoWritable
<1> QED BY <1>1 DEF ViewRight, MainRight

LEMMA ReleasedType ==
  ASSUME StoreTypeOK, NEW a \in Actors, mutex' = Released(a)
  PROVE  mutex' \in Actors \cup {Nobody} /\ \A b \in Actors \ {a} : mutex = b => mutex' = b
BY DEF StoreTypeOK, Released

LEMMA StoreFailsRight ==
  ASSUME StoreConstants, StoreInv, NEW a \in Actors, StoreFails(a)
  PROVE  StoreInv'
<1>1. StoreTypeOK /\ ActorsInv /\ CoherenceInv
  BY DEF StoreInv
<1>2. task[a].step \in {"block", "payload"} /\ Storing(a) /\ TaskRight(a)
  BY <1>1 DEF StoreFails, Storing, ActorsInv
<1>3. UNCHANGED <<file, disk, exact, cap>>
  BY DEF StoreFails, stored
<1>4. /\ mode = "write" /\ ~Writing
      /\ (a = Main => NoViews) /\ (a # Main => a \in Views /\ view[a] = "write")
  BY <1>1, <1>2, StoringFacts
<1>5. disk' \in [Pages -> Entry]
  BY <1>1, <1>3 DEF StoreTypeOK
<1>6. CASE task[a].goal = "close" /\ a = Main
  <2>1. Dropped(file, disk)
    BY <1>6 DEF StoreFails
  <2> QED BY <1>3, <1>5, <2>1, DroppedRight
<1>7. CASE ~(task[a].goal = "close" /\ a = Main)
  <2>1. /\ task' = [task EXCEPT ![a] = Idle] /\ mutex' = Released(a)
        /\ UNCHANGED <<mode, refs, dir, writers>>
        /\ IF task[a].goal = "close" THEN ViewGone(a) ELSE UNCHANGED <<view, cache>>
    BY <1>7 DEF StoreFails
  <2>2. /\ task' \in [Actors -> Task] /\ task'[a] = Idle
        /\ \A b \in Actors \ {a} : task'[b] = task[b]
    BY <1>1, <2>1, TaskType, NoSlotsFacts
  <2>3. mutex' \in Actors \cup {Nobody} /\ \A b \in Actors \ {a} : mutex = b => mutex' = b
    BY <1>1, <2>1, ReleasedType
  <2>4. CASE task[a].goal = "close"
    <3>1. a # Main /\ a \in Views /\ view[a] = "write"
      BY <1>4, <1>7, <2>4
    <3>2. task[Main] = Idle
      BY <3>1, ViewBusy
    <3>3. ViewGone(a) /\ UNCHANGED <<file, exact, mode, refs, dir, cap, writers>>
      BY <1>3, <2>1, <2>4
    <3> QED BY <1>2, <1>3, <1>5, <2>2, <2>3, <3>1, <3>2, <3>3, ViewGoneRight
  <2>5. CASE task[a].goal # "close"
    <3>1. UNCHANGED <<file, exact, mode, refs, dir, cap, cache, view, writers>>
      BY <1>3, <2>1, <2>5
    <3>2. TaskRight(a)' /\ task'[a].step = "none" /\ task'[a].goal = "none"
      BY <2>2, IdleRight
    <3>3. a = Main => /\ task'[Main] # Idle => mode = "write" /\ NoWritable
                      /\ compile /\ ~NoViews => task'[Main] = Idle
                      /\ Writing => task'[Main].step \in {"none", "slots", "directory"}
      BY <1>4, <2>2
    <3> QED BY <1>2, <1>3, <1>4, <1>5, <2>2, <2>3, <3>1, <3>2, <3>3, TaskKeeps
  <2> QED BY <2>4, <2>5
<1> QED BY <1>6, <1>7

LEMMA CloseViewRight ==
  ASSUME StoreConstants, StoreInv, NEW v \in Views, CloseView(v)
  PROVE  StoreInv'
<1>1. StoreTypeOK /\ v \in Actors /\ v # Main
  BY DEF StoreInv, Actors, StoreConstants
<1>2. /\ task[v] = Idle /\ task[Main] = Idle
      /\ UNCHANGED <<file, disk, exact, mode, refs, dir, cap, mutex>> /\ UNCHANGED writers
  BY DEF CloseView, stored
<1>3. CASE view[v] = "read" /\ ViewGone(v) /\ UNCHANGED task
  <2>1. /\ task' \in [Actors -> Task] /\ task'[v] = Idle
        /\ \A b \in Actors \ {v} : task'[b] = task[b]
        /\ mutex' \in Actors \cup {Nobody} /\ \A b \in Actors \ {v} : mutex = b => mutex' = b
        /\ disk' \in [Pages -> Entry]
    BY <1>1, <1>2, <1>3 DEF StoreTypeOK
  <2>2. task[v].step # "length"
    BY <1>2 DEF Idle
  <2> QED BY <1>2, <1>3, <2>1, <2>2, ViewGoneRight
<1>4. CASE view[v] = "write" /\ Flushing(v, "close", v, 0) /\ UNCHANGED <<view, cache>>
  <2>1. mode = "write" /\ 0 \in Nat
    BY <1>4, ViewBusy
  <2>2. UNCHANGED <<stored, mode, refs, dir, cap, cache, view, mutex, writers>>
    BY <1>2, <1>4 DEF stored
  <2> QED BY <1>1, <1>2, <1>4, <2>1, <2>2, FlushingRight
<1> QED BY <1>3, <1>4 DEF CloseView

--------------------
(* A view comes, and the handle's cache is resized.                        *)
LEMMA OverlapsBoth ==
  ASSUME StoreConstants, NEW v \in Views, NEW o \in Views
  PROVE  Overlaps(v, v) /\ (Overlaps(v, o) <=> Overlaps(o, v))
<1>1. /\ First[v] \in Nat /\ End[v] \in Nat /\ First[v] < End[v]
      /\ First[o] \in Nat /\ End[o] \in Nat /\ First[o] < End[o]
  BY DEF StoreConstants
<1> QED BY <1>1 DEF Overlaps

LEMMA ViewAddedRight ==
  ASSUME StoreConstants, StoreInv, NEW v \in Views, NEW kind \in {"read", "write"},
         view[v] = "none", view' = [view EXCEPT ![v] = kind], ~compile, mode # "closed",
         kind = "write" => mode = "write",
         \A o \in Views : Overlaps(v, o) /\ view[o] # "none" => kind = "read" /\ view[o] = "read",
         UNCHANGED <<file, exact, mode, refs, dir, cap, cache, writers>>,
         disk' \in [Pages -> Entry], \A p \in Pages : disk'[p] = disk[p] \/ disk'[p] = dir[p],
         task' \in [Actors -> Task], task'[Main] = Idle, \A b \in Actors \ {Main} : task'[b] = task[b],
         mutex' \in Actors \cup {Nobody}, \A b \in Actors \ {Main} : mutex = b => mutex' = b,
         task[Main].step # "length", Dirty(Main) = {}
  PROVE  StoreInv'
<1>1. StoreTypeOK /\ ActorsInv /\ CoherenceInv
  BY DEF StoreInv
<1>2. PICK own \in [Nat -> Pages] : OwnInv(own)
  BY DEF StoreInv
<1>3. /\ v \in Actors /\ v # Main /\ Main \in Actors /\ Main \notin Views
      /\ \A b \in Actors : b # Main => b \in Views
  BY DEF Actors, StoreConstants
<1>4. UNCHANGED <<compile, compileEnd, batch, nextPlane>> /\ ~Writing'
  BY DEF writers, Writing
<1>5. /\ view' \in [Views -> {"none", "read", "write", "writer"}] /\ view'[v] = kind
      /\ \A o \in Views \ {v} : view'[o] = view[o]
  BY <1>1 DEF StoreTypeOK
<1>6. task[v] = Idle /\ cache[v] = NoSlots(v) /\ batch[v] = <<>> /\ nextPlane[v] <= Planes(v)
  BY <1>1 DEF ActorsInv, ViewRight
<1>7. Idle.step = "none" /\ Idle.goal = "none"
  BY DEF Idle
<1>8. Dirty(v) = {} /\ \A s \in Slots(v) : cache[v][s].content = Err /\ cache[v][s].dirty = FALSE
  <2>1. \A s \in Slots(v) : NoSlots(v)[s] = Empty
    BY NoSlotsFacts
  <2> QED BY <1>6, <2>1 DEF Empty, Dirty
<1>9. \A b : Dirty(b)' = Dirty(b)
  BY DEF Dirty, Slots
<1>10. StoreTypeOK'
  BY <1>1, <1>4, <1>5 DEF StoreTypeOK, Slots
<1>11. ActorsInv'
  <2>1. ASSUME NEW b \in Actors PROVE TaskRight(b)'
    <3>1. CASE b \in {v, Main}
      <4>1. task'[b] = Idle
        BY <1>3, <1>6, <3>1
      <4> QED BY <4>1, IdleRight
    <3>2. CASE b \notin {v, Main}
      <4>1. /\ TaskRight(b) /\ task'[b] = task[b] /\ cache'[b] = cache[b] /\ cap' = cap
            /\ (mutex = b => mutex' = b) /\ view'[b] = view[b] /\ b # Main
        BY <1>1, <1>3, <1>5, <3>2 DEF ActorsInv
      <4>2. task[b].goal # "create"
        BY <4>1 DEF TaskRight
      <4> QED BY <4>1, <4>2, TaskFrame
    <3> QED BY <3>1, <3>2
  <2>2. ASSUME NEW o \in Views PROVE ViewRight(o)'
    <3>1. ViewRight(o)
      BY <1>1 DEF ActorsInv
    <3>2. CASE o = v
      <4>1. task'[v] = Idle /\ Dirty(v)' = {} /\ batch'[v] = <<>> /\ nextPlane'[v] <= Planes(v)'
        BY <1>3, <1>4, <1>6, <1>8, <1>9 DEF Planes
      <4> QED BY <1>5, <1>7, <3>2, <4>1 DEF ViewRight
    <3>3. CASE o # v
      <4>1. /\ task'[o] = task[o] /\ cache'[o] = cache[o] /\ view'[o] = view[o]
            /\ batch'[o] = batch[o] /\ nextPlane'[o] = nextPlane[o] /\ mode' = mode
            /\ compile' = compile
        BY <1>3, <1>4, <1>5, <3>3 DEF Actors
      <4> QED BY <3>1, <4>1, ViewFrame
    <3> QED BY <3>2, <3>3
  <2>3. ViewsApart'
    <3> SUFFICES ASSUME NEW w \in Views, NEW o \in Views, w # o, Overlaps(w, o)',
                        view'[w] # "none", view'[o] # "none"
                 PROVE  view'[w] = "read" /\ view'[o] = "read"
      BY DEF ViewsApart
    <3>1. Overlaps(w, o) /\ Overlaps(o, w)
      BY OverlapsBoth DEF Overlaps
    <3>2. CASE w = v
      BY <1>5, <3>1, <3>2
    <3>3. CASE o = v
      BY <1>5, <3>1, <3>3
    <3>4. CASE w # v /\ o # v
      BY <1>1, <1>5, <3>1, <3>4 DEF ActorsInv, ViewsApart
    <3> QED BY <3>2, <3>3, <3>4
  <2>4. ClosedRight' /\ CompileRight' /\ MainRight'
    BY <1>4, <1>9 DEF ClosedRight, CompileRight, MainRight
  <2> QED BY <2>1, <2>2, <2>3, <2>4 DEF ActorsInv
<1>12. OwnInv(own)'
  <2>1. ASSUME NEW b \in Actors
        PROVE  Undisturbed(b)
    BY <1>4, <1>7 DEF Undisturbed
  <2> QED BY <1>2, <1>4, <2>1, QuietOwn
<1>13. CoherenceInv'
  <2>1. \A b \in Actors : b # v /\ Reads(b)' => Reads(b)
    <3>1. NoWritable' => NoWritable
      BY <1>5 DEF NoWritable
    <3>2. ~Writing
      BY DEF Writing
    <3> QED BY <1>3, <1>5, <3>1, <3>2 DEF Reads
  <2>2. ASSUME NEW b \in Actors, NEW s \in Slots(b), NEW x, x = cache[b][s]
        PROVE  /\ x.dirty => x.content # Err
               /\ x.content # Err => s = SlotOf(b, x.page) /\ Owns(b, x.page)
               /\ x.content # Err /\ ~x.dirty /\ Reads(b)' => x.content = Decode(file', dir'[x.page])
    <3>1. CASE b = v
      BY <1>8, <2>2, <3>1
    <3>2. CASE b # v
      BY <1>1, <2>1, <2>2, <3>2 DEF CoherenceInv
    <3> QED BY <3>1, <3>2
  <2>3. \A b \in Actors : \A s \in Slots(b) :
          /\ cache'[b][s].dirty => cache'[b][s].content # Err
          /\ cache'[b][s].content # Err => s = SlotOf(b, cache'[b][s].page) /\ Owns(b, cache'[b][s].page)
          /\ cache'[b][s].content # Err /\ ~cache'[b][s].dirty /\ Reads(b)' =>
               cache'[b][s].content = Decode(file', dir'[cache'[b][s].page])
    BY <2>2
  <2>4. \A b : Slots(b)' = Slots(b)
    BY DEF Slots
  <2> QED BY <2>3, <2>4 DEF CoherenceInv, SlotOf, HandleSlot, ViewSlot, Owns
<1> QED BY <1>2, <1>10, <1>11, <1>12, <1>13 DEF StoreInv

LEMMA ResizedRight ==
  ASSUME StoreConstants, StoreInv, NoViews, mode # "closed", cap' \in Caps,
         cache' = [cache EXCEPT ![Main] = NoSlots(Main)],
         UNCHANGED <<file, exact, mode, refs, dir, view, writers>>,
         disk' \in [Pages -> Entry], \A p \in Pages : disk'[p] = disk[p] \/ disk'[p] = dir[p],
         task' \in [Actors -> Task], task'[Main] = Idle, \A b \in Actors \ {Main} : task'[b] = task[b],
         mutex' \in Actors \cup {Nobody}, task[Main].step # "length"
  PROVE  StoreInv'
<1>1. StoreTypeOK /\ ActorsInv /\ CoherenceInv
  BY DEF StoreInv
<1>2. PICK own \in [Nat -> Pages] : OwnInv(own)
  BY DEF StoreInv
<1>3. /\ Main \in Actors /\ Main \notin Views
      /\ \A b \in Actors : b # Main => b \in Views
  BY DEF Actors, StoreConstants
<1>4. UNCHANGED <<compile, compileEnd, batch, nextPlane>>
  BY DEF writers
<1>5. /\ DOMAIN cache' = Actors /\ cache'[Main] = NoSlots(Main)
      /\ \A b \in Actors \ {Main} : cache'[b] = cache[b]
  BY <1>1, <1>3 DEF StoreTypeOK
<1>6. Idle.step = "none" /\ Idle.goal = "none"
  BY DEF Idle
<1>7. \A b \in Actors : task'[b] = Idle /\ cache'[b] = NoSlots(b)
  BY <1>1, <1>3, <1>5 DEF NoViews, ActorsInv, ViewRight
<1>8. \A b \in Actors : \A s \in Slots(b) : cache'[b][s].content = Err /\ cache'[b][s].dirty = FALSE
  <2> SUFFICES ASSUME NEW b \in Actors, NEW s \in Slots(b)
               PROVE  cache'[b][s].content = Err /\ cache'[b][s].dirty = FALSE
    OBVIOUS
  <2>1. NoSlots(b)[s] = Empty
    BY NoSlotsFacts
  <2> QED BY <1>7, <2>1 DEF Empty
<1>9. \A b : Slots(b)' = Slots(b)
  BY DEF Slots
<1>10. Dirty(Main)' = {}
  BY <1>3, <1>8, <1>9 DEF Dirty
<1>11. StoreTypeOK'
  <2>1. \A b \in Actors : cache'[b] \in [Slots(b) -> Slot]
    <3> SUFFICES ASSUME NEW b \in Actors PROVE cache'[b] \in [Slots(b) -> Slot]
      OBVIOUS
    <3>1. NoSlots(b) \in [Slots(b) -> Slot]
      BY NoSlotsFacts
    <3> QED BY <1>7, <3>1
  <2> QED BY <1>1, <1>4, <1>5, <1>9, <2>1 DEF StoreTypeOK
<1>12. ActorsInv'
  <2>1. \A b \in Actors : TaskRight(b)'
    BY <1>7, IdleRight
  <2>2. ASSUME NEW o \in Views PROVE ViewRight(o)'
    <3>1. ViewRight(o)
      BY <1>1 DEF ActorsInv
    <3>2. /\ task'[o] = task[o] /\ cache'[o] = cache[o] /\ view'[o] = view[o]
          /\ batch'[o] = batch[o] /\ nextPlane'[o] = nextPlane[o] /\ mode' = mode
          /\ compile' = compile
      BY <1>3, <1>4, <1>5 DEF Actors
    <3> QED BY <3>1, <3>2, ViewFrame
  <2>3. ViewsApart' /\ ClosedRight'
    BY DEF ViewsApart, NoViews, ClosedRight
  <2>4. CompileRight' /\ MainRight'
    <3>1. NoSlots(Main)' = NoSlots(Main)
      BY DEF NoSlots, Slots
    <3> QED BY <1>1, <1>4, <1>5, <1>6, <1>10, <3>1 DEF ActorsInv, CompileRight, MainRight
  <2> QED BY <2>1, <2>2, <2>3, <2>4 DEF ActorsInv
<1>13. OwnInv(own)'
  <2>1. ASSUME NEW b \in Actors
        PROVE  Undisturbed(b)
    BY <1>4, <1>5, <1>6 DEF Undisturbed
  <2>2. Writing' => Writing
    BY <1>4 DEF Writing, NoViews, Compiled, Owns, Planes
  <2> QED BY <1>2, <1>4, <2>1, <2>2, QuietOwn
<1>14. CoherenceInv'
  BY <1>8, <1>9 DEF CoherenceInv
<1> QED BY <1>2, <1>11, <1>12, <1>13, <1>14 DEF StoreInv

--------------------
(* The directory is written.                                               *)
LEMMA WriteDirectoryRight ==
  ASSUME StoreConstants, StoreInv, NEW a \in Actors, WriteDirectory(a)
  PROVE  StoreInv'
<1>1. StoreTypeOK /\ ActorsInv /\ TaskRight(a)
  BY DEF StoreInv, ActorsInv
<1>2. PICK last : last = Min({task[a].next + Chunk, Sides * PerSide})
  OBVIOUS
<1>3. PICK d : d = [p \in Pages |-> IF p \in task[a].next .. last - 1 THEN dir[p] ELSE disk[p]]
  OBVIOUS
<1>4. /\ task[a].step = "directory" \/ (task[a].step = "slots" /\ Dirty(a) = {} /\ MayAppend(a))
      /\ disk' = d /\ UNCHANGED <<file, exact>>
      /\ IF last < Sides * PerSide
         THEN /\ task' = [task EXCEPT ![a] = [@ EXCEPT !.step = "directory", !.next = last]]
              /\ mutex' = IF a = Main THEN mutex ELSE a
              /\ UNCHANGED <<mode, refs, dir, cap, cache, view, writers, history>>
         ELSE Flushed(a, d)
  BY <1>2, <1>3 DEF WriteDirectory
<1>5. task[a].step \in {"slots", "directory"} /\ Dirty(a) = {} /\ (a # Main => mutex \in {a, Nobody})
  BY <1>1, <1>4 DEF TaskRight, MayAppend
<1>6. disk' \in [Pages -> Entry] /\ \A p \in Pages : disk'[p] = disk[p] \/ disk'[p] = dir[p]
  BY <1>1, <1>3, <1>4 DEF StoreTypeOK
<1>7. /\ task[a] \in Task /\ task[a] # Idle
      /\ task[a].goal \in {"flush", "close", "create", "resize"}
      /\ mode = "write" /\ ~Storing(a)
      /\ a = Main => NoWritable /\ (compile => NoViews)
      /\ a # Main => a \in Views /\ view[a] = "write" /\ task[a].goal = "close"
  BY <1>5, FlushFacts
<1>8. task[a].step # "length"
  BY <1>5
<1>9. CASE last < Sides * PerSide
  <2>1. last \in Nat
    <3>1. PerSide \in Nat \ {0} /\ Sides \in {1, 2} /\ Chunk \in Nat
      BY DEF StoreConstants
    <3>2. PICK n \in Nat : n = Sides * PerSide
      BY <3>1
    <3>3. PICK m \in Nat : m = task[a].next + Chunk
      BY <1>7, <3>1 DEF Task
    <3>4. Min({m, n}) \in {m, n}
      BY MinPair
    <3> QED BY <1>2, <3>2, <3>3, <3>4
  <2>2. PICK u \in Task : u = task[a]
    BY <1>7
  <2>3. PICK t \in Task : /\ t = [u EXCEPT !.step = "directory", !.next = last]
                          /\ t.step = "directory"
                          /\ t.goal = u.goal /\ t.who = u.who /\ t.size = u.size
    <3>1. [u EXCEPT !.step = "directory", !.next = last] \in Task
      BY <2>1 DEF Task
    <3> QED BY <3>1 DEF Task
  <2>4. /\ task' = [task EXCEPT ![a] = t] /\ mutex' = IF a = Main THEN mutex ELSE a
        /\ UNCHANGED <<mode, refs, dir, cap, cache, view, writers>>
    BY <1>4, <1>9, <2>2, <2>3
  <2>5. mutex' \in Actors \cup {Nobody} /\ (a # Main => mutex' = a)
    BY <1>1, <2>4 DEF StoreTypeOK
  <2>6. \A b \in Actors \ {a} : mutex = b => mutex' = b
    BY <1>5, <2>4 DEF StoreConstants
  <2> QED BY <1>4, <1>5, <1>6, <2>2, <2>3, <2>4, <2>5, <2>6, FlushGoes
<1>10. CASE ~(last < Sides * PerSide)
  <2>1. Flushed(a, d)
    BY <1>4, <1>10
  <2>2. CASE task[a].goal = "close" /\ a = Main
    <3>1. Dropped(file, d) /\ UNCHANGED cap
      BY <2>1, <2>2 DEF Flushed
    <3> QED BY <1>4, <1>6, <3>1, DroppedRight
  <2>3. CASE ~(task[a].goal = "close" /\ a = Main)
    <3>1. /\ task' = [task EXCEPT ![a] = Idle] /\ mutex' = Released(a)
          /\ UNCHANGED <<mode, refs, dir, writers>>
          /\ CASE task[a].goal = "close" -> ViewGone(a) /\ UNCHANGED cap
               [] task[a].goal = "create" ->
                    view' = [view EXCEPT ![task[a].who] = "write"] /\ UNCHANGED <<cache, cap>>
               [] task[a].goal = "resize" ->
                    /\ cap' = task[a].size /\ cache' = [cache EXCEPT ![Main] = NoSlots(Main)]
                    /\ UNCHANGED view
               [] OTHER -> UNCHANGED <<view, cache, cap>>
      BY <2>1, <2>3 DEF Flushed
    <3>2. /\ task' \in [Actors -> Task] /\ task'[a] = Idle
          /\ \A b \in Actors \ {a} : task'[b] = task[b]
      BY <1>1, <3>1, TaskType, NoSlotsFacts
    <3>3. mutex' \in Actors \cup {Nobody} /\ \A b \in Actors \ {a} : mutex = b => mutex' = b
      BY <1>1, <3>1, ReleasedType
    <3>4. CASE task[a].goal = "close"
      <4>1. a # Main /\ a \in Views /\ view[a] = "write" /\ ViewGone(a) /\ UNCHANGED cap
        BY <1>7, <2>3, <3>1, <3>4
      <4>2. task[Main] = Idle
        BY <4>1, ViewBusy
      <4> QED BY <1>4, <1>6, <1>8, <3>1, <3>2, <3>3, <4>1, <4>2, ViewGoneRight
    <3>5. CASE task[a].goal = "create"
      <4>1. view' = [view EXCEPT ![task[a].who] = "write"] /\ UNCHANGED <<cache, cap>>
        BY <3>1, <3>5
      <4>2. /\ a = Main /\ ~compile /\ task[a].who \in Views
            /\ \A o \in Views : Overlaps(task[a].who, o) => view[o] = "none"
        BY <1>1, <3>5 DEF TaskRight
      <4>3. PICK v \in Views : v = task[a].who
        BY <4>2
      <4>4. /\ view[v] = "none" /\ view' = [view EXCEPT ![v] = "write"]
            /\ \A o \in Views : Overlaps(v, o) /\ view[o] # "none" => "write" = "read" /\ view[o] = "read"
        BY <4>1, <4>2, <4>3, OverlapsBoth
      <4>5. UNCHANGED <<file, exact, mode, refs, dir, cap, cache, writers>> /\ mode # "closed"
        BY <1>4, <1>7, <3>1, <4>1
      <4> QED BY <1>5, <1>6, <1>7, <1>8, <3>2, <3>3, <4>2, <4>4, <4>5, ViewAddedRight
    <3>6. CASE task[a].goal = "resize"
      <4>1. cap' = task[a].size /\ cache' = [cache EXCEPT ![Main] = NoSlots(Main)] /\ UNCHANGED view
        BY <3>1, <3>6
      <4>2. a = Main /\ NoViews /\ task[a].size \in Caps
        BY <1>1, <3>6 DEF TaskRight
      <4>3. UNCHANGED <<file, exact, mode, refs, dir, view, writers>> /\ mode # "closed"
        BY <1>4, <1>7, <3>1, <4>1
      <4> QED BY <1>6, <1>8, <3>2, <3>3, <4>1, <4>2, <4>3, ResizedRight
    <3>7. CASE task[a].goal = "flush"
      <4>1. UNCHANGED <<file, exact, mode, refs, dir, cap, cache, view, writers>> /\ mode # "closed"
        BY <1>4, <1>7, <3>1, <3>7
      <4>2. TaskRight(a)' /\ task'[a].step = "none" /\ task'[a].goal = "none"
        BY <3>2, IdleRight
      <4>3. a = Main
        BY <1>7, <3>7
      <4> QED BY <1>6, <1>7, <1>8, <3>2, <3>3, <4>1, <4>2, <4>3, TaskKeeps
    <3> QED BY <1>7, <3>4, <3>5, <3>6, <3>7
  <2> QED BY <2>2, <2>3
<1> QED BY <1>9, <1>10

LEMMA CreateViewRight ==
  ASSUME StoreConstants, StoreInv, NEW v \in Views, NEW kind \in Kinds[v], CreateView(v, kind)
  PROVE  StoreInv'
<1>1. StoreTypeOK /\ v \in Actors /\ v # Main /\ Main \in Actors
  BY DEF StoreInv, Actors, StoreConstants
<1>2. kind \in {"read", "write"}
  BY DEF StoreConstants
<1>3. /\ mode # "closed" /\ task[Main] = Idle /\ view[v] = "none" /\ ~compile
      /\ \A o \in Views : Overlaps(v, o) /\ view[o] # "none" => "write" \notin {kind, view[o]}
      /\ kind = "write" => mode = "write"
      /\ kind = "read" => Dirty(Main) = {}
      /\ UNCHANGED <<file, disk, exact, mode, refs, dir, cap, cache, mutex>> /\ UNCHANGED writers
      /\ UNCHANGED stored
  BY DEF CreateView, stored
<1>4. \A o \in Views : Overlaps(v, o) /\ view[o] # "none" => kind = "read" /\ view[o] = "read"
  <2> SUFFICES ASSUME NEW o \in Views, Overlaps(v, o), view[o] # "none"
               PROVE  kind = "read" /\ view[o] = "read"
    OBVIOUS
  <2>1. view[o] \in {"none", "read", "write", "writer"} /\ ViewRight(o)
    BY <1>1 DEF StoreTypeOK, StoreInv, ActorsInv
  <2>2. view[o] # "writer"
    BY <1>3, <2>1 DEF ViewRight
  <2> QED BY <1>2, <1>3, <2>1, <2>2
<1>5. CASE kind = "write" /\ NoWritable
  <2>1. Flushing(Main, "create", v, 0) /\ view' = view
    BY <1>5 DEF CreateView
  <2>2. \A o \in Views : Overlaps(v, o) => view[o] = "none"
    BY <1>4, <1>5
  <2>3. UNCHANGED <<stored, mode, refs, dir, cap, cache, view, mutex, writers>>
    BY <1>3, <2>1
  <2>4. 0 \in Nat /\ mode = "write" /\ "write" \in Kinds[v]
    BY <1>3, <1>5
  <2> QED BY <1>1, <1>3, <1>5, <2>1, <2>2, <2>3, <2>4, FlushingRight
<1>6. CASE ~(kind = "write" /\ NoWritable)
  <2>1. view' = [view EXCEPT ![v] = kind] /\ task' = task
    BY <1>6 DEF CreateView
  <2>2. Dirty(Main) = {}
    <3>1. CASE kind = "read"
      BY <1>3, <3>1
    <3>2. CASE ~NoWritable
      <4>1. ~NoViews
        BY <3>2 DEF NoViews, NoWritable
      <4> QED BY <4>1 DEF StoreInv, ActorsInv, MainRight
    <3> QED BY <1>2, <1>6, <3>1, <3>2
  <2>3. /\ task' \in [Actors -> Task] /\ task'[Main] = Idle /\ mutex' \in Actors \cup {Nobody}
        /\ disk' \in [Pages -> Entry]
    BY <1>1, <1>3, <2>1 DEF StoreTypeOK
  <2>4. task[Main].step # "length"
    BY <1>3 DEF Idle
  <2> QED BY <1>2, <1>3, <1>4, <2>1, <2>2, <2>3, <2>4, ViewAddedRight
<1> QED BY <1>5, <1>6

LEMMA ResizeCacheRight ==
  ASSUME StoreConstants, StoreInv, NEW c \in Caps, ResizeCache(c)
  PROVE  StoreInv'
<1>1. StoreTypeOK /\ Main \in Actors /\ Main \notin Views /\ c \in Nat
  BY DEF StoreInv, Actors, StoreConstants
<1>2. /\ mode # "closed" /\ task[Main] = Idle /\ NoViews
      /\ UNCHANGED <<file, disk, exact, mode, refs, dir, view, mutex>> /\ UNCHANGED writers
      /\ UNCHANGED stored
  BY DEF ResizeCache, stored
<1>3. CASE mode = "write"
  <2>1. Flushing(Main, "resize", Main, c) /\ UNCHANGED <<cap, cache>>
    BY <1>3 DEF ResizeCache
  <2>2. UNCHANGED <<stored, mode, refs, dir, cap, cache, view, mutex, writers>>
    BY <1>2, <2>1
  <2>3. NoWritable
    BY <1>2 DEF NoViews, NoWritable
  <2> QED BY <1>1, <1>2, <1>3, <2>1, <2>2, <2>3, FlushingRight
<1>4. CASE mode # "write"
  <2>1. cap' = c /\ cache' = [cache EXCEPT ![Main] = NoSlots(Main)] /\ task' = task
    BY <1>4 DEF ResizeCache
  <2>2. /\ task' \in [Actors -> Task] /\ task'[Main] = Idle /\ mutex' \in Actors \cup {Nobody}
        /\ disk' \in [Pages -> Entry]
    BY <1>1, <1>2, <2>1 DEF StoreTypeOK
  <2>3. task[Main].step # "length"
    BY <1>2 DEF Idle
  <2> QED BY <1>2, <2>1, <2>2, <2>3, ResizedRight
<1> QED BY <1>3, <1>4

--------------------
(* Opening and closing.                                                    *)

(* A step that changes neither the file nor anything an actor has. *)
LEMMA SameRight ==
  ASSUME StoreConstants, StoreInv, refs' \in Nat,
         UNCHANGED <<file, disk, exact, mode, dir, cap, cache, view, task, mutex>>,
         UNCHANGED <<compile, compileEnd, batch, nextPlane>>
  PROVE  StoreInv'
<1>1. StoreTypeOK /\ ActorsInv /\ CoherenceInv
  BY DEF StoreInv
<1>2. PICK own \in [Nat -> Pages] : OwnInv(own)
  BY DEF StoreInv
<1>3. StoreTypeOK'
  BY <1>1 DEF StoreTypeOK, Slots
<1>4. \A b : Dirty(b)' = Dirty(b) /\ Slots(b)' = Slots(b) /\ NoSlots(b)' = NoSlots(b)
  BY DEF Dirty, Slots, NoSlots
<1>5. NoViews' = NoViews /\ NoWritable' = NoWritable /\ Writing' = Writing
  BY DEF NoViews, NoWritable, Writing, Compiled, Owns, Planes
<1>6. ASSUME NEW b \in Actors PROVE TaskRight(b)'
  <2>1. TaskRight(b)
    BY <1>1 DEF ActorsInv
  <2> QED BY <1>5, <2>1, TaskFrame
<1>7. ASSUME NEW v \in Views PROVE ViewRight(v)'
  <2>1. ViewRight(v)
    BY <1>1 DEF ActorsInv
  <2> QED BY <2>1, ViewFrame
<1>8. ViewsApart'
  BY <1>1 DEF ActorsInv, ViewsApart, Overlaps
<1>9. ClosedRight' /\ CompileRight' /\ MainRight'
  BY <1>1, <1>4, <1>5 DEF ActorsInv, ClosedRight, CompileRight, MainRight, NoPages
<1>10. OwnInv(own)'
  BY <1>2, <1>5, QuietOwn DEF Undisturbed
<1>11. CoherenceInv'
  <2>1. \A b : Reads(b)' = Reads(b)
    BY <1>5 DEF Reads
  <2> QED BY <1>1, <1>4, <2>1 DEF CoherenceInv, SlotOf, HandleSlot, ViewSlot, Owns
<1> QED BY <1>2, <1>3, <1>6, <1>7, <1>8, <1>9, <1>10, <1>11 DEF StoreInv, ActorsInv

LEMMA OpenRight ==
  ASSUME StoreConstants, StoreInv, NEW kind \in {"read", "write"}, Open(kind)
  PROVE  StoreInv'
<1>1. StoreTypeOK /\ ActorsInv /\ CoherenceInv
  BY DEF StoreInv
<1>2. PICK own \in [Nat -> Pages] : OwnInv(own)
  BY DEF StoreInv
<1>3. /\ mode = "closed" /\ Valid(disk) /\ mode' = kind /\ dir' = disk /\ cap' = Max(Caps)
      /\ refs' = (IF kind = "read" THEN 1 ELSE 0)
      /\ UNCHANGED <<file, disk, exact, cache, view, task, mutex, compile, compileEnd, batch, nextPlane>>
  BY DEF Open, stored, writers
<1>4. ~compile /\ NoViews /\ \A a \in Actors : task[a] = Idle /\ cache[a] = NoSlots(a)
  BY <1>1, <1>3 DEF ActorsInv, ClosedRight
<1>5. \A b \in Actors : \A s \in Slots(b) : cache'[b][s].content = Err /\ cache'[b][s].dirty = FALSE
  <2> SUFFICES ASSUME NEW b \in Actors, NEW s \in Slots(b)
               PROVE  cache'[b][s].content = Err /\ cache'[b][s].dirty = FALSE
    OBVIOUS
  <2>1. NoSlots(b)[s] = Empty
    BY NoSlotsFacts
  <2> QED BY <1>3, <1>4, <2>1 DEF Empty
<1>6. \A b : Slots(b)' = Slots(b)
  BY DEF Slots
<1>7. StoreTypeOK'
  BY <1>1, <1>3, <1>6, MostFacts DEF StoreTypeOK
<1>8. \A b \in Actors : task'[b] = Idle
  BY <1>3, <1>4
<1>9. Idle.step = "none" /\ Idle.goal = "none"
  BY DEF Idle
<1>10. Main \in Actors /\ \A v \in Views : v \in Actors
  BY DEF Actors
<1>11. \A b \in Actors : Dirty(b)' = {}
  BY <1>5, <1>6 DEF Dirty
<1>12. ActorsInv'
  <2>1. \A b \in Actors : TaskRight(b)'
    BY <1>8, IdleRight
  <2>2. ASSUME NEW v \in Views PROVE ViewRight(v)'
    <3>1. ViewRight(v) /\ view[v] = "none"
      BY <1>1, <1>4 DEF ActorsInv, NoViews
    <3>2. batch[v] = <<>> /\ nextPlane[v] <= Planes(v) /\ cache[v] = NoSlots(v)
      BY <3>1 DEF ViewRight
    <3>3. /\ batch'[v] = <<>> /\ nextPlane'[v] <= Planes(v)' /\ cache'[v] = NoSlots(v)'
          /\ view'[v] = "none"
      BY <1>3, <3>1, <3>2 DEF Planes, NoSlots, Slots
    <3>4. task'[v] = Idle
      BY <1>8, <1>10
    <3> QED BY <1>9, <3>3, <3>4 DEF ViewRight
  <2>3. ViewsApart' /\ ClosedRight'
    BY <1>3, <1>4 DEF ViewsApart, ClosedRight, NoViews
  <2>4. CompileRight' /\ MainRight'
    BY <1>3, <1>4, <1>8, <1>10, <1>11 DEF CompileRight, MainRight, Writing
  <2> QED BY <2>1, <2>2, <2>3, <2>4 DEF ActorsInv
<1>13. OwnInv(own)'
  <2>1. EntriesInside(own)'
    <3>1. \A q \in Pages : EntryInside(own, q, disk[q])
      BY <1>2 DEF OwnInv, EntriesInside
    <3> QED BY <1>3, <3>1 DEF EntriesInside, EntryInside, Reach, Kept
  <2>2. EntriesComplete'
    BY <1>3 DEF EntriesComplete, Valid
  <2>3. StoresRight(own)' /\ ExtentsRight(own)'
    BY <1>8, <1>9, <1>10 DEF StoresRight, ExtentsRight
  <2>4. ~Writing'
    BY <1>3, <1>4 DEF Writing
  <2> QED BY <2>1, <2>2, <2>3, <2>4 DEF OwnInv
<1>14. CoherenceInv'
  BY <1>5, <1>6 DEF CoherenceInv
<1> QED BY <1>2, <1>7, <1>12, <1>13, <1>14 DEF StoreInv

LEMMA CloseRight ==
  ASSUME StoreConstants, StoreInv, Close
  PROVE  StoreInv'
<1>1. Main \in Actors /\ mode # "closed" /\ task[Main] = Idle /\ StoreTypeOK
  BY DEF Close, Actors, StoreInv
<1>2. CASE /\ refs = 2 /\ refs' = 1
           /\ UNCHANGED <<stored, mode, dir, cap, cache, view, task, mutex, writers, history>>
  <2>1. /\ UNCHANGED <<file, disk, exact, mode, dir, cap, cache, view, task, mutex>>
        /\ UNCHANGED <<compile, compileEnd, batch, nextPlane>> /\ refs' \in Nat
    BY <1>2 DEF stored, writers
  <2> QED BY <2>1, SameRight
<1>3. CASE refs = 1 /\ NoViews /\ Dropped(file, disk) /\ UNCHANGED <<stored, cap>>
  <2>1. disk' = disk /\ UNCHANGED <<file, exact, cap>>
    BY <1>3 DEF stored
  <2>2. disk' \in [Pages -> Entry]
    BY <1>1, <2>1 DEF StoreTypeOK
  <2> QED BY <1>3, <2>1, <2>2, DroppedRight
<1>4. CASE /\ mode = "write" /\ NoViews
           /\ Flushing(Main, "close", Main, 0)
           /\ UNCHANGED <<stored, mode, refs, dir, cap, cache, view, mutex, writers, history>>
  <2>1. NoWritable /\ 0 \in Nat
    BY <1>4 DEF NoViews, NoWritable
  <2> QED BY <1>1, <1>4, <2>1, FlushingRight
<1> QED BY <1>2, <1>3, <1>4 DEF Close

LEMMA OpenAgainRight ==
  ASSUME StoreConstants, StoreInv, OpenAgain
  PROVE  StoreInv'
<1>1. /\ UNCHANGED <<file, disk, exact, mode, dir, cap, cache, view, task, mutex>>
      /\ UNCHANGED <<compile, compileEnd, batch, nextPlane>> /\ refs' \in Nat
  BY DEF OpenAgain, stored, writers
<1> QED BY <1>1, SameRight

LEMMA UnchangedRight ==
  ASSUME StoreConstants, StoreInv, UNCHANGED vars
  PROVE  StoreInv'
<1>1. refs \in Nat
  BY DEF StoreInv, StoreTypeOK
<1>2. /\ UNCHANGED <<file, disk, exact, mode, dir, cap, cache, view, task, mutex>>
      /\ UNCHANGED <<compile, compileEnd, batch, nextPlane>> /\ refs' = refs
  BY DEF vars, stored, writers
<1> QED BY <1>1, <1>2, SameRight

--------------------
(* A compact compilation.                                                  *)
LEMMA EmptySlots ==
  ASSUME StoreConstants, NEW a, cache[a] = NoSlots(a)
  PROVE  /\ Dirty(a) = {}
         /\ \A s \in Slots(a) : cache[a][s].content = Err /\ cache[a][s].dirty = FALSE
<1>1. \A s \in Slots(a) : NoSlots(a)[s] = Empty
  BY NoSlotsFacts
<1> QED BY <1>1 DEF Dirty, Empty

(* While a table is compiled no cache holds a page, and none is stored. *)
LEMMA WritingFacts ==
  ASSUME StoreConstants, StoreInv, Writing
  PROVE  /\ mode = "write" /\ exact = TRUE /\ compile = TRUE /\ Kept = 0
         /\ \A b \in Actors : cache[b] = NoSlots(b) /\ ~Storing(b)
         /\ \A o \in Views : view[o] \in {"none", "writer"}
         /\ \A p \in Pages : dir[p].at = 0 <=> dir[p].len = 0
<1>1. StoreTypeOK /\ ActorsInv /\ CoherenceInv
  BY DEF StoreInv
<1>2. mode = "write" /\ exact = TRUE /\ compile = TRUE /\ \A o \in Views : view[o] \in {"none", "writer"}
  BY <1>1 DEF ActorsInv, CompileRight, Writing, StoreTypeOK
<1>3. Kept = 0
  BY <1>2 DEF Kept
<1>4. ASSUME NEW b \in Actors PROVE cache[b] = NoSlots(b) /\ ~Storing(b)
  <2>1. cache[b] = NoSlots(b)
    BY <1>1, <1>2 DEF Actors, ActorsInv, ViewRight, CompileRight
  <2>2. ~Storing(b)
    BY <1>1, StoringFacts
  <2> QED BY <2>1, <2>2
<1>5. PICK own \in [Nat -> Pages] : OwnInv(own)
  BY DEF StoreInv
<1>6. \A p \in Pages : ~Settling(p)
  BY <1>4 DEF Settling, Storing
<1>7. \A p \in Pages : dir[p].at = 0 <=> dir[p].len = 0
  BY <1>5, <1>6 DEF OwnInv, EntriesComplete
<1> QED BY <1>2, <1>3, <1>4, <1>7

(* An open writer is one of a compilation. *)
LEMMA WriterFacts ==
  ASSUME StoreConstants, StoreInv, NEW v \in Views, view[v] = "writer"
  PROVE  /\ Writing /\ task[Main] = Idle
         /\ \A o \in Views : o # v /\ Overlaps(v, o) => view[o] = "none"
<1>1. ViewRight(v) /\ ViewsApart /\ CompileRight /\ ~NoViews
  BY DEF StoreInv, ActorsInv, NoViews
<1>2. compile
  BY <1>1 DEF ViewRight
<1> QED BY <1>1, <1>2 DEF Writing, CompileRight, ViewsApart

LEMMA WriterStepRight ==
  ASSUME StoreConstants, StoreInv, Writing, task[Main] = Idle, NEW v \in Views,
         UNCHANGED <<exact, mode, cap, cache, mutex, compile>>,
         \A b \in Actors \ {v} : task'[b] = task[b],
         \A o \in Views \ {v} : view'[o] = view[o] /\ batch'[o] = batch[o] /\ nextPlane'[o] = nextPlane[o],
         TaskRight(v)', ViewRight(v)', view'[v] \in {"none", "writer"},
         \A o \in Views : o # v /\ Overlaps(v, o) => view[o] = "none"
  PROVE  ActorsInv' /\ CoherenceInv'
<1>1. StoreTypeOK /\ ActorsInv /\ CoherenceInv
  BY DEF StoreInv
<1>2. /\ mode = "write" /\ exact = TRUE /\ compile = TRUE
      /\ (\A b \in Actors : cache[b] = NoSlots(b))
      /\ (\A o \in Views : view[o] \in {"none", "writer"})
  BY WritingFacts
<1>3. Main \in Actors /\ v \in Actors /\ v # Main /\ Main \notin Views
  BY DEF Actors, StoreConstants
<1>4. /\ task'[Main] = Idle
      /\ (\A b \in Actors : cache'[b] = NoSlots(b) /\ NoSlots(b)' = NoSlots(b) /\ Slots(b)' = Slots(b))
  BY <1>2, <1>3 DEF NoSlots, Slots
<1>5. \A b \in Actors : Dirty(b) = {}
                        /\ \A s \in Slots(b) : cache[b][s].content = Err /\ cache[b][s].dirty = FALSE
  <2> SUFFICES ASSUME NEW b \in Actors
               PROVE  Dirty(b) = {}
                      /\ \A s \in Slots(b) : cache[b][s].content = Err /\ cache[b][s].dirty = FALSE
    OBVIOUS
  <2>1. cache[b] = NoSlots(b)
    BY <1>2
  <2> QED BY <2>1, EmptySlots
<1>6. \A b : Dirty(b)' = Dirty(b)
  BY DEF Dirty, Slots
<1>7. Idle.step = "none" /\ Idle.goal = "none"
  BY DEF Idle
<1>8. ASSUME NEW b \in Actors PROVE TaskRight(b)'
  <2>1. CASE b = v
    BY <2>1
  <2>2. CASE b = Main
    BY <1>4, <2>2, IdleRight
  <2>3. CASE b \notin {v, Main}
    <3>1. TaskRight(b) /\ task'[b] = task[b] /\ cache'[b] = cache[b] /\ view'[b] = view[b]
      BY <1>1, <2>3 DEF ActorsInv, Actors
    <3>2. task[b].goal # "create"
      BY <2>3, <3>1 DEF TaskRight
    <3> QED BY <2>3, <3>1, <3>2, TaskFrame
  <2> QED BY <2>1, <2>2, <2>3
<1>9. ASSUME NEW o \in Views PROVE ViewRight(o)'
  <2>1. CASE o = v
    BY <2>1
  <2>2. CASE o # v
    <3>1. ViewRight(o) /\ task'[o] = task[o]
      BY <1>1, <2>2 DEF ActorsInv, Actors
    <3> QED BY <2>2, <3>1, ViewFrame
  <2> QED BY <2>1, <2>2
<1>10. ViewsApart'
  <2> SUFFICES ASSUME NEW w \in Views, NEW o \in Views, w # o, Overlaps(w, o)',
                      view'[w] # "none", view'[o] # "none"
               PROVE  FALSE
    BY DEF ViewsApart
  <2>1. Overlaps(w, o) /\ Overlaps(o, w)
    BY OverlapsBoth DEF Overlaps
  <2>2. w # v /\ o # v
    BY <2>1
  <2>3. view[w] = "read"
    BY <1>1, <2>1, <2>2 DEF ActorsInv, ViewsApart
  <2> QED BY <1>2, <2>3
<1>11. \A o \in Views : view'[o] \in {"none", "writer"}
  BY <1>2
<1>12. ClosedRight' /\ CompileRight' /\ MainRight'
  BY <1>2, <1>3, <1>4, <1>5, <1>6, <1>7, <1>11 DEF ClosedRight, CompileRight, MainRight
<1>13. CoherenceInv'
  <2>1. \A b \in Actors : \A s \in Slots(b)' : cache'[b][s].content = Err /\ cache'[b][s].dirty = FALSE
    BY <1>4, <1>5
  <2> QED BY <2>1 DEF CoherenceInv
<1> QED BY <1>8, <1>9, <1>10, <1>12, <1>13 DEF ActorsInv

LEMMA WriterType ==
  ASSUME StoreTypeOK, NEW v \in Views,
         UNCHANGED <<file, disk, exact, mode, refs, dir, cap, cache, mutex, compile>>,
         compileEnd' \in Nat, task' \in [Actors -> Task],
         view' \in [Views -> {"none", "read", "write", "writer"}],
         batch' \in [Views -> Seq(Pages \X Contents)], nextPlane' \in [Views -> Nat]
  PROVE  StoreTypeOK'
BY DEF StoreTypeOK, Slots

LEMMA CreateWriterRight ==
  ASSUME StoreConstants, StoreInv, NEW v \in Views, CreateWriter(v)
  PROVE  StoreInv'
<1>1. StoreTypeOK /\ ActorsInv
  BY DEF StoreInv
<1>2. PICK own \in [Nat -> Pages] : OwnInv(own)
  BY DEF StoreInv
<1>3. /\ compile /\ task[Main] = Idle
      /\ \A o \in Views : Overlaps(v, o) => view[o] = "none" /\ nextPlane[o] = 0
      /\ view' = [view EXCEPT ![v] = "writer"]
      /\ UNCHANGED <<file, disk, exact, mode, refs, dir, cap, cache, task, mutex,
                     compile, compileEnd, batch, nextPlane>>
  BY DEF CreateWriter, stored, writers
<1>4. Writing
  <2> SUFFICES ASSUME Compiled PROVE FALSE
    BY <1>3 DEF Writing
  <2>1. /\ First[v] \in Nat /\ First[v] < End[v] /\ End[v] <= PerSide /\ End[v] \in Nat
        /\ PerSide \in Nat \ {0} /\ (Sides = 1 \/ Sides = 2)
    BY DEF StoreConstants
  <2>2. PICK p \in Pages : p = First[v] /\ Logical(p) = First[v]
    <3>1. First[v] % PerSide = First[v]
      BY <2>1
    <3>2. First[v] < Sides * PerSide
      BY <2>1
    <3>3. PerSide <= Sides * PerSide /\ Sides * PerSide \in Nat
      BY <2>1
    <3> QED BY <2>1, <3>1, <3>2, <3>3 DEF Pages, Logical
  <2>3. Owns(v, p)
    BY <2>1, <2>2 DEF Owns
  <2>4. PICK o \in Views : Owns(o, p) /\ nextPlane[o] = Planes(o)
    BY DEF Compiled
  <2>5. nextPlane[o] = 0
    BY <1>3, <2>3, <2>4, OwnersOverlap
  <2> QED BY <2>4, <2>5, PlanesType
<1>5. view[v] = "none"
  BY <1>3, OverlapsBoth
<1>6. /\ view' \in [Views -> {"none", "read", "write", "writer"}] /\ view'[v] = "writer"
      /\ \A o \in Views \ {v} : view'[o] = view[o]
  BY <1>1, <1>3 DEF StoreTypeOK
<1>7. /\ task[v] = Idle /\ cache[v] = NoSlots(v) /\ batch[v] = <<>> /\ nextPlane[v] <= Planes(v)
      /\ v \in Actors
  BY <1>1, <1>5 DEF ActorsInv, ViewRight, Actors
<1>8. TaskRight(v)'
  BY <1>3, <1>7, IdleRight
<1>9. ViewRight(v)'
  <2>1. Idle.goal = "none"
    BY DEF Idle
  <2>2. /\ cache'[v] = NoSlots(v)' /\ batch'[v] = <<>> /\ nextPlane'[v] <= Planes(v)'
        /\ task'[v] = Idle /\ compile'
    BY <1>3, <1>7 DEF NoSlots, Slots, Planes
  <2> QED BY <1>6, <2>1, <2>2 DEF ViewRight
<1>10. ActorsInv' /\ CoherenceInv'
  BY <1>3, <1>4, <1>6, <1>8, <1>9, WriterStepRight
<1>11. StoreTypeOK'
  <2>1. /\ compileEnd' \in Nat /\ task' \in [Actors -> Task]
        /\ batch' \in [Views -> Seq(Pages \X Contents)] /\ nextPlane' \in [Views -> Nat]
    BY <1>1, <1>3 DEF StoreTypeOK
  <2> QED BY <1>1, <1>3, <1>6, <2>1, WriterType
<1>12. OwnInv(own)'
  BY <1>2, <1>3, <1>4, QuietOwn DEF Undisturbed
<1> QED BY <1>2, <1>10, <1>11, <1>12 DEF StoreInv

(* The page of the second plane. *)
LEMMA PlaneMod ==
  ASSUME NEW b \in Nat \ {0}, NEW x \in Nat, x < b
  PROVE  x % b = x /\ (x + b) % b = x
<1>1. x % b = x
  OBVIOUS
<1>2. PICK d \in Nat, r \in Nat : d = (x + b) \div b /\ r = (x + b) % b /\ r < b /\ x + b = d * b + r
  BY DivFacts
<1>3. PICK m \in Nat : m = d * b
  OBVIOUS
<1>4. d >= 2 => m >= 2 * b
  BY ONLY <1>3, d \in Nat, b \in Nat \ {0}
<1>5. d = 0 => m = 0
  BY <1>3
<1>6. d = 1 => m = b
  BY <1>3
<1>7. d = 1
  BY ONLY <1>2, <1>3, <1>4, <1>5, d \in Nat, r \in Nat, m \in Nat, x < b, x \in Nat, b \in Nat \ {0}
<1>8. r = x
  BY ONLY <1>2, <1>3, <1>6, <1>7, r \in Nat, m \in Nat, x \in Nat, b \in Nat \ {0}
<1> QED BY <1>1, <1>2, <1>8

LEMMA NextPageFacts ==
  ASSUME StoreConstants, NEW v \in Views, nextPlane[v] \in Nat, nextPlane[v] < Planes(v)
  PROVE  NextPage(v) \in Pages /\ Owns(v, NextPage(v))
<1>1. /\ First[v] \in Nat /\ First[v] < End[v] /\ End[v] <= PerSide /\ End[v] \in Nat
      /\ PerSide \in Nat \ {0} /\ (Sides = 1 \/ Sides = 2)
  BY DEF StoreConstants
<1>2. PICK n \in Nat : n = nextPlane[v]
  OBVIOUS
<1>3. PICK q \in Nat, r \in Nat : /\ q = n \div Sides /\ r = n % Sides /\ r < Sides /\ n = q * Sides + r
  <2>1. Sides \in Nat \ {0}
    BY <1>1
  <2>2. n \div Sides \in Nat /\ n % Sides \in 0 .. Sides - 1
    BY <2>1, DivFacts
  <2>3. n = (n \div Sides) * Sides + (n % Sides)
    BY <2>1, DivFacts
  <2>4. n % Sides \in Nat /\ n % Sides < Sides
    BY <2>1, <2>2
  <2> QED BY <2>2, <2>3, <2>4
<1>4. q < End[v] - First[v]
  <2>1. n < Sides * (End[v] - First[v])
    BY <1>2 DEF Planes
  <2>2. CASE Sides = 1
    BY <1>1, <1>3, <2>1, <2>2
  <2>3. CASE Sides = 2
    BY <1>1, <1>3, <2>1, <2>3
  <2> QED BY <1>1, <2>2, <2>3
<1>5. PICK x \in Nat : x = First[v] + q /\ x < PerSide /\ x \in First[v] .. End[v] - 1
  BY <1>1, <1>4
<1>6. NextPage(v) = x + r * PerSide
  BY <1>2, <1>3, <1>5 DEF NextPage
<1>7. CASE r = 0
  <2>1. NextPage(v) = x
    BY <1>1, <1>5, <1>6, <1>7
  <2>2. x \in Pages
    <3>1. PerSide <= Sides * PerSide /\ Sides * PerSide \in Nat
      BY <1>1
    <3> QED BY <1>1, <1>5, <3>1 DEF Pages
  <2>3. x % PerSide = x
    BY <1>1, <1>5, PlaneMod
  <2> QED BY <1>5, <2>1, <2>2, <2>3 DEF Owns, Logical
<1>8. CASE r = 1
  <2>1. NextPage(v) = x + PerSide /\ Sides = 2
    <3>1. r * PerSide = PerSide
      BY <1>1, <1>8
    <3>2. NextPage(v) = x + PerSide
      BY ONLY <1>6, <3>1
    <3>3. Sides = 2
      BY ONLY <1>1, <1>3, <1>8, Sides = 1 \/ Sides = 2
    <3> QED BY <3>2, <3>3
  <2>2. x + PerSide \in Pages
    BY <1>1, <1>5, <2>1 DEF Pages
  <2>3. (x + PerSide) % PerSide = x
    BY <1>1, <1>5, PlaneMod
  <2> QED BY <1>5, <2>1, <2>2, <2>3 DEF Owns, Logical
<1> QED BY <1>1, <1>3, <1>7, <1>8

LEMMA PutPlaneRight ==
  ASSUME StoreConstants, StoreInv, NEW v \in Views, NEW c \in Values, PutPlane(v, c)
  PROVE  StoreInv'
<1>1. StoreTypeOK /\ ActorsInv /\ v \in Actors
  BY DEF StoreInv, Actors
<1>2. PICK own \in [Nat -> Pages] : OwnInv(own)
  BY DEF StoreInv
<1>3. /\ view[v] = "writer" /\ task[v] = Idle /\ nextPlane[v] < Planes(v)
      /\ nextPlane' = [nextPlane EXCEPT ![v] = @ + 1]
      /\ UNCHANGED <<file, disk, exact, mode, refs, dir, cap, cache, view, task, mutex,
                     compile, compileEnd>>
      /\ IF c = Draw THEN batch' = batch
         ELSE batch' = [batch EXCEPT ![v] = Append(@, <<NextPage(v), c>>)]
  BY DEF PutPlane, stored
<1>4. /\ Writing /\ task[Main] = Idle
      /\ \A o \in Views : o # v /\ Overlaps(v, o) => view[o] = "none"
  BY <1>3, WriterFacts
<1>5. nextPlane \in [Views -> Nat] /\ batch \in [Views -> Seq(Pages \X Contents)] /\ Planes(v) \in Nat
  BY <1>1, PlanesType DEF StoreTypeOK
<1>6. /\ nextPlane' \in [Views -> Nat] /\ nextPlane'[v] = nextPlane[v] + 1
      /\ nextPlane'[v] <= Planes(v) /\ \A o \in Views \ {v} : nextPlane'[o] = nextPlane[o]
  BY <1>3, <1>5
<1>7. NextPage(v) \in Pages /\ Owns(v, NextPage(v))
  BY <1>3, <1>5, NextPageFacts
<1>8. ViewRight(v)
  BY <1>1 DEF ActorsInv
<1>9. /\ batch' \in [Views -> Seq(Pages \X Contents)]
      /\ \A o \in Views \ {v} : batch'[o] = batch[o]
      /\ \A i \in DOMAIN batch'[v] : Owns(v, batch'[v][i][1])
  <2>1. CASE c = Draw
    BY <1>3, <1>5, <1>8, <2>1 DEF ViewRight
  <2>2. CASE c # Draw
    <3>1. c \in Contents
      BY <2>2 DEF Values
    <3>2. PICK r \in Pages \X Contents : r = <<NextPage(v), c>> /\ r[1] = NextPage(v)
      <4>1. PICK q \in Pages : q = NextPage(v)
        BY <1>7
      <4>2. <<q, c>> \in Pages \X Contents /\ <<q, c>>[1] = q
        BY <3>1
      <4> QED BY <4>1, <4>2
    <3>3. PICK b \in Seq(Pages \X Contents) : b = batch[v]
      BY <1>5
    <3>4. /\ Append(b, r) \in Seq(Pages \X Contents) /\ Len(Append(b, r)) = Len(b) + 1 /\ Len(b) \in Nat
          /\ \A i \in 1 .. Len(b) : Append(b, r)[i] = b[i]
          /\ Append(b, r)[Len(b) + 1] = r /\ DOMAIN b = 1 .. Len(b)
          /\ DOMAIN Append(b, r) = 1 .. Len(b) + 1
      OBVIOUS
    <3>5. batch' = [batch EXCEPT ![v] = Append(b, r)]
      BY <1>3, <2>2, <3>2, <3>3
    <3>6. /\ batch' \in [Views -> Seq(Pages \X Contents)] /\ batch'[v] = Append(b, r)
          /\ \A o \in Views \ {v} : batch'[o] = batch[o]
      BY <1>5, <3>4, <3>5
    <3>7. \A i \in DOMAIN b : Owns(v, b[i][1])
      BY <1>8, <3>3 DEF ViewRight
    <3>8. ASSUME NEW i \in 1 .. Len(b) + 1 PROVE Owns(v, Append(b, r)[i][1])
      <4>1. CASE i = Len(b) + 1
        BY <1>7, <3>2, <3>4, <4>1
      <4>2. CASE i # Len(b) + 1
        <5>1. i \in 1 .. Len(b)
          BY <3>4, <4>2
        <5> QED BY <3>4, <3>7, <5>1
      <4> QED BY <4>1, <4>2
    <3> QED BY <3>4, <3>6, <3>8
  <2> QED BY <2>1, <2>2
<1>10. TaskRight(v)'
  BY <1>3, IdleRight
<1>11. ViewRight(v)'
  <2>1. Idle.goal = "none"
    BY DEF Idle
  <2>2. /\ view'[v] = "writer" /\ cache'[v] = NoSlots(v)' /\ task'[v] = Idle /\ compile'
        /\ nextPlane'[v] <= Planes(v)'
    BY <1>3, <1>6, <1>8 DEF ViewRight, NoSlots, Slots, Planes
  <2>3. \A i \in DOMAIN batch'[v] : Owns(v, batch[v][i][1])'
    BY <1>9 DEF Owns
  <2> QED BY <2>1, <2>2, <2>3 DEF ViewRight
<1>12. ActorsInv' /\ CoherenceInv'
  BY <1>3, <1>4, <1>6, <1>9, <1>10, <1>11, WriterStepRight
<1>13. StoreTypeOK'
  <2>1. /\ compileEnd' \in Nat /\ task' \in [Actors -> Task]
        /\ view' \in [Views -> {"none", "read", "write", "writer"}]
    BY <1>1, <1>3 DEF StoreTypeOK
  <2> QED BY <1>1, <1>3, <1>6, <1>9, <2>1, WriterType
<1>14. OwnInv(own)'
  <2>1. Idle.step = "none"
    BY DEF Idle
  <2>2. ASSUME NEW b \in Actors
        PROVE  Undisturbed(b)
    BY <1>3, <1>9, <2>1 DEF Undisturbed
  <2> QED BY <1>2, <1>3, <1>4, <2>2, QuietOwn
<1> QED BY <1>2, <1>12, <1>13, <1>14 DEF StoreInv

LEMMA WriterGoneRight ==
  ASSUME StoreConstants, StoreInv, NEW v \in Views, view[v] = "writer", WriterGone(v)
  PROVE  StoreInv'
<1>1. StoreTypeOK /\ ActorsInv /\ v \in Actors /\ TaskRight(v) /\ ViewRight(v)
  BY DEF StoreInv, ActorsInv, Actors
<1>2. PICK own \in [Nat -> Pages] : OwnInv(own)
  BY DEF StoreInv
<1>3. /\ view' = [view EXCEPT ![v] = "none"] /\ batch' = [batch EXCEPT ![v] = <<>>]
      /\ nextPlane' = [nextPlane EXCEPT ![v] = Planes(v)] /\ task' = [task EXCEPT ![v] = Idle]
      /\ UNCHANGED <<file, disk, exact, mode, refs, dir, cap, cache, mutex, compile, compileEnd>>
  BY DEF WriterGone, stored
<1>4. /\ Writing /\ task[Main] = Idle
      /\ \A o \in Views : o # v /\ Overlaps(v, o) => view[o] = "none"
  BY WriterFacts
<1>5. /\ task' \in [Actors -> Task] /\ task'[v] = Idle
      /\ \A b \in Actors \ {v} : task'[b] = task[b]
  BY <1>1, <1>3, TaskType, NoSlotsFacts
<1>6. /\ view' \in [Views -> {"none", "read", "write", "writer"}] /\ view'[v] = "none"
      /\ batch' \in [Views -> Seq(Pages \X Contents)] /\ batch'[v] = <<>>
      /\ nextPlane' \in [Views -> Nat] /\ nextPlane'[v] = Planes(v)
      /\ \A o \in Views \ {v} : view'[o] = view[o] /\ batch'[o] = batch[o] /\ nextPlane'[o] = nextPlane[o]
  <2>1. /\ view \in [Views -> {"none", "read", "write", "writer"}] /\ nextPlane \in [Views -> Nat]
        /\ batch \in [Views -> Seq(Pages \X Contents)] /\ Planes(v) \in Nat
        /\ <<>> \in Seq(Pages \X Contents)
    BY <1>1, PlanesType DEF StoreTypeOK
  <2> QED BY <1>3, <2>1
<1>7. TaskRight(v)'
  BY <1>5, IdleRight
<1>8. ViewRight(v)'
  <2>1. Idle.goal = "none"
    BY DEF Idle
  <2>2. /\ cache'[v] = NoSlots(v)' /\ nextPlane'[v] <= Planes(v)'
    BY <1>1, <1>3, <1>6, PlanesType DEF ViewRight, NoSlots, Slots, Planes
  <2> QED BY <1>5, <1>6, <2>1, <2>2 DEF ViewRight
<1>9. ActorsInv' /\ CoherenceInv'
  BY <1>3, <1>4, <1>5, <1>6, <1>7, <1>8, WriterStepRight
<1>10. StoreTypeOK'
  <2>1. compileEnd' \in Nat
    BY <1>1, <1>3 DEF StoreTypeOK
  <2> QED BY <1>1, <1>3, <1>5, <1>6, <2>1, WriterType
<1>11. OwnInv(own)'
  <2>1. Idle.step = "none" /\ task[v].step # "length"
    <3>1. task[v].step # "length"
      <4>1. ~Storing(v)
        BY <1>1, <1>4, WritingFacts
      <4> QED BY <4>1 DEF Storing
    <3> QED BY <3>1 DEF Idle
  <2>2. ASSUME NEW b \in Actors
        PROVE  Undisturbed(b)
    BY <1>3, <1>5, <1>6, <2>1 DEF Undisturbed
  <2> QED BY <1>2, <1>3, <1>4, <2>2, QuietOwn
<1> QED BY <1>2, <1>9, <1>10, <1>11 DEF StoreInv

(* A writer that has reserved bytes is open. *)
LEMMA ExtentOpen ==
  ASSUME StoreConstants, StoreInv, NEW v \in Views, task[v].step = "extent"
  PROVE  view[v] = "writer" /\ batch[v] # <<>>
<1>1. v \in Actors
  BY DEF Actors
<1>2. TaskRight(v) /\ ViewRight(v)
  BY <1>1 DEF StoreInv, ActorsInv
<1> QED BY <1>2 DEF TaskRight, ViewRight

LEMMA WriterEnds ==
  ASSUME StoreConstants, StoreInv, NEW v \in Views, WriterFails(v) \/ CloseWriter(v)
  PROVE  StoreInv'
<1>1. WriterGone(v)
  BY DEF WriterFails, CloseWriter
<1>2. view[v] = "writer"
  BY ExtentOpen DEF WriterFails, CloseWriter
<1> QED BY <1>1, <1>2, WriterGoneRight

LEMMA PrepareRight ==
  ASSUME StoreConstants, StoreInv, Prepare
  PROVE  StoreInv'
<1>1. StoreTypeOK /\ ActorsInv /\ CoherenceInv
  BY DEF StoreInv
<1>2. PICK own \in [Nat -> Pages] : OwnInv(own)
  BY DEF StoreInv
<1>3. /\ mode = "write" /\ NoViews /\ task[Main] = Idle
      /\ file = <<>> /\ dir = NoPages /\ cache[Main] = NoSlots(Main)
      /\ exact' = TRUE /\ compile' = TRUE /\ compileEnd' = 0
      /\ UNCHANGED <<file, disk, mode, refs, dir, cap, cache, view, task, mutex, batch, nextPlane>>
  BY DEF Prepare
<1>4. /\ Main \in Actors /\ Main \notin Views /\ (\A b \in Actors : b # Main => b \in Views)
      /\ \A v \in Views : v \in Actors
  BY DEF Actors, StoreConstants
<1>5. Idle.step = "none" /\ Idle.goal = "none"
  BY DEF Idle
<1>6. \A b \in Actors : task[b] = Idle /\ cache[b] = NoSlots(b)
  BY <1>1, <1>3, <1>4 DEF NoViews, ActorsInv, ViewRight
<1>7. \A b \in Actors : Dirty(b) = {}
                        /\ \A s \in Slots(b) : cache[b][s].content = Err /\ cache[b][s].dirty = FALSE
  <2> SUFFICES ASSUME NEW b \in Actors
               PROVE  Dirty(b) = {}
                      /\ \A s \in Slots(b) : cache[b][s].content = Err /\ cache[b][s].dirty = FALSE
    OBVIOUS
  <2>1. cache[b] = NoSlots(b)
    BY <1>6
  <2> QED BY <2>1, EmptySlots
<1>8. \A b : Dirty(b)' = Dirty(b) /\ Slots(b)' = Slots(b) /\ NoSlots(b)' = NoSlots(b)
  BY <1>3 DEF Dirty, Slots, NoSlots
<1>9. StoreTypeOK'
  <2>1. TRUE \in BOOLEAN /\ 0 \in Nat
    OBVIOUS
  <2> QED BY <1>1, <1>3, <1>8, <2>1 DEF StoreTypeOK
<1>10. ActorsInv'
  <2>1. \A b \in Actors : TaskRight(b)'
    <3>1. \A b \in Actors : task'[b] = Idle
      BY <1>3, <1>6
    <3> QED BY <3>1, IdleRight
  <2>2. ASSUME NEW v \in Views PROVE ViewRight(v)'
    <3>1. ViewRight(v) /\ view[v] = "none" /\ task[v] = Idle /\ cache[v] = NoSlots(v)
      BY <1>1, <1>3, <1>4, <1>6 DEF ActorsInv, NoViews
    <3>2. batch[v] = <<>> /\ nextPlane[v] <= Planes(v)
      BY <3>1 DEF ViewRight
    <3>3. nextPlane'[v] <= Planes(v)'
      BY <1>3, <3>2 DEF Planes
    <3> QED BY <1>3, <1>5, <1>8, <1>4, <3>1, <3>2, <3>3 DEF ViewRight
  <2>3. ViewsApart' /\ ClosedRight'
    BY <1>3 DEF ViewsApart, ClosedRight, NoViews
  <2>4. CompileRight' /\ MainRight'
    BY <1>3, <1>4, <1>5, <1>6, <1>7, <1>8 DEF CompileRight, MainRight, NoViews
  <2> QED BY <2>1, <2>2, <2>3, <2>4 DEF ActorsInv
<1>11. OwnInv(own)'
  <2>1. Len(file) = 0
    BY <1>3
  <2>2. \A q \in Pages : dir[q].at = 0 /\ dir[q].len = 0
    BY <1>3 DEF NoPages, NoBlock
  <2>3. \A q \in Pages : disk[q].at = 0
    <3> SUFFICES ASSUME NEW q \in Pages, disk[q].at # 0 PROVE FALSE
      OBVIOUS
    <3>1. Inside(file, own, q, disk[q].at, Reach(disk[q])) /\ disk[q] \in Entry
      BY <1>1, <1>2 DEF OwnInv, EntriesInside, EntryInside, StoreTypeOK
    <3>2. Reach(disk[q]) \in Nat /\ disk[q].at \in Nat
      BY <3>1, ReachFacts
    <3>3. disk[q].at + Reach(disk[q]) <= 0
      BY <2>1, <3>1 DEF Inside
    <3> QED BY <3>2, <3>3
  <2>4. EntriesInside(own)' /\ EntriesComplete'
    BY <1>3, <2>2, <2>3 DEF EntriesInside, EntryInside, EntriesComplete
  <2>5. StoresRight(own)' /\ ExtentsRight(own)'
    BY <1>3, <1>4, <1>5, <1>6 DEF StoresRight, ExtentsRight
  <2>6. Len(file') <= compileEnd'
    BY <1>3, <2>1
  <2> QED BY <2>4, <2>5, <2>6 DEF OwnInv
<1>12. CoherenceInv'
  <2>1. \A b \in Actors : \A s \in Slots(b)' : cache'[b][s].content = Err /\ cache'[b][s].dirty = FALSE
    BY <1>3, <1>7, <1>8
  <2> QED BY <2>1 DEF CoherenceInv
<1> QED BY <1>2, <1>9, <1>10, <1>11, <1>12 DEF StoreInv

--------------------
(* Cells that are given to pages one after the other.                      *)
LEMMA Rising ==
  ASSUME NEW n \in Nat, NEW S \in [0 .. n -> Nat], \A i \in 1 .. n : S[i - 1] <= S[i]
  PROVE  \A i \in 0 .. n, j \in 0 .. n : i <= j => S[i] <= S[j]
<1> SUFFICES ASSUME NEW i \in 0 .. n PROVE \A j \in 0 .. n : i <= j => S[i] <= S[j]
  OBVIOUS
<1> DEFINE Wrong == {j \in 0 .. n : i <= j /\ ~(S[i] <= S[j])}
<1>1. Wrong = {}
  <2> SUFFICES ASSUME Wrong # {} PROVE FALSE
    OBVIOUS
  <2>1. PICK m \in Wrong : \A y \in Wrong : m <= y
    <3>1. Wrong \in SUBSET Nat
      OBVIOUS
    <3> HIDE DEF Wrong
    <3> QED BY <3>1, LeastNatural
  <2>2. m \in 0 .. n /\ i <= m /\ ~(S[i] <= S[m])
    OBVIOUS
  <2>3. i # m
    <3>1. S[i] \in Nat
      OBVIOUS
    <3> QED BY <2>2, <3>1
  <2>4. m \in 1 .. n /\ m - 1 \in 0 .. n /\ i <= m - 1 /\ ~(m <= m - 1)
    BY <2>2, <2>3
  <2>5. m - 1 \notin Wrong
    <3> HIDE DEF Wrong
    <3> QED BY <2>1, <2>4
  <2>6. S[i] <= S[m - 1] /\ S[m - 1] <= S[m]
    BY <2>4, <2>5
  <2>7. S[i] \in Nat /\ S[m - 1] \in Nat /\ S[m] \in Nat
    BY <2>2, <2>4
  <2> QED BY <2>2, <2>6, <2>7
<1> QED BY <1>1

(* The i-th range of cells, behind the ranges before it. *)
Extent(S, i) == S[i - 1] + 1 .. S[i]

Given(own, S, pages, own2) ==
  /\ \A i \in DOMAIN pages : \A k \in Extent(S, i) : own2[k] = pages[i]
  /\ \A k \in Nat : k <= S[0] => own2[k] = own[k]

LEMMA Extents ==
  ASSUME NEW n \in Nat, NEW S \in [0 .. n -> Nat], \A i \in 1 .. n : S[i - 1] <= S[i],
         NEW own \in [Nat -> Pages], NEW pages \in [1 .. n -> Pages]
  PROVE  \E own2 \in [Nat -> Pages] : Given(own, S, pages, own2)
<1>1. \A i \in 0 .. n, j \in 0 .. n : i <= j => S[i] <= S[j]
  BY Rising
<1> DEFINE At(k) == {i \in 1 .. n : k \in Extent(S, i)}
           own2 == [k \in Nat |-> IF At(k) = {} THEN own[k] ELSE pages[CHOOSE i \in At(k) : TRUE]]
<1>2. ASSUME NEW i \in 1 .. n, NEW j \in 1 .. n, NEW k, k \in Extent(S, i), k \in Extent(S, j)
      PROVE  i = j
  <2>1. /\ i - 1 \in 0 .. n /\ j - 1 \in 0 .. n /\ i \in 0 .. n /\ j \in 0 .. n
        /\ S[i - 1] \in Nat /\ S[j - 1] \in Nat /\ S[i] \in Nat /\ S[j] \in Nat
    OBVIOUS
  <2>2. k \in Nat /\ S[i - 1] < k /\ k <= S[i] /\ S[j - 1] < k /\ k <= S[j]
    BY <1>2, <2>1 DEF Extent
  <2>3. ~(i < j)
    <3> SUFFICES ASSUME i < j PROVE FALSE
      OBVIOUS
    <3>1. S[i] <= S[j - 1]
      BY <1>1, <2>1
    <3> QED BY <2>1, <2>2, <3>1
  <2>4. ~(j < i)
    <3> SUFFICES ASSUME j < i PROVE FALSE
      OBVIOUS
    <3>1. S[j] <= S[i - 1]
      BY <1>1, <2>1
    <3> QED BY <2>1, <2>2, <3>1
  <2> QED BY <2>3, <2>4
<1>3. ASSUME NEW k \in Nat, At(k) # {} PROVE (CHOOSE i \in At(k) : TRUE) \in At(k)
  BY <1>3
<1>4. \A k \in Nat : At(k) \subseteq 1 .. n
  OBVIOUS
<1>5. \A i \in 1 .. n, k \in Nat : k \in Extent(S, i) => At(k) = {i}
  BY <1>2
<1>6. ASSUME NEW k \in Nat, k <= S[0] PROVE At(k) = {}
  <2> SUFFICES ASSUME NEW i \in 1 .. n, k \in Extent(S, i) PROVE FALSE
    OBVIOUS
  <2>1. i - 1 \in 0 .. n /\ 0 \in 0 .. n /\ S[i - 1] \in Nat /\ S[0] \in Nat /\ S[i] \in Nat
    OBVIOUS
  <2>2. S[0] <= S[i - 1] /\ S[i - 1] < k
    BY <1>1, <2>1 DEF Extent
  <2> QED BY <1>6, <2>1, <2>2
<1>7. \A i \in 1 .. n : Extent(S, i) \subseteq Nat
  <2> SUFFICES ASSUME NEW i \in 1 .. n PROVE Extent(S, i) \subseteq Nat
    OBVIOUS
  <2>1. i - 1 \in 0 .. n /\ S[i - 1] \in Nat
    OBVIOUS
  <2> QED BY <2>1 DEF Extent
<1> HIDE DEF At
<1>8. \A k \in Nat : own2[k] = IF At(k) = {} THEN own[k] ELSE pages[CHOOSE i \in At(k) : TRUE]
  OBVIOUS
<1>9. own2 \in [Nat -> Pages]
  <2> SUFFICES ASSUME NEW k \in Nat
               PROVE  (IF At(k) = {} THEN own[k] ELSE pages[CHOOSE i \in At(k) : TRUE]) \in Pages
    OBVIOUS
  <2> QED BY <1>3, <1>4
<1> HIDE DEF own2
<1>10. ASSUME NEW i \in 1 .. n, NEW k \in Extent(S, i) PROVE own2[k] = pages[i]
  <2>1. k \in Nat
    BY <1>7
  <2>2. At(k) = {i}
    BY <1>5, <2>1
  <2> QED BY <1>8, <2>1, <2>2
<1>11. \A k \in Nat : k <= S[0] => own2[k] = own[k]
  BY <1>6, <1>8
<1>12. Given(own, S, pages, own2)
  BY <1>10, <1>11 DEF Given
<1> QED BY <1>9, <1>12

--------------------
(* The records of a batch.                                                 *)
Record == Pages \X Contents
Rows(b) == [i \in DOMAIN b |-> Block(b[i][2], 0)]

LEMMA RecordBlock ==
  ASSUME StoreConstants, NEW e \in Record
  PROVE  /\ Block(e[2], 0) \in Seq(Cell) /\ Len(Block(e[2], 0)) = 1 + Size[e[2]]
         /\ Size[e[2]] \in Nat \ {0} /\ e[1] \in Pages /\ e[2] \in Contents
<1>1. e[2] \in Contents /\ e[1] \in Pages /\ e[2] # Draw /\ e[2] \in Values
      /\ Size[e[2]] \in Nat \ {0}
  BY DEF Record, StoreConstants, Values
<1>2. Max({Size[e[2]], 0}) = Size[e[2]]
  BY <1>1, MaxPair
<1>3. Block(e[2], 0) \in Seq(Cell) /\ Len(Block(e[2], 0)) = 1 + Max({Size[e[2]], 0})
  BY <1>1, BlockFacts
<1> QED BY <1>1, <1>2, <1>3

LEMMA RowsType ==
  ASSUME StoreConstants, NEW b \in Seq(Record)
  PROVE  Rows(b) \in Seq(Seq(Cell)) /\ BatchCells(b) \in Seq(Cell) /\ BatchCells(b) = FlattenSeq(Rows(b))
<1>1. DOMAIN b = 1 .. Len(b) /\ Len(b) \in Nat /\ \A i \in 1 .. Len(b) : b[i] \in Record
  OBVIOUS
<1>2. \A i \in 1 .. Len(b) : Block(b[i][2], 0) \in Seq(Cell)
  BY <1>1, RecordBlock
<1>3. Rows(b) \in Seq(Seq(Cell))
  BY <1>1, <1>2 DEF Rows
<1>4. BatchCells(b) = FlattenSeq(Rows(b))
  BY DEF BatchCells, Rows
<1> QED BY <1>3, <1>4, FlattenType

LEMMA AppendForm ==
  ASSUME NEW R, NEW t \in Seq(R), NEW n \in Nat, Len(t) = n, NEW e \in R
  PROVE  Append(t, e) = [k \in 1 .. n + 1 |-> IF k = n + 1 THEN e ELSE t[k]]
<1>1. /\ Append(t, e) \in Seq(R) /\ Len(Append(t, e)) = n + 1
      /\ (\A k \in 1 .. n : Append(t, e)[k] = t[k]) /\ Append(t, e)[n + 1] = e
  BY LongerSeq
<1>2. PICK u \in Seq(R) : u = Append(t, e) /\ Len(u) = n + 1
  BY <1>1
<1>3. u = [k \in 1 .. Len(u) |-> u[k]]
  OBVIOUS
<1>4. \A k \in 1 .. n + 1 : u[k] = IF k = n + 1 THEN e ELSE t[k]
  <2> SUFFICES ASSUME NEW k \in 1 .. n + 1, k # n + 1 PROVE u[k] = t[k]
    BY <1>1, <1>2
  <2>1. k \in 1 .. n
    OBVIOUS
  <2> QED BY <1>1, <1>2, <2>1
<1> QED BY <1>2, <1>3, <1>4

LEMMA BatchAppend ==
  ASSUME StoreConstants, NEW b \in Seq(Record), NEW e \in Record
  PROVE  /\ Len(BatchCells(Append(b, e))) = Len(BatchCells(b)) + 1 + Size[e[2]]
         /\ BatchCells(Append(b, e)) = BatchCells(b) \o Block(e[2], 0)
<1>1. PICK block \in Seq(Cell) : block = Block(e[2], 0) /\ Len(block) = 1 + Size[e[2]]
  BY RecordBlock
<1>2. PICK rows \in Seq(Seq(Cell)) : rows = Rows(b)
  BY RowsType
<1>3. Rows(Append(b, e)) = Append(rows, block)
  <2>1. PICK n \in Nat : n = Len(b)
    OBVIOUS
  <2>2. /\ Append(b, e) \in Seq(Record) /\ Len(Append(b, e)) = n + 1
        /\ DOMAIN Append(b, e) = 1 .. n + 1 /\ DOMAIN b = 1 .. n
        /\ (\A i \in 1 .. n : Append(b, e)[i] = b[i]) /\ Append(b, e)[n + 1] = e
    BY <2>1, LongerSeq
  <2>3. Len(rows) = n /\ DOMAIN rows = 1 .. n /\ \A i \in 1 .. n : rows[i] = Block(b[i][2], 0)
    <3>1. DOMAIN rows = 1 .. n /\ \A i \in 1 .. n : rows[i] = Block(b[i][2], 0)
      BY <1>2, <2>2 DEF Rows
    <3>2. Len(rows) \in Nat /\ DOMAIN rows = 1 .. Len(rows)
      OBVIOUS
    <3> QED BY <2>1, <3>1, <3>2
  <2>5. Append(rows, block) = [i \in 1 .. n + 1 |-> IF i = n + 1 THEN block ELSE rows[i]]
    BY <2>3, AppendForm
  <2>6. Rows(Append(b, e)) = [i \in 1 .. n + 1 |-> Block(Append(b, e)[i][2], 0)]
    BY <2>2 DEF Rows
  <2>7. \A i \in 1 .. n + 1 :
          (IF i = n + 1 THEN block ELSE rows[i]) = Block(Append(b, e)[i][2], 0)
    <3> SUFFICES ASSUME NEW i \in 1 .. n + 1
                 PROVE  (IF i = n + 1 THEN block ELSE rows[i]) = Block(Append(b, e)[i][2], 0)
      OBVIOUS
    <3>1. CASE i = n + 1
      BY <1>1, <2>2, <3>1
    <3>2. CASE i # n + 1
      <4>1. i \in 1 .. n
        BY <3>2
      <4> QED BY <2>2, <2>3, <3>2, <4>1
    <3> QED BY <3>1, <3>2
  <2> QED BY <2>5, <2>6, <2>7
<1>4. Append(b, e) \in Seq(Record)
  OBVIOUS
<1>5. PICK t : t = Append(b, e)
  OBVIOUS
<1>6. BatchCells(t) = FlattenSeq(Append(rows, block))
  BY <1>3, <1>4, <1>5, RowsType
<1>7. FlattenSeq(Append(rows, block)) = FlattenSeq(rows) \o block
  BY FlattenAppend
<1>8. FlattenSeq(rows) = BatchCells(b) /\ BatchCells(b) \in Seq(Cell)
  BY <1>2, RowsType
<1>9. PICK cells \in Seq(Cell) : cells = BatchCells(b)
  BY <1>8
<1>10. Len(cells \o block) = Len(cells) + Len(block) /\ Len(cells) \in Nat
  OBVIOUS
<1>11. Len(BatchCells(t)) = Len(cells) + Len(block)
  BY <1>6, <1>7, <1>8, <1>9, <1>10
<1>12. PICK m \in Nat : m = Size[e[2]]
  BY RecordBlock
<1>13. PICK n \in Nat : n = Len(cells)
  OBVIOUS
<1>14. Len(BatchCells(t)) = n + (1 + m)
  BY <1>1, <1>11, <1>12, <1>13
<1>15. n + (1 + m) = n + 1 + m
  BY ONLY n \in Nat, m \in Nat
<1>16. BatchCells(t) = BatchCells(b) \o Block(e[2], 0)
  BY <1>1, <1>6, <1>7, <1>8
<1> QED BY <1>5, <1>9, <1>12, <1>13, <1>14, <1>15, <1>16

LEMMA SubSeqFacts ==
  ASSUME NEW R, NEW b \in Seq(R)
  PROVE  /\ SubSeq(b, 1, 0) = <<>> /\ SubSeq(b, 1, Len(b)) = b
         /\ \A i \in 1 .. Len(b) : /\ SubSeq(b, 1, i - 1) \in Seq(R) /\ b[i] \in R
                                   /\ SubSeq(b, 1, i) = Append(SubSeq(b, 1, i - 1), b[i])
<1>1. SubSeq(b, 1, 0) = <<>> /\ SubSeq(b, 1, Len(b)) = b
  OBVIOUS
<1>2. ASSUME NEW i \in 1 .. Len(b)
      PROVE  /\ SubSeq(b, 1, i - 1) \in Seq(R) /\ b[i] \in R
             /\ SubSeq(b, 1, i) = Append(SubSeq(b, 1, i - 1), b[i])
  <2>1. PICK n \in Nat : n = i - 1 /\ i = n + 1 /\ n + 1 <= Len(b)
    OBVIOUS
  <2>2. SubSeq(b, 1, n) = [k \in 1 .. n |-> b[k]] /\ SubSeq(b, 1, n + 1) = [k \in 1 .. n + 1 |-> b[k]]
    BY <2>1
  <2>3. SubSeq(b, 1, n) \in Seq(R) /\ Len(SubSeq(b, 1, n)) = n
    BY <2>1
  <2>4. PICK t \in Seq(R) : t = SubSeq(b, 1, n) /\ Len(t) = n
    BY <2>3
  <2>5. Append(t, b[i]) = [k \in 1 .. n + 1 |-> IF k = n + 1 THEN b[i] ELSE t[k]]
    BY <2>1, <2>4
  <2>6. \A k \in 1 .. n + 1 : (IF k = n + 1 THEN b[i] ELSE t[k]) = b[k]
    BY <2>1, <2>2, <2>4
  <2>7. SubSeq(b, 1, n + 1) = Append(t, b[i])
    BY <2>2, <2>5, <2>6
  <2> QED BY <2>1, <2>3, <2>4, <2>7
<1> QED BY <1>1, <1>2

(* Where the blocks of a batch start and end, behind the cell from. *)
Starts(from, b) == [i \in 0 .. Len(b) |-> from + Len(BatchCells(SubSeq(b, 1, i)))]
RangeAt(at, b, i) == at + Len(BatchCells(SubSeq(b, 1, i - 1)))

StartsRight(S, from, b) ==
  /\ S \in [0 .. Len(b) -> Nat] /\ S[0] = from /\ Len(b) \in Nat
  /\ S[Len(b)] = from + Len(BatchCells(b)) /\ Len(BatchCells(b)) \in Nat
  /\ \A i \in 1 .. Len(b) : S[i] = S[i - 1] + 1 + Size[b[i][2]]
  /\ \A i \in 1 .. Len(b) : S[i - 1] <= S[i]
  /\ \A i \in 1 .. Len(b) : Size[b[i][2]] \in Nat \ {0}

LEMMA StartsFacts ==
  ASSUME StoreConstants, NEW from \in Nat, NEW b \in Seq(Record)
  PROVE  StartsRight(Starts(from, b), from, b)
<1>0. PICK S : S = Starts(from, b)
  OBVIOUS
<1>1. Len(b) \in Nat
  OBVIOUS
<1>2. ASSUME NEW t \in Seq(Record) PROVE Len(BatchCells(t)) \in Nat
  <2>1. PICK cells \in Seq(Cell) : cells = BatchCells(t)
    BY RowsType
  <2> QED BY <2>1
<1>3. \A i \in 0 .. Len(b) : S[i] = from + Len(BatchCells(SubSeq(b, 1, i)))
  BY <1>0 DEF Starts
<1>4. SubSeq(b, 1, 0) = <<>> /\ SubSeq(b, 1, Len(b)) = b
      /\ \A i \in 1 .. Len(b) : /\ SubSeq(b, 1, i - 1) \in Seq(Record) /\ b[i] \in Record
                                /\ SubSeq(b, 1, i) = Append(SubSeq(b, 1, i - 1), b[i])
  BY SubSeqFacts
<1>5. S[0] = from
  <2>1. BatchCells(<<>>) = <<>>
    <3>1. <<>> \in Seq(Record) /\ Rows(<<>>) = <<>>
      BY DEF Rows
    <3> QED BY <3>1, RowsType, FlattenEmpty
  <2>2. 0 \in 0 .. Len(b) /\ Len(<<>>) = 0
    BY <1>1
  <2>3. S[0] = from + Len(BatchCells(SubSeq(b, 1, 0)))
    BY <1>3, <2>2
  <2>4. Len(BatchCells(SubSeq(b, 1, 0))) = 0
    BY <1>4, <2>1, <2>2
  <2> QED BY <2>3, <2>4
<1>6. S[Len(b)] = from + Len(BatchCells(b)) /\ Len(BatchCells(b)) \in Nat
  <2>1. Len(b) \in 0 .. Len(b)
    BY <1>1
  <2> QED BY <1>2, <1>3, <1>4, <2>1
<1>7. ASSUME NEW i \in 1 .. Len(b)
      PROVE  /\ S[i] = S[i - 1] + 1 + Size[b[i][2]] /\ S[i - 1] \in Nat /\ S[i] \in Nat
             /\ Size[b[i][2]] \in Nat \ {0} /\ S[i - 1] <= S[i]
  <2>1. i - 1 \in 0 .. Len(b) /\ i \in 0 .. Len(b)
    BY <1>1
  <2>2. PICK t \in Seq(Record), e \in Record : t = SubSeq(b, 1, i - 1) /\ e = b[i]
    BY <1>4
  <2>3. SubSeq(b, 1, i) = Append(t, e)
    BY <1>4, <2>2
  <2>4. Len(BatchCells(Append(t, e))) = Len(BatchCells(t)) + 1 + Size[e[2]]
    BY BatchAppend
  <2>5. PICK n \in Nat, m \in Nat \ {0} : n = Len(BatchCells(t)) /\ m = Size[e[2]]
    BY <1>2, RecordBlock
  <2>6. S[i] = from + (n + 1 + m) /\ S[i - 1] = from + n
    BY <1>3, <2>1, <2>2, <2>3, <2>4, <2>5
  <2>7. Size[b[i][2]] = m
    BY <2>2, <2>5
  <2>8. from + (n + 1 + m) = (from + n) + 1 + m /\ from + n \in Nat /\ from + (n + 1 + m) \in Nat
        /\ from + n <= from + (n + 1 + m)
    BY ONLY from \in Nat, n \in Nat, m \in Nat \ {0}
  <2> QED BY <2>5, <2>6, <2>7, <2>8
<1>8. S \in [0 .. Len(b) -> Nat]
  <2>1. \A i \in 0 .. Len(b) : S[i] \in Nat
    <3> SUFFICES ASSUME NEW i \in 0 .. Len(b) PROVE S[i] \in Nat
      OBVIOUS
    <3>1. CASE i = 0
      BY <1>5, <3>1
    <3>2. CASE i # 0
      <4>1. i \in 1 .. Len(b)
        BY <1>1, <3>2
      <4> QED BY <1>7, <4>1
    <3> QED BY <3>1, <3>2
  <2>2. S = [i \in 0 .. Len(b) |-> S[i]]
    BY <1>0 DEF Starts
  <2> QED BY <2>1, <2>2
<1>9. /\ \A i \in 1 .. Len(b) : S[i] = S[i - 1] + 1 + Size[b[i][2]]
      /\ \A i \in 1 .. Len(b) : S[i - 1] <= S[i]
      /\ \A i \in 1 .. Len(b) : Size[b[i][2]] \in Nat \ {0}
  BY <1>7
<1> QED BY <1>0, <1>1, <1>5, <1>6, <1>8, <1>9 DEF StartsRight

(* The block of a record is one of those ranges. *)
RangeRight(S, at, b, i) ==
  /\ RangeAt(at, b, i) = S[i - 1] + 1 /\ RangeAt(at, b, i) \in Nat \ {0}
  /\ RangeAt(at, b, i) + Size[b[i][2]] = S[i]
  /\ RangeAt(at, b, i) .. RangeAt(at, b, i) + Size[b[i][2]] = Extent(S, i)
  /\ S[i] <= at + Len(BatchCells(b)) - 1

LEMMA RangeFacts ==
  ASSUME StoreConstants, NEW at \in Nat \ {0}, NEW b \in Seq(Record), NEW i \in 1 .. Len(b)
  PROVE  RangeRight(Starts(at - 1, b), at, b, i)
<1>0. PICK S : S = Starts(at - 1, b)
  OBVIOUS
<1>1. /\ S \in [0 .. Len(b) -> Nat] /\ S[0] = at - 1 /\ Len(b) \in Nat
      /\ S[Len(b)] = (at - 1) + Len(BatchCells(b)) /\ Len(BatchCells(b)) \in Nat
      /\ \A j \in 1 .. Len(b) : S[j] = S[j - 1] + 1 + Size[b[j][2]]
      /\ \A j \in 1 .. Len(b) : S[j - 1] <= S[j]
      /\ \A j \in 1 .. Len(b) : Size[b[j][2]] \in Nat \ {0}
  <2>1. PICK from \in Nat : from = at - 1
    OBVIOUS
  <2>2. StartsRight(S, from, b)
    BY <1>0, <2>1, StartsFacts
  <2> QED BY <1>0, <2>1, <2>2 DEF StartsRight
<1>2. i - 1 \in 0 .. Len(b) /\ i \in 0 .. Len(b) /\ Len(b) \in 0 .. Len(b) /\ i <= Len(b)
  BY <1>1
<1>3. S[i - 1] \in Nat /\ S[i] \in Nat
  BY <1>1, <1>2
<1>4. S[i - 1] = (at - 1) + Len(BatchCells(SubSeq(b, 1, i - 1)))
  BY <1>0, <1>2 DEF Starts
<1>5. PICK n \in Nat : n = Len(BatchCells(SubSeq(b, 1, i - 1)))
  <2>1. SubSeq(b, 1, i - 1) \in Seq(Record)
    BY SubSeqFacts
  <2>2. PICK cells \in Seq(Cell) : cells = BatchCells(SubSeq(b, 1, i - 1))
    BY <2>1, RowsType
  <2> QED BY <2>2
<1>6. RangeAt(at, b, i) = S[i - 1] + 1
  BY <1>4, <1>5 DEF RangeAt
<1>7. S[i] <= S[Len(b)]
  <2>1. \A k \in 0 .. Len(b), j \in 0 .. Len(b) : k <= j => S[k] <= S[j]
    BY <1>1, Rising
  <2> QED BY <1>2, <2>1
<1>8. PICK l \in Nat, m \in Nat \ {0} : l = S[i - 1] /\ m = Size[b[i][2]] /\ S[i] = l + 1 + m
  BY <1>1, <1>3
<1>9. RangeAt(at, b, i) = l + 1 /\ RangeAt(at, b, i) \in Nat \ {0}
      /\ RangeAt(at, b, i) + Size[b[i][2]] = S[i]
  BY <1>6, <1>8
<1>10. RangeAt(at, b, i) .. RangeAt(at, b, i) + Size[b[i][2]] = Extent(S, i)
  BY <1>6, <1>9 DEF Extent
<1>11. S[i] <= at + Len(BatchCells(b)) - 1
  BY <1>1, <1>3, <1>7
<1>12. RangeRight(S, at, b, i)
  BY <1>6, <1>9, <1>10, <1>11 DEF RangeRight
<1> QED BY <1>0, <1>12

LEMMA RangeBound ==
  ASSUME StoreConstants, NEW at \in Nat \ {0}, NEW b \in Seq(Record), NEW i \in 1 .. Len(b),
         NEW k \in RangeAt(at, b, i) .. RangeAt(at, b, i) + Size[b[i][2]]
  PROVE  k \in Nat /\ k # 0 /\ k <= at + Len(BatchCells(b)) - 1
<1>1. PICK S : S = Starts(at - 1, b)
  OBVIOUS
<1>2. /\ RangeAt(at, b, i) \in Nat \ {0} /\ RangeAt(at, b, i) + Size[b[i][2]] = S[i]
      /\ S[i] <= at + Len(BatchCells(b)) - 1
  <2>1. RangeRight(S, at, b, i)
    BY <1>1, RangeFacts
  <2> QED BY <2>1 DEF RangeRight
<1>3. PICK l \in Nat \ {0}, m \in Nat \ {0}, n \in Nat :
        l = RangeAt(at, b, i) /\ m = Size[b[i][2]] /\ n = Len(BatchCells(b))
  <2>1. b[i] \in Record
    OBVIOUS
  <2>2. PICK cells \in Seq(Cell) : cells = BatchCells(b)
    BY RowsType
  <2>3. Size[b[i][2]] \in Nat \ {0}
    BY <2>1, RecordBlock
  <2> QED BY <1>2, <2>2, <2>3
<1>4. l + m <= at + n - 1
  BY <1>2, <1>3
<1>5. k \in l .. l + m
  BY <1>3
<1> QED BY <1>3, <1>4, <1>5

LEMMA ReserveExtentRight ==
  ASSUME StoreConstants, StoreInv, NEW v \in Views, ReserveExtent(v)
  PROVE  StoreInv'
<1>1. StoreTypeOK /\ ActorsInv /\ v \in Actors /\ TaskRight(v) /\ ViewRight(v) /\ v # Main
  BY DEF StoreInv, ActorsInv, Actors, StoreConstants
<1>2. PICK own \in [Nat -> Pages] : OwnInv(own)
  BY DEF StoreInv
<1>3. /\ view[v] = "writer" /\ task[v] = Idle /\ batch[v] # <<>>
      /\ compileEnd' = compileEnd + Len(BatchCells(batch[v]))
      /\ task' = [task EXCEPT ![v] = [Idle EXCEPT !.goal = "writer", !.step = "extent",
                                                  !.at = compileEnd + 1]]
      /\ UNCHANGED <<file, disk, exact, mode, refs, dir, cap, cache, view, mutex, compile, batch,
                     nextPlane>>
  BY DEF ReserveExtent, stored
<1>4. /\ Writing /\ task[Main] = Idle
      /\ \A o \in Views : o # v /\ Overlaps(v, o) => view[o] = "none"
  BY <1>3, WriterFacts
<1>5. PICK b \in Seq(Record) : b = batch[v]
  BY <1>1 DEF StoreTypeOK, Record
<1>6. PICK from \in Nat : from = compileEnd
  BY <1>1 DEF StoreTypeOK
<1>7. PICK t : t = [Idle EXCEPT !.goal = "writer", !.step = "extent", !.at = from + 1]
  OBVIOUS
<1>8. t \in Task /\ t.goal = "writer" /\ t.step = "extent" /\ t.at = from + 1
  <2>1. Idle \in Task
    BY NoSlotsFacts
  <2>2. PICK at \in Nat : at = from + 1
    OBVIOUS
  <2>3. t = [Idle EXCEPT !.goal = "writer", !.step = "extent", !.at = at]
    BY <1>7, <2>2
  <2>4. t \in Task /\ t.goal = "writer" /\ t.step = "extent" /\ t.at = at
    BY ONLY <2>1, <2>3, at \in Nat DEF Task
  <2> QED BY <2>2, <2>4
<1>9. /\ task' \in [Actors -> Task] /\ task'[v] = t
      /\ \A o \in Actors \ {v} : task'[o] = task[o]
  <2>1. task' = [task EXCEPT ![v] = t]
    BY <1>3, <1>6, <1>7
  <2> QED BY <1>1, <1>8, <2>1, TaskType
<1>10. PICK S : S = Starts(from, b) /\ StartsRight(S, from, b)
  BY StartsFacts
<1>11. PICK n \in Nat : n = Len(BatchCells(b)) /\ compileEnd' = from + n /\ from + n \in Nat
  BY <1>3, <1>5, <1>6, <1>10 DEF StartsRight
<1>12. TaskRight(v)'
  BY <1>1, <1>8, <1>9 DEF TaskRight, Storing
<1>13. ViewRight(v)'
  <2>1. /\ view'[v] = "writer" /\ cache'[v] = NoSlots(v)' /\ compile' /\ batch'[v] # <<>>
        /\ nextPlane'[v] <= Planes(v)'
    BY <1>1, <1>3 DEF ViewRight, NoSlots, Slots, Planes
  <2>2. \A i \in DOMAIN batch'[v] : Owns(v, batch[v][i][1])'
    BY <1>1, <1>3 DEF ViewRight, Owns
  <2> QED BY <1>8, <1>9, <2>1, <2>2 DEF ViewRight
<1>14. ActorsInv' /\ CoherenceInv'
  BY <1>3, <1>4, <1>9, <1>12, <1>13, WriterStepRight
<1>15. StoreTypeOK'
  <2>1. /\ compileEnd' \in Nat /\ view' \in [Views -> {"none", "read", "write", "writer"}]
        /\ batch' \in [Views -> Seq(Pages \X Contents)] /\ nextPlane' \in [Views -> Nat]
    BY <1>1, <1>3, <1>11 DEF StoreTypeOK
  <2> QED BY <1>1, <1>3, <1>9, <2>1, WriterType
<1>27. PICK m \in Nat : m = Len(b) /\ DOMAIN b = 1 .. m
  OBVIOUS
<1>16. PICK pages \in [1 .. m -> Pages] :
         m = Len(b) /\ DOMAIN b = 1 .. m /\ \A i \in 1 .. m : pages[i] = b[i][1]
  <2>2. \A i \in 1 .. m : b[i][1] \in Pages
    <3> SUFFICES ASSUME NEW i \in 1 .. m PROVE b[i][1] \in Pages
      OBVIOUS
    <3>1. b[i] \in Record
      BY <1>27
    <3> QED BY <3>1, RecordBlock
  <2>3. [i \in 1 .. m |-> b[i][1]] \in [1 .. m -> Pages]
    BY <2>2
  <2> QED BY <1>27, <2>3
<1>17. PICK own2 \in [Nat -> Pages] : Given(own, S, pages, own2)
  <2>1. S \in [0 .. m -> Nat] /\ \A i \in 1 .. m : S[i - 1] <= S[i]
    BY <1>10, <1>16 DEF StartsRight
  <2> QED BY <2>1, Extents
<1>18. \A k \in Nat : k <= from => own2[k] = own[k]
  BY <1>10, <1>17 DEF Given, StartsRight
<1>19. \A i \in 1 .. m : \A k \in Extent(S, i) : own2[k] = b[i][1]
  BY <1>16, <1>17 DEF Given
<1>20. Len(file) <= from /\ Len(file) \in Nat
  <2>1. Len(file) \in Nat
    BY <1>1 DEF StoreTypeOK
  <2> QED BY <1>2, <1>4, <1>6, <2>1 DEF OwnInv
<1>21. EntriesInside(own2)'
  <2>1. ASSUME NEW q \in Pages, NEW e \in Entry, EntryInside(own, q, e) PROVE EntryInside(own2, q, e)
    <3> SUFFICES ASSUME e.at # 0 PROVE Inside(file, own2, q, e.at, Reach(e))
      BY DEF EntryInside
    <3>1. Inside(file, own, q, e.at, Reach(e)) /\ e.at \in Nat /\ Reach(e) \in Nat
      BY <2>1, ReachFacts DEF EntryInside
    <3>2. \A k \in e.at .. e.at + Reach(e) : k \in Nat /\ k <= from
      BY <1>20, <3>1 DEF Inside
    <3> QED BY <1>18, <3>1, <3>2 DEF Inside
  <2>2. \A q \in Pages : /\ dir[q] \in Entry /\ disk[q] \in Entry
                         /\ EntryInside(own, q, dir[q]) /\ EntryInside(own, q, disk[q])
    BY <1>1, <1>2 DEF StoreTypeOK, OwnInv, EntriesInside
  <2>3. \A q \in Pages : EntryInside(own2, q, dir[q]) /\ EntryInside(own2, q, disk[q])
    BY <2>1, <2>2
  <2>4. \A e : Reach(e)' = Reach(e)
    BY <1>3 DEF Reach, Kept
  <2> QED BY <1>3, <2>3, <2>4 DEF EntriesInside, EntryInside
<1>22. EntriesComplete'
  <2>1. \A q \in Pages : dir[q].at = 0 <=> dir[q].len = 0
    BY <1>4, WritingFacts
  <2> QED BY <1>3, <2>1 DEF EntriesComplete
<1>23. StoresRight(own2)'
  <2> SUFFICES ASSUME NEW o \in Actors PROVE task'[o].step \notin {"payload", "length"}
    BY DEF StoresRight
  <2>1. CASE o = v
    BY <1>8, <1>9, <2>1
  <2>2. CASE o # v
    <3>1. ~Storing(o) /\ task'[o] = task[o]
      BY <1>4, <1>9, <2>2, WritingFacts
    <3> QED BY <3>1 DEF Storing
  <2> QED BY <2>1, <2>2
<1>24. ExtentsRight(own2)'
  <2> SUFFICES ASSUME NEW o \in Views, task'[o].step = "extent" PROVE ExtentRight(own2, o)'
    BY DEF ExtentsRight
  <2>1. CASE o = v
    <3>1. task'[o].at = from + 1 /\ batch'[o] = b
      BY <1>3, <1>5, <1>8, <1>9, <2>1
    <3>2. BatchEnd(o)' = from + n
      <4>1. BatchEnd(o)' = (from + 1) + n - 1
        BY <1>11, <3>1 DEF BatchEnd
      <4> QED BY <4>1
    <3>3. ASSUME NEW i \in 1 .. m,
                 NEW k \in RangeAt(from + 1, b, i) .. RangeAt(from + 1, b, i) + Size[b[i][2]]
          PROVE  own2[k] = b[i][1]
      <4>1. PICK at \in Nat \ {0} : at = from + 1 /\ at - 1 = from
        <5>1. from + 1 \in Nat \ {0} /\ (from + 1) - 1 = from
          BY ONLY from \in Nat
        <5> QED BY ONLY <5>1
      <4>2. PICK j \in 1 .. Len(b) : j = i
        BY <1>27
      <4>3. S = Starts(at - 1, b)
        BY <1>10, <4>1
      <4>4. RangeAt(at, b, j) .. RangeAt(at, b, j) + Size[b[j][2]] = Extent(S, j)
        <5>1. RangeRight(S, at, b, j)
          BY <4>3, RangeFacts
        <5> QED BY <5>1 DEF RangeRight
      <4> QED BY <1>19, <4>1, <4>2, <4>4
    <3>4. \A i \in DOMAIN batch'[o] : BatchAt(o, i)' = RangeAt(from + 1, b, i)
      BY <3>1 DEF BatchAt, RangeAt
    <3>5. \A i \in DOMAIN batch'[o] : i \in 1 .. m
      BY <1>16, <3>1
    <3>6. task'[o].at # 0 /\ BatchEnd(o)' <= compileEnd'
      BY <1>11, <3>1, <3>2
    <3>7. \A i \in DOMAIN batch'[o] :
            \A k \in BatchAt(o, i)' .. BatchAt(o, i)' + Size[batch'[o][i][2]] : own2[k] = batch'[o][i][1]
      BY <3>1, <3>3, <3>4, <3>5
    <3> QED BY <3>6, <3>7 DEF ExtentRight
  <2>2. CASE o # v
    <3>1. o \in Actors /\ task'[o] = task[o] /\ batch'[o] = batch[o]
      BY <1>3, <1>9, <2>2 DEF Actors
    <3>2. ExtentRight(own, o)
      BY <1>2, <3>1 DEF OwnInv, ExtentsRight
    <3>3. PICK c \in Seq(Record) : c = batch[o]
      BY <1>1 DEF StoreTypeOK, Record
    <3>4. PICK at \in Nat \ {0} : at = task[o].at
      BY <1>1, <3>1, <3>2 DEF StoreTypeOK, Task, ExtentRight
    <3>5. PICK l \in Nat : l = Len(BatchCells(c))
      <4>1. PICK cells \in Seq(Cell) : cells = BatchCells(c)
        BY ONLY StoreConstants, RowsType, c \in Seq(Record)
      <4> QED BY ONLY <4>1, cells \in Seq(Cell)
    <3>6. at + l - 1 <= from
      BY <1>6, <3>2, <3>3, <3>4, <3>5 DEF ExtentRight, BatchEnd
    <3>7. BatchEnd(o)' <= compileEnd'
      <4>1. BatchEnd(o)' = at + l - 1
        BY <3>1, <3>3, <3>4, <3>5 DEF BatchEnd
      <4> QED BY <1>11, <3>6, <4>1
    <3>8. ASSUME NEW i \in DOMAIN c, NEW k \in RangeAt(at, c, i) .. RangeAt(at, c, i) + Size[c[i][2]]
          PROVE  own2[k] = c[i][1]
      <4>1. i \in 1 .. Len(c)
        OBVIOUS
      <4>2. k \in Nat /\ k <= at + l - 1
        BY <3>5, <4>1, RangeBound
      <4>3. own2[k] = own[k]
        BY <1>18, <3>6, <4>2
      <4>4. BatchAt(o, i) = RangeAt(at, c, i)
        BY <3>3, <3>4 DEF BatchAt, RangeAt
      <4>5. own[k] = c[i][1]
        BY <3>2, <3>3, <4>4 DEF ExtentRight
      <4> QED BY <4>3, <4>5
    <3>9. \A i \in DOMAIN batch'[o] : BatchAt(o, i)' = RangeAt(at, c, i)
      BY <3>1, <3>3, <3>4 DEF BatchAt, RangeAt
    <3>10. \A i \in DOMAIN batch'[o] :
            \A k \in BatchAt(o, i)' .. BatchAt(o, i)' + Size[batch'[o][i][2]] : own2[k] = batch'[o][i][1]
      BY <3>1, <3>3, <3>8, <3>9
    <3> QED BY <3>1, <3>4, <3>7, <3>10 DEF ExtentRight
  <2> QED BY <2>1, <2>2
<1>25. Len(file') <= compileEnd'
  BY <1>3, <1>11, <1>20
<1>26. OwnInv(own2)'
  BY <1>21, <1>22, <1>23, <1>24, <1>25 DEF OwnInv
<1> QED BY <1>14, <1>15, <1>17, <1>26 DEF StoreInv

LEMMA GreatestFacts ==
  ASSUME NEW n \in Nat, NEW T \in SUBSET (1 .. n), T # {}
  PROVE  Max(T) \in T
<1> DEFINE D == {n - i : i \in T}
<1>1. D \in SUBSET Nat /\ D # {}
  <2>1. \A i \in T : n - i \in Nat
    OBVIOUS
  <2>2. D \in SUBSET Nat
    BY <2>1
  <2>3. PICK i \in T : TRUE
    OBVIOUS
  <2>4. n - i \in D
    OBVIOUS
  <2> QED BY <2>2, <2>4
<1>2. PICK d \in D : \A y \in D : d <= y
  BY <1>1, LeastNatural
<1>3. PICK x \in T : d = n - x
  OBVIOUS
<1>4. \A y \in T : x >= y
  <2> SUFFICES ASSUME NEW y \in T PROVE x >= y
    OBVIOUS
  <2>1. n - x <= n - y
    BY <1>2, <1>3
  <2>2. x \in Nat /\ y \in Nat
    OBVIOUS
  <2> QED BY ONLY <2>1, <2>2, n \in Nat
<1> QED BY <1>4 DEF Max

(* A record that is written leaves an entry inside the cells of its page. *)
LEMMA WriteBatchRight ==
  ASSUME StoreConstants, StoreInv, NEW v \in Views, WriteBatch(v)
  PROVE  StoreInv'
<1>1. StoreTypeOK /\ ActorsInv /\ v \in Actors /\ TaskRight(v) /\ ViewRight(v) /\ v # Main
  BY DEF StoreInv, ActorsInv, Actors, StoreConstants
<1>2. PICK own \in [Nat -> Pages] : OwnInv(own)
  BY DEF StoreInv
<1>3. PICK b \in Seq(Record) : b = batch[v]
  BY <1>1 DEF StoreTypeOK, Record
<1>4. /\ task[v].step = "extent" /\ file' = Write(file, task[v].at, BatchCells(b))
      /\ batch' = [batch EXCEPT ![v] = <<>>] /\ task' = [task EXCEPT ![v] = Idle]
      /\ UNCHANGED <<disk, exact, mode, refs, cap, cache, view, mutex, compile, compileEnd, nextPlane>>
  BY <1>3 DEF WriteBatch
<1>5. dir' = [p \in Pages |->
                IF {i \in DOMAIN b : b[i][1] = p} = {} THEN dir[p]
                ELSE [at |-> RangeAt(task[v].at, b, Max({i \in DOMAIN b : b[i][1] = p})),
                      len |-> Size[b[Max({i \in DOMAIN b : b[i][1] = p})][2]]]]
  BY <1>3 DEF WriteBatch, RangeAt
<1>6. view[v] = "writer"
  BY <1>4, ExtentOpen
<1>7. /\ Writing /\ task[Main] = Idle
      /\ \A o \in Views : o # v /\ Overlaps(v, o) => view[o] = "none"
  BY <1>6, WriterFacts
<1>8. ExtentRight(own, v)
  BY <1>2, <1>4 DEF OwnInv, ExtentsRight
<1>9. PICK at \in Nat \ {0} : at = task[v].at
  BY <1>1, <1>8 DEF StoreTypeOK, Task, ExtentRight
<1>10. PICK cells \in Seq(Cell) : cells = BatchCells(b)
  BY RowsType
<1>11. PICK n \in Nat : n = Len(cells)
  OBVIOUS
<1>12. PICK end \in Nat : end = compileEnd
  BY <1>1 DEF StoreTypeOK
<1>13. at + n - 1 <= end /\ at + n - 1 \in Nat
  <2>1. BatchEnd(v) = at + n - 1
    BY <1>3, <1>9, <1>10, <1>11 DEF BatchEnd
  <2> QED BY <1>8, <1>12, <2>1 DEF ExtentRight
<1>14. PICK f \in Seq(Cell), l \in Nat : f = file /\ l = Len(f) /\ l <= end
  <2>1. PICK f \in Seq(Cell) : f = file
    BY <1>1 DEF StoreTypeOK
  <2>2. Len(f) \in Nat
    OBVIOUS
  <2> QED BY <1>2, <1>7, <1>12, <2>1, <2>2 DEF OwnInv
<1>15. PICK g \in Seq(Cell), m \in Nat :
         g = file' /\ m = Len(g) /\ m >= l /\ m >= at + n - 1 /\ m = Max({l, at + n - 1})
  <2>1. PICK g : g = Write(f, at, cells)
    OBVIOUS
  <2>2. g \in Seq(Cell) /\ Len(g) = Max({Len(f), at + Len(cells) - 1})
        /\ Len(g) >= Len(f) /\ Len(g) >= at + Len(cells) - 1
    BY <2>1, WriteFacts
  <2>3. g = file' /\ Len(g) \in Nat
    BY <1>4, <1>9, <1>10, <1>14, <2>1, <2>2
  <2> QED BY <1>11, <1>14, <2>2, <2>3
<1>16. m <= end
  <2>1. PICK x \in Nat : x = at + n - 1
    BY <1>13
  <2>2. Max({l, x}) \in {l, x}
    BY MaxPair
  <2>3. m \in {l, x}
    BY <1>15, <2>1, <2>2
  <2> QED BY <1>13, <1>14, <2>1, <2>3
<1>17. Kept = 0 /\ Kept' = 0 /\ \A p \in Pages : dir[p].at = 0 <=> dir[p].len = 0
  BY <1>4, <1>7, WritingFacts DEF Kept
<1>18. \A e : Reach(e)' = Reach(e)
  BY <1>4 DEF Reach, Kept
<1>19. ASSUME NEW p \in Pages, NEW e \in Entry, EntryInside(own, p, e)
       PROVE  e.at # 0 => Inside(g, own, p, e.at, Reach(e))
  <2>1. CASE e.at # 0
    <3>1. Inside(file, own, p, e.at, Reach(e)) /\ e.at \in Nat /\ Reach(e) \in Nat
      BY <1>19, <2>1, ReachFacts DEF EntryInside
    <3>2. e.at + Reach(e) <= l
      BY <1>14, <3>1 DEF Inside
    <3>3. e.at + Reach(e) <= m
      BY ONLY <1>14, <1>15, <3>1, <3>2, m \in Nat, l \in Nat, m >= l
    <3> QED BY <1>15, <3>1, <3>3 DEF Inside
  <2> QED BY <2>1
<1>20. ASSUME NEW j \in 1 .. Len(b)
       PROVE  LET e == [at |-> RangeAt(at, b, j), len |-> Size[b[j][2]]] IN
              /\ e \in Entry /\ e.at # 0 /\ e.len # 0 /\ Inside(g, own, b[j][1], e.at, Reach(e))
  <2>1. b[j] \in Record
    OBVIOUS
  <2>2. PICK s \in Nat \ {0} : s = Size[b[j][2]]
    BY <2>1, RecordBlock
  <2>3. PICK S : S = Starts(at - 1, b)
    OBVIOUS
  <2>4. RangeRight(S, at, b, j)
    BY <2>3, RangeFacts
  <2>5. PICK r \in Nat \ {0} : r = RangeAt(at, b, j) /\ r + s <= at + n - 1
    BY <1>10, <1>11, <2>2, <2>4 DEF RangeRight
  <2>6. PICK e : e = [at |-> r, len |-> s]
    OBVIOUS
  <2>7. e \in Entry /\ e.at = r /\ e.len = s
    BY <2>6 DEF Entry
  <2>8. Reach(e) = s
    BY <1>17, <2>7, MaxPair DEF Reach
  <2>9. r + s <= m
    BY ONLY <1>15, <2>5, m >= at + n - 1, m \in Nat, r \in Nat, s \in Nat, at \in Nat, n \in Nat
  <2>10. \A k \in r .. r + s : own[k] = b[j][1]
    <3>1. BatchAt(v, j) = r /\ j \in DOMAIN batch[v]
      BY <1>3, <1>9, <2>5 DEF BatchAt, RangeAt
    <3> QED BY <1>3, <1>8, <2>2, <3>1 DEF ExtentRight
  <2>11. Inside(g, own, b[j][1], r, s)
    BY <1>15, <2>9, <2>10 DEF Inside
  <2> QED BY <2>2, <2>5, <2>6, <2>7, <2>8, <2>11
<1>21. ASSUME NEW p \in Pages
       PROVE  /\ dir'[p] \in Entry /\ (dir'[p].at = 0 <=> dir'[p].len = 0)
              /\ dir'[p].at # 0 => Inside(g, own, p, dir'[p].at, Reach(dir'[p]))
  <2>1. PICK mine : mine = {i \in DOMAIN b : b[i][1] = p}
    OBVIOUS
  <2>2. CASE mine = {}
    <3>1. dir'[p] = dir[p]
      BY <1>5, <2>1, <2>2
    <3>2. dir[p] \in Entry /\ EntryInside(own, p, dir[p])
      BY <1>1, <1>2 DEF StoreTypeOK, OwnInv, EntriesInside
    <3> QED BY <1>17, <1>19, <3>1, <3>2
  <2>3. CASE mine # {}
    <3>1. mine \in SUBSET (1 .. Len(b)) /\ Len(b) \in Nat
      BY <2>1
    <3>2. PICK j \in 1 .. Len(b) : j = Max(mine) /\ b[j][1] = p
      BY <2>1, <2>3, <3>1, GreatestFacts
    <3>3. dir'[p] = [at |-> RangeAt(at, b, j), len |-> Size[b[j][2]]]
      BY <1>5, <1>9, <2>1, <2>3, <3>2
    <3> QED BY <1>20, <3>2, <3>3
  <2> QED BY <2>2, <2>3
<1>22. /\ batch' \in [Views -> Seq(Pages \X Contents)] /\ batch'[v] = <<>>
       /\ \A o \in Views \ {v} : batch'[o] = batch[o]
  <2>1. batch \in [Views -> Seq(Pages \X Contents)] /\ <<>> \in Seq(Pages \X Contents)
    BY <1>1 DEF StoreTypeOK
  <2> QED BY <1>4, <2>1
<1>23. /\ task' \in [Actors -> Task] /\ task'[v] = Idle
       /\ \A o \in Actors \ {v} : task'[o] = task[o]
  BY <1>1, <1>4, TaskType, NoSlotsFacts
<1>24. StoreTypeOK'
  <2>1. dir' \in [Pages -> Entry]
    <3>1. dir' = [p \in Pages |-> dir'[p]]
      BY <1>5
    <3> QED BY <1>21, <3>1
  <2> QED BY <1>1, <1>4, <1>15, <1>22, <1>23, <2>1 DEF StoreTypeOK, Slots
<1>25. Idle.goal = "none" /\ Idle.step = "none"
  BY DEF Idle
<1>26. TaskRight(v)'
  BY <1>23, IdleRight
<1>27. ViewRight(v)'
  <2>1. /\ view'[v] = "writer" /\ cache'[v] = NoSlots(v)' /\ compile' /\ nextPlane'[v] <= Planes(v)'
    BY <1>1, <1>4, <1>6 DEF ViewRight, NoSlots, Slots, Planes
  <2> QED BY <1>22, <1>23, <1>25, <2>1 DEF ViewRight
<1>28. ActorsInv' /\ CoherenceInv'
  BY <1>4, <1>6, <1>7, <1>22, <1>23, <1>26, <1>27, WriterStepRight
<1>29. OwnInv(own)'
  <2>1. EntriesInside(own)'
    <3>1. \A p \in Pages : disk'[p].at # 0 => Inside(g, own, p, disk'[p].at, Reach(disk'[p]))
      <4>1. \A p \in Pages : disk[p] \in Entry /\ EntryInside(own, p, disk[p])
        BY <1>1, <1>2 DEF StoreTypeOK, OwnInv, EntriesInside
      <4> QED BY <1>4, <1>19, <4>1
    <3>2. \A p \in Pages : dir'[p].at # 0 => Inside(g, own, p, dir'[p].at, Reach(dir'[p]))
      BY <1>21
    <3> QED BY <1>15, <1>18, <3>1, <3>2 DEF EntriesInside, EntryInside
  <2>2. EntriesComplete'
    BY <1>21 DEF EntriesComplete
  <2>3. StoresRight(own)'
    <3> SUFFICES ASSUME NEW o \in Actors PROVE task'[o].step \notin {"payload", "length"}
      BY DEF StoresRight
    <3>1. CASE o = v
      BY <1>23, <1>25, <3>1
    <3>2. CASE o # v
      <4>1. ~Storing(o) /\ task'[o] = task[o]
        BY <1>7, <1>23, <3>2, WritingFacts
      <4> QED BY <4>1 DEF Storing
    <3> QED BY <3>1, <3>2
  <2>4. ExtentsRight(own)'
    <3> SUFFICES ASSUME NEW o \in Views, task'[o].step = "extent" PROVE ExtentRight(own, o)'
      BY DEF ExtentsRight
    <3>1. o # v /\ o \in Actors
      BY <1>23, <1>25 DEF Actors
    <3>2. task'[o] = task[o] /\ batch'[o] = batch[o]
      BY <1>22, <1>23, <3>1
    <3>3. ExtentRight(own, o)
      BY <1>2, <3>2 DEF OwnInv, ExtentsRight
    <3> QED BY <1>4, <3>2, <3>3 DEF ExtentRight, BatchEnd, BatchAt
  <2>5. Len(file') <= compileEnd'
    BY <1>4, <1>12, <1>15, <1>16
  <2> QED BY <2>1, <2>2, <2>3, <2>4, <2>5 DEF OwnInv
<1> QED BY <1>2, <1>24, <1>28, <1>29 DEF StoreInv

--------------------
(* A whole table: its blocks one after the other.                          *)
TableEntries(own, t, kept) ==
  \A p \in Pages :
    /\ Directory(t, kept)[p].at = 0 <=> Directory(t, kept)[p].len = 0
    /\ Directory(t, kept)[p].at # 0 =>
         Inside(Blocks(t, kept), own, p, Directory(t, kept)[p].at,
                Max({Directory(t, kept)[p].len, kept}))

LEMMA BeforeFacts ==
  ASSUME StoreConstants, NEW t \in [Pages -> Values], NEW kept \in Nat
  PROVE  /\ Len(Before(t, kept, 0)) = 0
         /\ \A j \in 0 .. Sides * PerSide : Before(t, kept, j) \in Seq(Cell)
         /\ \A p \in Pages : Len(Before(t, kept, p + 1)) = Len(Before(t, kept, p)) + Len(Block(t[p], kept))
         /\ \A p \in Pages : Before(t, kept, p + 1) = Before(t, kept, p) \o Block(t[p], kept)
<1>1. PICK N \in Nat : N = Sides * PerSide /\ Pages = 0 .. N - 1
  <2>1. PerSide \in Nat /\ (Sides = 1 \/ Sides = 2)
    BY DEF StoreConstants
  <2>2. Sides * PerSide \in Nat
    BY <2>1
  <2> QED BY <2>2 DEF Pages
<1> DEFINE Row(j) == [i \in 1 .. j |-> Block(t[i - 1], kept)]
<1>2. \A p \in Pages : Block(t[p], kept) \in Seq(Cell)
  BY BlockFacts
<1>3. ASSUME NEW j \in 0 .. N PROVE Row(j) \in Seq(Seq(Cell)) /\ Len(Row(j)) = j
  <2>1. \A i \in 1 .. j : i - 1 \in Pages
    BY <1>1
  <2>2. \A i \in 1 .. j : Block(t[i - 1], kept) \in Seq(Cell)
    BY <1>2, <2>1
  <2> QED BY <2>2
<1>4. \A j : Before(t, kept, j) = FlattenSeq(Row(j))
  BY DEF Before
<1>5. Len(Before(t, kept, 0)) = 0
  <2>1. Row(0) = <<>>
    OBVIOUS
  <2>2. Before(t, kept, 0) = FlattenSeq(<<>>)
    BY <1>4, <2>1
  <2>3. Len(<<>>) = 0
    OBVIOUS
  <2> QED BY <2>2, <2>3, FlattenEmpty
<1>6. ASSUME NEW j \in 0 .. N PROVE Before(t, kept, j) \in Seq(Cell)
  BY <1>3, <1>4, FlattenType
<1>7. ASSUME NEW p \in Pages
      PROVE  /\ Len(Before(t, kept, p + 1)) = Len(Before(t, kept, p)) + Len(Block(t[p], kept))
             /\ Before(t, kept, p + 1) = Before(t, kept, p) \o Block(t[p], kept)
  <2>1. p \in 0 .. N /\ p + 1 \in 0 .. N /\ p \in Nat
    BY <1>1
  <2>2. PICK rows \in Seq(Seq(Cell)) : rows = Row(p) /\ Len(rows) = p
    BY <1>3, <2>1
  <2>3. PICK block \in Seq(Cell) : block = Block(t[p], kept)
    BY <1>2
  <2>4. Append(rows, block) = [k \in 1 .. p + 1 |-> IF k = p + 1 THEN block ELSE rows[k]]
    BY <2>1, <2>2, AppendForm
  <2>5. \A k \in 1 .. p + 1 : (IF k = p + 1 THEN block ELSE rows[k]) = Block(t[k - 1], kept)
    <3> SUFFICES ASSUME NEW k \in 1 .. p + 1
                 PROVE  (IF k = p + 1 THEN block ELSE rows[k]) = Block(t[k - 1], kept)
      OBVIOUS
    <3>1. CASE k = p + 1
      <4>1. k - 1 = p
        BY <2>1, <3>1
      <4> QED BY <2>3, <3>1, <4>1
    <3>2. CASE k # p + 1
      <4>1. k \in 1 .. p
        BY <2>1, <3>2
      <4> QED BY <2>2, <3>2, <4>1
    <3> QED BY <3>1, <3>2
  <2>6. Row(p + 1) = Append(rows, block)
    BY <2>4, <2>5
  <2>7. FlattenSeq(Row(p + 1)) = FlattenSeq(rows) \o block
    BY <2>6, FlattenAppend
  <2>8. PICK before \in Seq(Cell) : before = Before(t, kept, p)
    BY <1>6, <2>1
  <2>9. Before(t, kept, p + 1) = before \o block
    BY <1>4, <2>2, <2>7, <2>8
  <2>10. Len(before \o block) = Len(before) + Len(block)
    OBVIOUS
  <2> QED BY <2>3, <2>8, <2>9, <2>10
<1> HIDE DEF Row
<1> QED BY <1>1, <1>5, <1>6, <1>7

LEMMA TableOwned ==
  ASSUME StoreConstants, NEW t \in [Pages -> Values], NEW kept \in Nat
  PROVE  /\ Blocks(t, kept) \in Seq(Cell) /\ Directory(t, kept) \in [Pages -> Entry]
         /\ \E own \in [Nat -> Pages] : TableEntries(own, t, kept)
<1>1. PICK N \in Nat : N = Sides * PerSide /\ Pages = 0 .. N - 1
  <2>1. PerSide \in Nat /\ (Sides = 1 \/ Sides = 2)
    BY DEF StoreConstants
  <2>2. Sides * PerSide \in Nat
    BY <2>1
  <2> QED BY <2>2 DEF Pages
<1>2. PICK S : S = [j \in 0 .. N |-> Len(Before(t, kept, j))]
  OBVIOUS
<1>3. \A j \in 0 .. N : Before(t, kept, j) \in Seq(Cell)
  BY <1>1, BeforeFacts
<1>4. S \in [0 .. N -> Nat] /\ \A j \in 0 .. N : S[j] = Len(Before(t, kept, j))
  <2>1. \A j \in 0 .. N : Len(Before(t, kept, j)) \in Nat
    BY <1>3
  <2> QED BY <1>2, <2>1
<1>5. \A p \in Pages : /\ t[p] \in Values
                       /\ Block(t[p], kept) \in Seq(Cell) /\ Len(Block(t[p], kept)) \in Nat
                       /\ t[p] # Draw => Len(Block(t[p], kept)) = 1 + Max({Size[t[p]], kept})
                       /\ t[p] # Draw => Size[t[p]] \in Nat \ {0}
  <2> SUFFICES ASSUME NEW p \in Pages
               PROVE  /\ t[p] \in Values
                      /\ Block(t[p], kept) \in Seq(Cell) /\ Len(Block(t[p], kept)) \in Nat
                      /\ t[p] # Draw => Len(Block(t[p], kept)) = 1 + Max({Size[t[p]], kept})
                      /\ t[p] # Draw => Size[t[p]] \in Nat \ {0}
    OBVIOUS
  <2>1. PICK c \in Values : c = t[p]
    OBVIOUS
  <2>2. PICK block \in Seq(Cell) : block = Block(c, kept)
    BY BlockFacts
  <2>3. Len(block) \in Nat
    OBVIOUS
  <2>4. c # Draw => Len(Block(c, kept)) = 1 + Max({Size[c], kept})
    BY BlockFacts
  <2>5. c # Draw => Size[c] \in Nat \ {0}
    BY DEF StoreConstants, Values
  <2> QED BY <2>1, <2>2, <2>3, <2>4, <2>5
<1>6. \A p \in Pages : S[p + 1] = S[p] + Len(Block(t[p], kept))
  <2> SUFFICES ASSUME NEW p \in Pages PROVE S[p + 1] = S[p] + Len(Block(t[p], kept))
    OBVIOUS
  <2>1. p \in 0 .. N /\ p + 1 \in 0 .. N
    BY <1>1
  <2>2. Len(Before(t, kept, p + 1)) = Len(Before(t, kept, p)) + Len(Block(t[p], kept))
    BY BeforeFacts
  <2> QED BY <1>4, <2>1, <2>2
<1>7. \A i \in 1 .. N : S[i - 1] <= S[i]
  <2> SUFFICES ASSUME NEW i \in 1 .. N PROVE S[i - 1] <= S[i]
    OBVIOUS
  <2>1. PICK p \in Pages : p = i - 1 /\ i = p + 1 /\ p \in 0 .. N
    BY <1>1
  <2>2. PICK l \in Nat : l = Len(Block(t[p], kept))
    BY <1>5
  <2>3. S[i] = S[p] + l /\ S[p] \in Nat
    BY <1>4, <1>6, <2>1, <2>2
  <2> QED BY <2>1, <2>3
<1>8. Blocks(t, kept) \in Seq(Cell) /\ Len(Blocks(t, kept)) = S[N]
  <2>1. N \in 0 .. N /\ Blocks(t, kept) = Before(t, kept, N)
    BY <1>1 DEF Blocks
  <2> QED BY <1>3, <1>4, <2>1
<1>9. \A i \in 0 .. N, j \in 0 .. N : i <= j => S[i] <= S[j]
  BY <1>4, <1>7, Rising
<1>10. ASSUME NEW p \in Pages
       PROVE  /\ Directory(t, kept)[p] \in Entry
              /\ t[p] = Draw => Directory(t, kept)[p].at = 0 /\ Directory(t, kept)[p].len = 0
              /\ t[p] # Draw => /\ Directory(t, kept)[p].at = S[p] + 1
                                /\ Directory(t, kept)[p].len = Size[t[p]]
  <2>1. p \in 0 .. N /\ S[p] \in Nat
    BY <1>1, <1>4
  <2>2. CASE t[p] = Draw
    <3>1. Directory(t, kept)[p] = NoBlock
      BY <2>2 DEF Directory
    <3> QED BY <2>2, <3>1 DEF NoBlock, Entry
  <2>3. CASE t[p] # Draw
    <3>1. Directory(t, kept)[p] = [at |-> S[p] + 1, len |-> Size[t[p]]]
      BY <1>4, <2>1, <2>3 DEF Directory
    <3>2. PICK m \in Nat : m = Size[t[p]]
      BY <1>5, <2>3
    <3>3. PICK s \in Nat : s = S[p]
      BY <2>1
    <3>4. [at |-> s + 1, len |-> m] \in Entry
      BY <3>2, <3>3 DEF Entry
    <3> QED BY <2>3, <3>1, <3>2, <3>3, <3>4
  <2> QED BY <2>2, <2>3
<1>11. Directory(t, kept) \in [Pages -> Entry]
  BY <1>10 DEF Directory
<1>12. PICK pages \in [1 .. N -> Pages] : \A i \in 1 .. N : pages[i] = i - 1
  <2>1. \A i \in 1 .. N : i - 1 \in Pages
    BY <1>1
  <2>2. [i \in 1 .. N |-> i - 1] \in [1 .. N -> Pages]
    BY <2>1
  <2> QED BY <2>2
<1>13. PICK own0 \in [Nat -> Pages] : TRUE
  <2>1. [k \in Nat |-> 0] \in [Nat -> Pages]
    BY NoSlotsFacts
  <2> QED BY <2>1
<1>14. PICK own \in [Nat -> Pages] : Given(own0, S, pages, own)
  BY <1>4, <1>7, Extents
<1>15. TableEntries(own, t, kept)
  <2> SUFFICES ASSUME NEW p \in Pages
               PROVE  /\ Directory(t, kept)[p].at = 0 <=> Directory(t, kept)[p].len = 0
                      /\ Directory(t, kept)[p].at # 0 =>
                           Inside(Blocks(t, kept), own, p, Directory(t, kept)[p].at,
                                  Max({Directory(t, kept)[p].len, kept}))
    BY DEF TableEntries
  <2>1. CASE t[p] = Draw
    BY <1>10, <2>1
  <2>2. CASE t[p] # Draw
    <3>1. PICK m \in Nat \ {0} : m = Size[t[p]]
      BY <1>5, <2>2
    <3>2. PICK reach \in Nat : reach = Max({m, kept})
      BY MaxPair
    <3>3. p \in 0 .. N /\ p + 1 \in 1 .. N /\ p + 1 \in 0 .. N /\ N \in 0 .. N /\ p + 1 <= N /\ p \in Nat
      <4>1. p \in 0 .. N - 1
        BY <1>1
      <4> QED BY ONLY <4>1, N \in Nat
    <3>4. PICK s \in Nat : s = S[p]
      BY <1>4, <3>3
    <3>5. S[p + 1] = s + (1 + reach)
      BY <1>5, <1>6, <2>2, <3>1, <3>2, <3>4
    <3>6. S[p + 1] <= S[N] /\ S[N] \in Nat
      BY <1>4, <1>9, <3>3
    <3>7. (s + 1) + reach = s + (1 + reach)
      BY ONLY s \in Nat, reach \in Nat
    <3>8. \A k \in s + 1 .. (s + 1) + reach : own[k] = p
      <4>1. PICK i \in 1 .. N : i = p + 1 /\ i - 1 = p
        BY <3>3
      <4>2. Extent(S, i) = s + 1 .. (s + 1) + reach
        BY <3>4, <3>5, <3>7, <4>1 DEF Extent
      <4>3. pages[i] = p /\ i \in DOMAIN pages
        BY <1>12, <4>1
      <4>4. \A k \in Extent(S, i) : own[k] = pages[i]
        BY <1>14, <4>3 DEF Given
      <4> QED BY <4>2, <4>3, <4>4
    <3>9. Inside(Blocks(t, kept), own, p, s + 1, reach)
      <4>1. s + 1 # 0
        BY <3>4
      <4>2. (s + 1) + reach <= Len(Blocks(t, kept))
        BY <1>8, <3>5, <3>6, <3>7
      <4> QED BY <3>8, <4>1, <4>2 DEF Inside
    <3>10. Directory(t, kept)[p].at = s + 1 /\ Directory(t, kept)[p].len = m
      BY <1>10, <2>2, <3>1, <3>4
    <3> QED BY <3>1, <3>2, <3>4, <3>9, <3>10
  <2> QED BY <2>1, <2>2
<1> QED BY <1>8, <1>11, <1>15

(* Nobody has the file open, and it holds a table. *)
ClosedTable ==
  /\ StoreTypeOK /\ NothingOpen
  /\ \E t \in [Pages -> Values] : file = Blocks(t, Kept) /\ disk = Directory(t, Kept)

LEMMA ClosedTableRight == StoreConstants /\ ClosedTable => StoreInv
<1> SUFFICES ASSUME StoreConstants, ClosedTable PROVE StoreInv
  OBVIOUS
<1>1. PICK t \in [Pages -> Values] : file = Blocks(t, Kept) /\ disk = Directory(t, Kept)
  BY DEF ClosedTable
<1>2. StoreTypeOK /\ NothingOpen /\ Kept \in Nat
  BY KeptFacts DEF ClosedTable
<1>3. ActorsInv /\ CoherenceInv
  BY <1>2, NothingOpenRight
<1>4. PICK own \in [Nat -> Pages] : TableEntries(own, t, Kept)
  BY <1>2, TableOwned
<1>5. \A p \in Pages : dir[p].at = 0 /\ dir[p].len = 0
  BY <1>2 DEF NothingOpen, NoPages, NoBlock
<1>6. EntriesInside(own)
  <2> SUFFICES ASSUME NEW p \in Pages, disk[p].at # 0
               PROVE  Inside(file, own, p, disk[p].at, Reach(disk[p]))
    BY <1>5 DEF EntriesInside, EntryInside
  <2> QED BY <1>1, <1>4 DEF TableEntries, Reach
<1>7. EntriesComplete
  BY <1>5 DEF EntriesComplete
<1>8. StoresRight(own) /\ ExtentsRight(own)
  <2>1. \A a \in Actors : task[a].step = "none"
    BY <1>2 DEF NothingOpen, Idle
  <2> QED BY <2>1, PlanesType DEF StoresRight, ExtentsRight
<1>9. ~Writing
  BY <1>2 DEF NothingOpen, Writing
<1>10. OwnInv(own)
  BY <1>6, <1>7, <1>8, <1>9 DEF OwnInv
<1> QED BY <1>2, <1>3, <1>10 DEF StoreInv

(* The same of the next state. *)
LEMMA ClosedTableNext == StoreConstants /\ ClosedTable' => StoreInv'
<1>1. StoreConstants /\ ClosedTable => StoreInv
  BY ClosedTableRight
<1>2. StoreConstants => StoreConstants'
  BY DEF StoreConstants, Values, Actors, Pages
<1> QED BY <1>1, <1>2, PTL

LEMMA InitRight == ASSUME StoreConstants, Init PROVE StoreInv
<1>1. PICK t \in Tables : /\ exact \in {FALSE, t # [p \in Pages |-> Draw]}
                          /\ file = Blocks(t, Kept) /\ disk = Directory(t, Kept)
  BY DEF Init
<1>2. t \in [Pages -> Values] /\ Kept \in Nat
  BY KeptFacts DEF StoreConstants
<1>3. file \in Seq(Cell) /\ disk \in [Pages -> Entry]
  BY <1>1, <1>2, TableOwned
<1>4. StoreTypeOK
  <2>1. exact \in BOOLEAN /\ mode = "closed" /\ refs = 0 /\ compile = FALSE /\ compileEnd = 0
        /\ cap = Max(Caps) /\ mutex = Nobody /\ dir = NoPages
    BY <1>1 DEF Init
  <2>2. cap \in Caps /\ dir \in [Pages -> Entry]
    BY <2>1, MostFacts, NoSlotsFacts
  <2>3. view \in [Views -> {"none", "read", "write", "writer"}] /\ nextPlane \in [Views -> Nat]
    BY DEF Init
  <2>4. task \in [Actors -> Task]
    <3>1. Idle \in Task
      BY NoSlotsFacts
    <3> QED BY <3>1 DEF Init
  <2>5. DOMAIN cache = Actors /\ \A a \in Actors : cache[a] \in [Slots(a) -> Slot]
    <3>1. \A a \in Actors : NoSlots(a) \in [Slots(a) -> Slot]
      BY NoSlotsFacts
    <3> QED BY <3>1 DEF Init
  <2>6. batch \in [Views -> Seq(Pages \X Contents)]
    <3>1. <<>> \in Seq(Pages \X Contents)
      OBVIOUS
    <3> QED BY <3>1 DEF Init
  <2> QED BY <1>3, <2>1, <2>2, <2>3, <2>4, <2>5, <2>6 DEF StoreTypeOK
<1>5. NothingOpen
  <2>1. \A v \in Views : 0 <= Planes(v)
    BY PlanesType
  <2> QED BY <2>1 DEF NothingOpen, Init
<1>6. ClosedTable
  BY <1>1, <1>2, <1>4, <1>5 DEF ClosedTable
<1> QED BY <1>6, ClosedTableRight

LEMMA CompactRight ==
  ASSUME StoreConstants, StoreInv, Compact
  PROVE  StoreInv'
<1>1. StoreTypeOK /\ ActorsInv
  BY DEF StoreInv
<1>2. PICK t : /\ t = [p \in Pages |-> Decode(file, disk[p])] /\ mode = "closed"
               /\ \A p \in Pages : t[p] # Err
               /\ file' = Blocks(t, 0) /\ disk' = Directory(t, 0) /\ exact' = TRUE
               /\ UNCHANGED <<mode, refs, dir, cap, cache, view, task, mutex, writers>>
  BY DEF Compact
<1>3. t \in [Pages -> Values]
  <2>1. \A p \in Pages : t[p] \in Values
    <3> SUFFICES ASSUME NEW p \in Pages PROVE t[p] \in Values
      OBVIOUS
    <3>1. disk[p] \in Entry
      BY <1>1 DEF StoreTypeOK
    <3>2. Decode(file, disk[p]) \in Values \cup {Err}
      BY DecodeType
    <3> QED BY <1>2, <3>2
  <2> QED BY <1>2, <2>1
<1>4. file' \in Seq(Cell) /\ disk' \in [Pages -> Entry]
  <2>1. PICK zero \in Nat : zero = 0
    OBVIOUS
  <2>2. Blocks(t, zero) \in Seq(Cell) /\ Directory(t, zero) \in [Pages -> Entry]
    BY <1>3, TableOwned
  <2> QED BY <1>2, <2>1, <2>2
<1>5. Kept' = 0
  BY <1>2 DEF Kept
<1>6. StoreTypeOK'
  BY <1>1, <1>2, <1>4 DEF StoreTypeOK, Slots, writers
<1>7. NothingOpen'
  <2>1. /\ ~compile /\ NoViews /\ dir = NoPages
        /\ \A a \in Actors : task[a] = Idle /\ cache[a] = NoSlots(a)
    BY <1>1, <1>2 DEF ActorsInv, ClosedRight
  <2>2. ASSUME NEW v \in Views PROVE view[v] = "none" /\ batch[v] = <<>> /\ nextPlane[v] <= Planes(v)
    <3>1. view[v] = "none" /\ ViewRight(v)
      BY <1>1, <2>1 DEF NoViews, ActorsInv
    <3> QED BY <3>1 DEF ViewRight
  <2> QED BY <1>2, <2>1, <2>2 DEF NothingOpen, writers, NoSlots, Slots, Planes
<1>8. ClosedTable'
  BY <1>2, <1>3, <1>5, <1>6, <1>7 DEF ClosedTable
<1> QED BY <1>8, ClosedTableNext

--------------------
(* Every step, and what follows for the pages.                             *)
LEMMA StoreStepRight ==
  ASSUME StoreConstants, StoreInv, NEW a \in Actors, Store(a) \/ FlushSlot(a) \/ WriteDirectory(a)
  PROVE  StoreInv'
<1>1. CASE StoreDraw(a)
  BY <1>1, StoreDrawRight
<1>2. CASE StoreInPlace(a)
  BY <1>2, StoreInPlaceRight
<1>3. CASE StoreAppend(a)
  BY <1>3, StoreAppendRight
<1>4. CASE StorePayload(a)
  BY <1>4, StorePayloadRight
<1>5. CASE StoreLength(a)
  BY <1>5, StoreLengthRight
<1>6. CASE StoreFails(a)
  BY <1>6, StoreFailsRight
<1>7. CASE FlushSlot(a)
  BY <1>7, FlushSlotRight
<1>8. CASE WriteDirectory(a)
  BY <1>8, WriteDirectoryRight
<1> QED BY <1>1, <1>2, <1>3, <1>4, <1>5, <1>6, <1>7, <1>8 DEF Store

LEMMA ViewStepRight ==
  ASSUME StoreConstants, StoreInv, NEW v \in Views, ViewStep(v) \/ WriterStep(v)
  PROVE  StoreInv'
<1>1. ASSUME NEW kind \in Kinds[v], CreateView(v, kind) PROVE StoreInv'
  BY <1>1, CreateViewRight
<1>2. CASE CloseView(v)
  BY <1>2, CloseViewRight
<1>3. ASSUME NEW p \in Pages, NEW c \in Values, Replace(v, p, c) PROVE StoreInv'
  BY <1>3, ReplaceRight
<1>4. CASE CreateWriter(v)
  BY <1>4, CreateWriterRight
<1>5. ASSUME NEW c \in Values, PutPlane(v, c) PROVE StoreInv'
  BY <1>5, PutPlaneRight
<1>6. CASE ReserveExtent(v)
  BY <1>6, ReserveExtentRight
<1>7. CASE WriteBatch(v)
  BY <1>7, WriteBatchRight
<1>8. CASE WriterFails(v) \/ CloseWriter(v)
  BY <1>8, WriterEnds
<1> QED BY <1>1, <1>2, <1>3, <1>4, <1>5, <1>6, <1>7, <1>8 DEF ViewStep, WriterStep

LEMMA NextRight == ASSUME StoreConstants, StoreInv, [Next]_vars PROVE StoreInv'
<1>1. ASSUME NEW a \in Actors, NEW p \in Pages, NEW put \in Values \cup {Err}, Access(a, p, put)
      PROVE  StoreInv'
  BY <1>1, AccessRight
<1>2. ASSUME NEW a \in Actors, Store(a) \/ FlushSlot(a) \/ WriteDirectory(a) PROVE StoreInv'
  BY <1>2, StoreStepRight
<1>3. ASSUME NEW v \in Views, ViewStep(v) \/ WriterStep(v) PROVE StoreInv'
  BY <1>3, ViewStepRight
<1>4. ASSUME NEW kind \in {"read", "write"}, Open(kind) PROVE StoreInv'
  BY <1>4, OpenRight
<1>5. ASSUME NEW c \in Caps, ResizeCache(c) PROVE StoreInv'
  BY <1>5, ResizeCacheRight
<1>6. CASE OpenAgain
  BY <1>6, OpenAgainRight
<1>7. CASE OpenRefused
  BY <1>7, UnchangedRight DEF OpenRefused
<1>8. CASE FlushHandle
  BY <1>8, FlushHandleRight
<1>9. CASE Close
  BY <1>9, CloseRight
<1>10. CASE Prepare
  BY <1>10, PrepareRight
<1>11. CASE Compact
  BY <1>11, CompactRight
<1>12. CASE Crash
  BY <1>12, CrashRight
<1>13. CASE UNCHANGED vars
  BY <1>13, UnchangedRight
<1> QED BY <1>1, <1>2, <1>3, <1>4, <1>5, <1>6, <1>7, <1>8, <1>9, <1>10, <1>11, <1>12, <1>13 DEF Next

LEMMA ApartFollows == ASSUME StoreInv PROVE BlocksApart
<1>1. PICK own \in [Nat -> Pages] : OwnInv(own)
  BY DEF StoreInv
<1>2. ASSUME NEW p \in Pages, NEW e \in {dir[p], disk[p]}, NEW k \in Cells(e)
      PROVE  own[k] = p
  <2>1. e.at # 0 /\ k \in e.at .. e.at + Reach(e)
    BY <1>2 DEF Cells, Reach
  <2>2. EntryInside(own, p, e)
    BY <1>1 DEF OwnInv, EntriesInside
  <2> QED BY <2>1, <2>2 DEF EntryInside, Inside
<1> QED BY <1>2 DEF BlocksApart

LEMMA AgreeFollows == ASSUME StoreConstants, StoreInv PROVE SlotsAgree
<1>1. StoreTypeOK /\ ActorsInv /\ CoherenceInv
  BY DEF StoreInv
<1> SUFFICES ASSUME NEW a \in Actors, NEW p \in Pages, MayRead(a, p), Holds(a, SlotOf(a, p), p)
             PROVE  cache[a][SlotOf(a, p)].content = Latest(p)
  BY DEF SlotsAgree
<1>2. PICK s \in Slots(a) : s = SlotOf(a, p)
  BY <1>1, SlotFacts DEF MayRead, StoreTypeOK
<1>3. PICK x \in Slot : x = cache[a][s] /\ x.content # Err /\ x.page = p
  BY <1>1, <1>2 DEF StoreTypeOK, Holds
<1>4. mode # "closed" /\ Reads(a)
  <2>1. CASE a = Main
    BY <2>1 DEF MayRead, Reads, NoViews, NoWritable, Writing
  <2>2. CASE a # Main
    <3>1. a \in Views /\ view[a] \in {"read", "write"}
      BY <2>2 DEF MayRead, Actors
    <3> QED BY <1>1, <2>2, <3>1 DEF Reads, ActorsInv, ClosedRight, NoViews
  <2> QED BY <2>1, <2>2
<1>5. ASSUME NEW v \in Views PROVE batch[v] = <<>>
  <2> SUFFICES ASSUME view[v] = "writer" PROVE FALSE
    BY <1>1 DEF ActorsInv, ViewRight
  <2>1. Writing /\ compile /\ \A o \in Views : view[o] \in {"none", "writer"}
    BY <1>1, WriterFacts DEF ActorsInv, CompileRight, Writing
  <2>2. CASE a = Main
    BY <1>4, <2>1, <2>2 DEF Reads
  <2>3. CASE a # Main
    BY <1>4, <2>1, <2>3 DEF Reads, Actors
  <2> QED BY <2>2, <2>3
<1> DEFINE holders == {b \in Actors : Owns(b, p) /\ Holds(b, SlotOf(b, p), p)
                                       /\ cache[b][SlotOf(b, p)].dirty}
           writing == {v \in Views : \E i \in DOMAIN batch[v] : batch[v][i][1] = p}
           first == CHOOSE b \in holders : TRUE
<1>8. writing = {}
  BY <1>5
<1>9. ASSUME NEW b \in holders
      PROVE  /\ b \in Actors /\ SlotOf(b, p) \in Dirty(b) /\ SlotOf(b, p) \in Slots(b)
             /\ cache[b][SlotOf(b, p)].content # Err /\ cache[b][SlotOf(b, p)].page = p
  <2>1. b \in Actors /\ Owns(b, p) /\ Holds(b, SlotOf(b, p), p) /\ cache[b][SlotOf(b, p)].dirty
    OBVIOUS
  <2>2. SlotOf(b, p) \in Slots(b)
    BY <1>1, <2>1, SlotFacts DEF StoreTypeOK
  <2> QED BY <2>1, <2>2 DEF Dirty, Holds
<1>10. ASSUME NEW b \in holders PROVE b = a
  <2> SUFFICES ASSUME b # a PROVE FALSE
    OBVIOUS
  <2>1. PICK t \in Dirty(b) : t = SlotOf(b, p) /\ cache[b][t].page = p /\ b \in Actors
    BY <1>9
  <2> QED BY <1>1, <1>2, <1>3, <1>4, <2>1, SoleHolder
<1>11. Latest(p) = IF holders # {} THEN cache[first][SlotOf(first, p)].content
                   ELSE Decode(file, dir[p])
  <2> DEFINE author == CHOOSE v \in writing : TRUE
             sent == batch[author][CHOOSE i \in DOMAIN batch[author] : batch[author][i][1] = p][2]
  <2>1. Latest(p) = CASE mode = "closed" -> Durable(file, disk, p)
                      [] mode # "closed" /\ holders # {} -> cache[first][SlotOf(first, p)].content
                      [] mode # "closed" /\ writing # {} -> sent
                      [] OTHER -> Decode(file, dir[p])
    BY Zenon DEF Latest
  <2> HIDE DEF holders, writing, first, author, sent
  <2> QED BY <1>4, <1>8, <2>1
<1>12. CASE x.dirty
  <2>1. a \in holders
    BY <1>2, <1>3, <1>12 DEF Holds, MayRead
  <2>2. first = a
    BY <1>10, <2>1
  <2> QED BY <1>11, <2>1, <2>2
<1>13. CASE ~x.dirty
  <2>1. holders = {}
    BY <1>2, <1>3, <1>10, <1>13
  <2>2. x.content = Decode(file, dir[p])
    BY <1>1, <1>2, <1>3, <1>4, <1>13 DEF CoherenceInv
  <2> QED BY <1>2, <1>3, <1>11, <2>1, <2>2
<1> QED BY <1>12, <1>13

(* Every page of the store is whole in every reachable state: its cells are  *)
(* its own, now and after a crash (append_block, egtb.c:679), and no cache   *)
(* that may be read holds anything but its present content (egtb.c:1740).    *)
THEOREM PagesCorrect == ASSUME StoreConstants PROVE Spec => []PagesAreWhole
<1>1. Init => StoreInv
  BY InitRight
<1>2. StoreInv /\ [Next]_vars => StoreInv'
  BY NextRight
<1>3. StoreInv => PagesAreWhole
  BY ApartFollows, AgreeFollows DEF PagesAreWhole
<1> QED BY <1>1, <1>2, <1>3, PTL DEF Spec

--------------------
(* The store implements the durable table.                                 *)
(*                                                                         *)
(* What the abstract table holds of a page is its pending content, in a    *)
(* dirty slot or in the batch of a writer, or else what the directory in   *)
(* memory leads to.  HistoryInv says that each of these is one of the      *)
(* contents a crash may bring back, that the entries of both directories   *)
(* read as one of them, or as nothing when there is more than one, and     *)
(* that what a flush has written of the directory is up to date.           *)
Held0(p, c) == \E a \in Actors : \E s \in Dirty(a) :
                 cache[a][s].page = p /\ cache[a][s].content = c
Batched(p, c) == \E v \in Views : \E i \in DOMAIN batch[v] :
                   batch[v][i][1] = p /\ batch[v][i][2] = c
Pending(p) == {c \in Values : Held0(p, c) \/ Batched(p, c)}

(* The planes of a writer, in the order it writes them. *)
PlaneOf(v, k) == First[v] + k \div Sides + (k % Sides) * PerSide
BatchRight(v) ==
  /\ \A i \in DOMAIN batch[v] : \E k \in 0 .. nextPlane[v] - 1 : batch[v][i][1] = PlaneOf(v, k)
  /\ \A i, j \in DOMAIN batch[v] : batch[v][i][1] = batch[v][j][1] => i = j

(* What may be read of an entry when the contents in P may come back. *)
Single(P) == \E v \in P : P = {v}
Returns(P) == P \cup (IF Single(P) THEN {} ELSE {Err})
Readable(P, f, e) == Decode(f, e) \in Returns(P) /\ (Single(P) => (e.at = 0 <=> e.len = 0))

AllReadable == \A p \in Pages : /\ Readable(possible[p], file, dir[p])
                                /\ Readable(possible[p], file, disk[p])
DirectoryRight == \A a \in Actors :
  IF task[a].step = "directory"
  THEN \A p \in Pages : p < task[a].next /\ Owns(a, p) => disk[p] = dir[p]
  ELSE task[a].next = 0

HistoryInv ==
  /\ DOMAIN possible = Pages /\ \A p \in Pages : possible[p] # {}
  /\ mode = "closed" => \A p \in Pages : possible[p] = {Durable(file, disk, p)}
  /\ mode # "closed" => AllReadable
  /\ DirectoryRight
  /\ \A v \in Views : BatchRight(v)
  /\ \A p \in Pages : Pending(p) \subseteq possible[p]

(* The contents that are pending are those of the slots and the batches. *)
LEMMA PendingFacts ==
  ASSUME StoreConstants, StoreInv
  PROVE  /\ \A a \in Actors : \A s \in Dirty(a) :
              cache[a][s].content \in Pending(cache[a][s].page)
         /\ \A v \in Views : \A i \in DOMAIN batch[v] : batch[v][i][2] \in Pending(batch[v][i][1])
<1>1. StoreTypeOK /\ ActorsInv /\ CoherenceInv
  BY DEF StoreInv
<1>2. ASSUME NEW a \in Actors, NEW s \in Dirty(a)
      PROVE  cache[a][s].content \in Pending(cache[a][s].page)
  <2>1. cache[a][s].content \in Values
    BY <1>1, DirtyFacts
  <2> QED BY <2>1 DEF Pending, Held0
<1>3. ASSUME NEW v \in Views, NEW i \in DOMAIN batch[v]
      PROVE  batch[v][i][2] \in Pending(batch[v][i][1])
  <2>1. batch[v] \in Seq(Pages \X Contents)
    BY <1>1 DEF StoreTypeOK
  <2>2. batch[v][i] \in Pages \X Contents
    BY <2>1
  <2>3. batch[v][i][2] \in Values
    BY <2>2 DEF Values
  <2> QED BY <2>3 DEF Pending, Batched
<1> QED BY <1>2, <1>3

LEMMA PendingInv ==
  StoreConstants /\ StoreInv =>
    \A a \in Actors : \A s \in Dirty(a) : cache[a][s].content \in Pending(cache[a][s].page)
BY PendingFacts

LEMMA PendingNext ==
  StoreConstants /\ StoreInv' =>
    \A a \in Actors : \A s \in Dirty(a)' : cache'[a][s].content \in Pending(cache[a][s].page)'
<1>1. (StoreConstants /\ StoreInv)' =>
        (\A a \in Actors : \A s \in Dirty(a) : cache[a][s].content \in Pending(cache[a][s].page))'
  BY PendingInv, PTL
<1> QED BY <1>1

(* A page is dirty in one slot at most. *)
LEMMA OneHolder ==
  ASSUME StoreConstants, StoreInv, NEW a \in Actors, NEW s \in Dirty(a), NEW b \in Actors,
         NEW t \in Dirty(b), cache[a][s].page = cache[b][t].page
  PROVE  a = b /\ s = t
<1>1. StoreTypeOK /\ ActorsInv /\ CoherenceInv
  BY DEF StoreInv
<1>2. /\ s = SlotOf(a, cache[a][s].page) /\ t = SlotOf(b, cache[b][t].page)
      /\ t \in Slots(b) /\ cache[b][t].dirty = TRUE /\ cache[b][t].content \in Values
  BY <1>1, DirtyFacts
<1>3. cache[b][t].content # Err
  BY <1>2 DEF Values, StoreConstants, Draw, Err
<1>4. a = b
  BY <1>1, <1>2, <1>3, SoleHolder
<1> QED BY <1>2, <1>4

(* A page that waits in a batch waits in that one alone, and in no slot. *)
LEMMA OneBatch ==
  ASSUME StoreConstants, StoreInv, \A v \in Views : BatchRight(v),
         NEW v \in Views, NEW i \in DOMAIN batch[v]
  PROVE  /\ view[v] = "writer" /\ Writing /\ \A a \in Actors : Dirty(a) = {}
         /\ Owns(v, batch[v][i][1])
         /\ \A o \in Views : \A j \in DOMAIN batch[o] :
              batch[o][j][1] = batch[v][i][1] => o = v /\ j = i
<1>1. StoreTypeOK /\ ActorsInv /\ CoherenceInv
  BY DEF StoreInv
<1>2. ASSUME NEW o \in Views, NEW j \in DOMAIN batch[o]
      PROVE  view[o] = "writer" /\ Owns(o, batch[o][j][1]) /\ batch[o][j][1] \in Pages
  <2>1. batch[o] \in Seq(Pages \X Contents) /\ ViewRight(o)
    BY <1>1 DEF StoreTypeOK, ActorsInv
  <2>2. batch[o] # <<>> /\ batch[o][j] \in Pages \X Contents
    BY <2>1
  <2> QED BY <2>1, <2>2 DEF ViewRight
<1>3. Writing /\ \A o \in Views : o # v /\ Overlaps(v, o) => view[o] = "none"
  BY <1>2, WriterFacts
<1>4. \A a \in Actors : Dirty(a) = {}
  BY <1>3, WritingFacts, EmptySlots
<1>5. ASSUME NEW o \in Views, NEW j \in DOMAIN batch[o], batch[o][j][1] = batch[v][i][1]
      PROVE  o = v /\ j = i
  <2>1. o = v
    <3>1. Overlaps(v, o)
      BY <1>2, <1>5, OwnersOverlap
    <3> QED BY <1>2, <1>3, <3>1
  <2> QED BY <1>5, <2>1 DEF BatchRight
<1> QED BY <1>2, <1>3, <1>4, <1>5

(* What the abstract table holds of a page of an open file. *)
LEMMA LatestFacts ==
  ASSUME StoreConstants, StoreInv, \A v \in Views : BatchRight(v), mode # "closed", NEW p \in Pages
  PROVE  /\ \A c \in Pending(p) : Latest(p) = c
         /\ Pending(p) = {} => Latest(p) = Decode(file, dir[p])
<1>1. StoreTypeOK /\ ActorsInv /\ CoherenceInv
  BY DEF StoreInv
<1> DEFINE holders == {b \in Actors : Owns(b, p) /\ Holds(b, SlotOf(b, p), p)
                                       /\ cache[b][SlotOf(b, p)].dirty}
           writing == {v \in Views : \E i \in DOMAIN batch[v] : batch[v][i][1] = p}
           first == CHOOSE b \in holders : TRUE
           author == CHOOSE v \in writing : TRUE
           record == CHOOSE i \in DOMAIN batch[author] : batch[author][i][1] = p
           kept == cache[first][SlotOf(first, p)].content
           sent == batch[author][record][2]
<1>3. ASSUME NEW b \in holders
      PROVE  /\ b \in Actors /\ SlotOf(b, p) \in Dirty(b) /\ cache[b][SlotOf(b, p)].page = p
  <2>1. b \in Actors /\ Owns(b, p) /\ Holds(b, SlotOf(b, p), p) /\ cache[b][SlotOf(b, p)].dirty
    OBVIOUS
  <2>2. SlotOf(b, p) \in Slots(b)
    BY <1>1, <2>1, SlotFacts DEF StoreTypeOK
  <2> QED BY <2>1, <2>2 DEF Dirty, Holds
<1>8. holders # {} => writing = {}
  <2> SUFFICES ASSUME NEW b \in holders, NEW v \in Views, NEW i \in DOMAIN batch[v] PROVE FALSE
    OBVIOUS
  <2>1. SlotOf(b, p) \in Dirty(b) /\ b \in Actors
    BY <1>3
  <2>2. Dirty(b) = {}
    BY <2>1, OneBatch
  <2> QED BY <2>1, <2>2
<1>2. Latest(p) = IF holders # {} THEN kept ELSE IF writing # {} THEN sent ELSE Decode(file, dir[p])
  <2>1. Latest(p) = CASE mode = "closed" -> Durable(file, disk, p)
                      [] mode # "closed" /\ holders # {} -> kept
                      [] mode # "closed" /\ writing # {} -> sent
                      [] OTHER -> Decode(file, dir[p])
    BY Zenon DEF Latest
  <2>2. mode # "closed" /\ (holders # {} => writing = {})
    BY <1>8
  <2> HIDE DEF holders, writing, first, author, record, kept, sent
  <2>3. CASE holders # {}
    BY <2>1, <2>2, <2>3
  <2>4. CASE holders = {} /\ writing # {}
    BY <2>1, <2>2, <2>4
  <2>5. CASE holders = {} /\ writing = {}
    BY <2>1, <2>2, <2>5
  <2> QED BY <2>3, <2>4, <2>5
<1>4. ASSUME NEW a \in Actors, NEW s \in Dirty(a), cache[a][s].page = p
      PROVE  a \in holders /\ s = SlotOf(a, p)
  <2>1. /\ cache[a][s].dirty = TRUE /\ cache[a][s].content \in Values /\ Owns(a, p)
        /\ s = SlotOf(a, p)
    BY <1>1, <1>4, DirtyFacts
  <2>2. cache[a][s].content # Err
    BY <2>1 DEF Values, StoreConstants, Draw, Err
  <2> QED BY <1>4, <2>1, <2>2 DEF Holds
<1>5. ASSUME NEW c \in Values, Held0(p, c)
      PROVE  Latest(p) = c
  <2>1. PICK a \in Actors : \E s \in Dirty(a) : cache[a][s].page = p /\ cache[a][s].content = c
    BY <1>5 DEF Held0
  <2>2. PICK s \in Dirty(a) : cache[a][s].page = p /\ cache[a][s].content = c
    BY <2>1
  <2>3. a \in holders /\ s = SlotOf(a, p)
    BY <1>4, <2>2
  <2>4. first \in holders
    BY <2>3
  <2>5. /\ first \in Actors /\ SlotOf(first, p) \in Dirty(first)
        /\ cache[first][SlotOf(first, p)].page = p
    <3> HIDE DEF first, holders
    <3> QED BY <1>3, <2>4
  <2>6. first = a
    <3> HIDE DEF first, holders
    <3> QED BY <2>2, <2>5, OneHolder
  <2> HIDE DEF first, holders, author, record, writing
  <2> QED BY <1>2, <2>2, <2>3, <2>6
<1>6. ASSUME NEW c \in Values, Batched(p, c)
      PROVE  Latest(p) = c
  <2>1. PICK v \in Views : \E i \in DOMAIN batch[v] : batch[v][i][1] = p /\ batch[v][i][2] = c
    BY <1>6 DEF Batched
  <2>2. PICK i \in DOMAIN batch[v] : batch[v][i][1] = p /\ batch[v][i][2] = c
    BY <2>1
  <2>3. /\ \A a \in Actors : Dirty(a) = {}
        /\ \A o \in Views : \A j \in DOMAIN batch[o] : batch[o][j][1] = p => o = v /\ j = i
    BY <2>2, OneBatch
  <2>4. holders = {}
    <3> HIDE DEF holders
    <3> QED BY <1>3, <2>3
  <2>5. v \in writing
    BY <2>2
  <2>6. author \in writing
    BY <2>5
  <2>7. PICK j \in DOMAIN batch[author] : batch[author][j][1] = p /\ author \in Views
    BY <2>6
  <2>8. author = v
    <3> HIDE DEF author
    <3> QED BY <2>3, <2>7
  <2>9. record \in DOMAIN batch[author] /\ batch[author][record][1] = p
    <3> HIDE DEF author
    <3> QED BY <2>7
  <2>10. record = i
    <3> HIDE DEF author, record
    <3> QED BY <2>3, <2>8, <2>9
  <2> HIDE DEF first, holders, author, record, writing
  <2> QED BY <1>2, <2>2, <2>4, <2>5, <2>8, <2>10
<1>7. ASSUME Pending(p) = {}
      PROVE  Latest(p) = Decode(file, dir[p])
  <2>1. holders = {}
    <3> SUFFICES ASSUME NEW b \in holders PROVE FALSE
      OBVIOUS
    <3>1. PICK s \in Dirty(b) : b \in Actors /\ cache[b][s].page = p
      BY <1>3
    <3> QED BY <1>7, <3>1, PendingFacts
  <2>2. writing = {}
    <3> SUFFICES ASSUME NEW v \in Views, NEW i \in DOMAIN batch[v], batch[v][i][1] = p PROVE FALSE
      OBVIOUS
    <3> QED BY <1>7, PendingFacts
  <2> HIDE DEF first, holders, author, record, writing
  <2> QED BY <1>2, <2>1, <2>2
<1> QED BY <1>5, <1>6, <1>7 DEF Pending

LEMMA LatestInv ==
  StoreConstants /\ StoreInv /\ (\A v \in Views : BatchRight(v)) /\ mode # "closed" =>
    \A p \in Pages : /\ \A c \in Pending(p) : Latest(p) = c
                     /\ Pending(p) = {} => Latest(p) = Decode(file, dir[p])
BY LatestFacts

LEMMA LatestNext ==
  StoreConstants /\ StoreInv' /\ (\A v \in Views : BatchRight(v)') /\ mode' # "closed" =>
    \A p \in Pages : /\ \A c \in Pending(p)' : Latest(p)' = c
                     /\ Pending(p)' = {} => Latest(p)' = Decode(file', dir'[p])
<1>1. (StoreConstants /\ StoreInv /\ (\A v \in Views : BatchRight(v)) /\ mode # "closed")' =>
         (\A p \in Pages : /\ \A c \in Pending(p) : Latest(p) = c
                           /\ Pending(p) = {} => Latest(p) = Decode(file, dir[p]))'
  BY LatestInv, PTL
<1> QED BY <1>1

--------------------
(* What is read of a page when its cells are written.                      *)
LEMMA ReadableGrows ==
  ASSUME NEW P, NEW Q, P # {}, P \subseteq Q, NEW f, NEW e, Readable(P, f, e)
  PROVE  Readable(Q, f, e)
<1>1. Single(Q) => Single(P) /\ P = Q
  BY DEF Single
<1>2. Returns(P) \subseteq Returns(Q)
  BY <1>1 DEF Returns
<1> QED BY <1>1, <1>2 DEF Readable

LEMMA ReadableSame ==
  ASSUME NEW P, NEW f, NEW g, NEW e, Readable(P, f, e), Decode(g, e) = Decode(f, e)
  PROVE  Readable(P, g, e)
BY DEF Readable

(* A block read as a content has that content in its header and that length. *)
LEMMA DecodeFacts ==
  ASSUME StoreConstants, NEW f, NEW e, NEW c \in Contents, Decode(f, e) = c
  PROVE  e.at # 0 /\ Size[c] = e.len /\ Whole(f, e.at, c)
<1>1. c # Draw /\ c # Err
  BY DEF StoreConstants
<1>2. e.at # 0
  BY <1>1 DEF Decode
<1> DEFINE fits == {x \in Contents : Size[x] = e.len /\ Whole(f, e.at, x)}
<1>3. Decode(f, e) = IF fits = {} THEN Err ELSE CHOOSE x \in fits : TRUE
  BY <1>2 DEF Decode
<1>4. c \in fits
  <2> HIDE DEF fits
  <2> QED BY <1>1, <1>3
<1> QED BY <1>2, <1>4

LEMMA DecodeDraw ==
  ASSUME StoreConstants, NEW f, NEW e
  PROVE  Decode(f, e) = Draw <=> e.at = 0
<1>1. Draw \notin Contents /\ Draw # Err
  BY DEF StoreConstants, Draw, Err
<1>2. ASSUME e.at # 0 PROVE Decode(f, e) # Draw
  <2> DEFINE fits == {x \in Contents : Size[x] = e.len /\ Whole(f, e.at, x)}
  <2>1. Decode(f, e) = IF fits = {} THEN Err ELSE CHOOSE x \in fits : TRUE
    BY <1>2 DEF Decode
  <2>2. fits # {} => (CHOOSE x \in fits : TRUE) \in Contents
    OBVIOUS
  <2> HIDE DEF fits
  <2> QED BY <1>1, <2>1, <2>2
<1> QED BY <1>2 DEF Decode

(* A block with the header of a content is read as that content or not. *)
LEMMA DecodeHeader ==
  ASSUME StoreConstants, NEW f, NEW e \in Entry, NEW c \in Contents,
         e.at # 0, f[e.at] = <<c, 0>>
  PROVE  Decode(f, e) \in {c, Err}
<1>1. \A x \in Contents : Decode(f, e) = x => x = c
  <2> SUFFICES ASSUME NEW x \in Contents, Decode(f, e) = x PROVE x = c
    OBVIOUS
  <2>1. Whole(f, e.at, x) /\ Size[x] \in Nat
    BY DecodeFacts DEF StoreConstants
  <2>2. 0 \in 0 .. Size[x] /\ e.at + 0 = e.at
    BY <2>1 DEF Entry
  <2>3. f[e.at] = <<x, 0>>
    BY <2>1, <2>2 DEF Whole
  <2> QED BY <2>3
<1>2. Decode(f, e) # Draw
  BY DecodeDraw
<1> QED BY <1>1, <1>2, DecodeType DEF Values

(* Cells of another content only make a page be read as that, or not at all. *)
LEMMA DecodeStores ==
  ASSUME StoreConstants, NEW f \in Seq(Cell), NEW g \in Seq(Cell), NEW e \in Entry,
         NEW c \in Contents, NEW at, Stores(f, g, c, at)
  PROVE  Decode(g, e) \in {Decode(f, e), c, Err}
<1>1. Decode(g, e) = Draw => Decode(f, e) = Draw
  BY DecodeDraw
<1>2. ASSUME NEW x \in Contents, Decode(g, e) = x, x # c
      PROVE  Decode(f, e) = x
  <2>1. e.at # 0 /\ Size[x] = e.len /\ Whole(g, e.at, x) /\ x # Err
    BY <1>2, DecodeFacts DEF StoreConstants
  <2>2. ASSUME NEW k \in 0 .. Size[x]
        PROVE  e.at + k \in DOMAIN f /\ f[e.at + k] = <<x, k>>
    <3>1. e.at + k \in DOMAIN g /\ g[e.at + k] = <<x, k>>
      BY <2>1 DEF Whole
    <3>2. PICK i \in 1 .. Len(g) : i = e.at + k
      BY <3>1
    <3>3. g[i][1] = x /\ g[i] = <<x, k>>
      BY <3>1, <3>2
    <3>4. i <= Len(f) /\ i \in 1 .. Len(f) /\ Len(f) \in Nat /\ Len(g) \in Nat
      <4>1. Len(f) \in Nat /\ Len(g) \in Nat
        OBVIOUS
      <4>2. ~(i > Len(f))
        BY <1>2, <2>1, <3>3 DEF Stores
      <4> QED BY <4>1, <4>2
    <3>5. g[i] = f[i]
      <4> SUFFICES ASSUME NEW j \in 0 .. Size[c], g[i] = <<c, j>> PROVE FALSE
        BY <3>4 DEF Stores
      <4> QED BY <1>2, <3>3
    <3> QED BY <3>2, <3>3, <3>4, <3>5
  <2>3. Whole(f, e.at, x)
    BY <2>2 DEF Whole
  <2> QED BY <2>1, <2>3, DecodeWhole
<1> QED BY <1>1, <1>2, DecodeType DEF Values

(* Writing a content a crash may bring back leaves what may be read.          *)
LEMMA ReadableStores ==
  ASSUME StoreConstants, NEW f \in Seq(Cell), NEW g \in Seq(Cell), NEW e \in Entry, NEW d \in Entry,
         NEW c \in Contents, NEW P, c \in P, Stores(f, g, c, d.at), Len(f) <= Len(g),
         Readable(P, f, e), Readable(P, f, d),
         e.at # 0 => e.at + Reach(e) <= Len(f)
  PROVE  Readable(P, g, e)
<1>1. CASE Single(P)
  <2>1. P = {c} /\ Returns(P) = {c}
    BY <1>1 DEF Single, Returns
  <2>2. Decode(f, d) = c /\ Decode(f, e) = c
    BY <2>1 DEF Readable
  <2>3. Whole(f, d.at, c) /\ e.at # 0
    BY <2>2, DecodeFacts
  <2>4. \A i \in 1 .. Len(f) : g[i] = f[i]
    <3> SUFFICES ASSUME NEW i \in 1 .. Len(f), NEW k \in 0 .. Size[c], i = d.at + k, g[i] = <<c, k>>
                 PROVE  g[i] = f[i]
      BY DEF Stores
    <3> QED BY <2>3 DEF Whole
  <2>5. Reach(e) \in Nat /\ e.len <= Reach(e) /\ e.at \in Nat /\ Len(f) \in Nat
    BY ReachFacts
  <2>6. \A i \in e.at .. e.at + Reach(e) : i \in 1 .. Len(f)
    BY <2>3, <2>5
  <2>7. Decode(g, e) = Decode(f, e)
    BY <2>4, <2>5, <2>6, DecodeSame
  <2> QED BY <2>7, ReadableSame
<1>2. CASE ~Single(P)
  <2>1. Decode(g, e) \in {Decode(f, e), c, Err}
    BY DecodeStores
  <2>2. c \in Returns(P) /\ Err \in Returns(P)
    BY <1>2 DEF Returns
  <2> QED BY <1>2, <2>1, <2>2 DEF Readable
<1> QED BY <1>1, <1>2

--------------------
(* Steps of the abstract table.                                            *)
StepRight == HistoryInv' /\ [Table!Next]_<<Held, possible, changes, gaveUp>>

LEMMA HeldFacts == /\ DOMAIN Held = Pages /\ \A p \in Pages : Held[p] = Latest(p)
                   /\ DOMAIN Held' = Pages /\ \A p \in Pages : Held'[p] = Latest(p)'
BY DEF Held

LEMMA HeldSame == ASSUME \A p \in Pages : Latest(p)' = Latest(p) PROVE Held' = Held
BY DEF Held

(* A page keeps what is pending of it, or is read as the directory says. *)
LEMMA LatestCarried ==
  ASSUME StoreConstants, StoreInv, HistoryInv, StoreInv', \A v \in Views : BatchRight(v)',
         mode # "closed", mode' # "closed", NEW p \in Pages, Pending(p)' \subseteq Pending(p)
  PROVE  \/ Latest(p)' = Latest(p)
         \/ Pending(p)' = {} /\ Latest(p)' = Decode(file', dir'[p])
<1>1. /\ \A c \in Pending(p) : Latest(p) = c
      /\ Pending(p) = {} => Latest(p) = Decode(file, dir[p])
  BY LatestFacts DEF HistoryInv
<1>2. /\ \A c \in Pending(p)' : Latest(p)' = c
      /\ Pending(p)' = {} => Latest(p)' = Decode(file', dir'[p])
  BY LatestNext
<1> QED BY <1>1, <1>2

(* A page that is read as before. *)
Reads2(p) ==
  /\ Pending(p)' \subseteq Pending(p)
  /\ Pending(p)' = {} => Decode(file', dir'[p]) = Latest(p)
Entries2(p) == Readable(possible[p], file', dir'[p]) /\ Readable(possible[p], file', disk'[p])

LEMMA Reads2Facts ==
  ASSUME StoreConstants, StoreInv, HistoryInv, StoreInv', \A v \in Views : BatchRight(v)',
         mode # "closed", mode' # "closed", NEW p \in Pages, Reads2(p)
  PROVE  Latest(p)' = Latest(p)
BY LatestCarried DEF Reads2

(* A step the table does not see. *)
LEMMA QuietRight ==
  ASSUME StoreConstants, StoreInv, HistoryInv, StoreInv', mode # "closed", mode' # "closed",
         UNCHANGED history, \A p \in Pages : Reads2(p) /\ Entries2(p),
         DirectoryRight', \A v \in Views : BatchRight(v)'
  PROVE  StepRight
<1>1. UNCHANGED <<possible, changes, gaveUp>>
  BY DEF history
<1>2. Held' = Held
  BY Reads2Facts, HeldSame
<1>3. AllReadable'
  BY <1>1 DEF AllReadable, Entries2
<1>4. \A p \in Pages : Pending(p)' \subseteq possible'[p]
  BY <1>1 DEF HistoryInv, Reads2
<1>5. HistoryInv'
  BY <1>1, <1>3, <1>4 DEF HistoryInv
<1> QED BY <1>1, <1>2, <1>5 DEF StepRight

(* A change of one page. *)
LEMMA PutRight ==
  ASSUME StoreConstants, StoreInv, HistoryInv, StoreInv', mode # "closed", mode' # "closed",
         NEW q \in Pages, NEW c \in Values, Noted(q, c),
         c \in Pending(q)', Pending(q)' \subseteq Pending(q) \cup {c},
         \A p \in Pages \ {q} : Reads2(p), \A p \in Pages : Entries2(p),
         DirectoryRight', \A v \in Views : BatchRight(v)'
  PROVE  StepRight
<1>1. /\ possible' = [possible EXCEPT ![q] = @ \cup {c}]
      /\ changes' = changes + 1 /\ gaveUp' = gaveUp
  BY DEF Noted
<1>2. DOMAIN possible = Pages /\ \A p \in Pages : possible[p] # {} /\ Pending(p) \subseteq possible[p]
  BY DEF HistoryInv
<1>3. /\ DOMAIN possible' = Pages /\ possible'[q] = possible[q] \cup {c}
      /\ \A p \in Pages \ {q} : possible'[p] = possible[p]
  BY <1>1, <1>2
<1>4. \A p \in Pages \ {q} : Latest(p)' = Latest(p)
  BY Reads2Facts
<1>5. Latest(q)' = c
  BY LatestNext
<1>6. AllReadable'
  <2> SUFFICES ASSUME NEW p \in Pages
               PROVE  Readable(possible'[p], file', dir'[p]) /\ Readable(possible'[p], file', disk'[p])
    BY DEF AllReadable
  <2>1. possible[p] \subseteq possible'[p] /\ possible[p] # {}
    BY <1>2, <1>3
  <2>2. Readable(possible[p], file', dir'[p]) /\ Readable(possible[p], file', disk'[p])
    BY DEF Entries2
  <2> QED BY <2>1, <2>2, ReadableGrows
<1>7. \A p \in Pages : Pending(p)' \subseteq possible'[p]
  BY <1>2, <1>3 DEF Reads2
<1>8. HistoryInv'
  BY <1>3, <1>2, <1>6, <1>7 DEF HistoryInv
<1>9. Table!Put
  <2>1. ASSUME NEW p \in Pages
        PROVE  \/ Held'[p] = Held[p] /\ possible'[p] = possible[p]
               \/ /\ Held'[p] \in Values /\ possible'[p] = possible[p] \cup {Held'[p]}
                  /\ \A o \in Pages \ {p} : Held'[o] = Held[o]
    <3>1. CASE p = q
      BY <1>3, <1>4, <1>5, <3>1, HeldFacts
    <3>2. CASE p # q
      BY <1>3, <1>4, <3>2, HeldFacts
    <3> QED BY <3>1, <3>2
  <2> QED BY <1>1, <1>2, <2>1 DEF Table!Put, Table!Pages
<1>10. Table!Next
  BY <1>2, <1>3, <1>9 DEF Table!Next, Table!Pages
<1> QED BY <1>8, <1>10 DEF StepRight

(* What is pending when one slot changes. *)
LEMMA SlotPending ==
  ASSUME StoreConstants, StoreInv, StoreInv', NEW a \in Actors, NEW s \in Slots(a), NEW x \in Slot,
         SlotChange(a, s, x), batch' = batch, NEW p \in Pages
  PROVE  /\ Pending(p)' \subseteq Pending(p) \cup (IF x.dirty /\ x.page = p THEN {x.content} ELSE {})
         /\ x.dirty /\ x.page = p => x.content \in Pending(p)'
         /\ ~(s \in Dirty(a) /\ cache[a][s].page = p) => Pending(p) \subseteq Pending(p)'
<1>1. /\ Dirty(a)' = {t \in Dirty(a) : t # s} \cup (IF x.dirty THEN {s} ELSE {})
      /\ cache'[a][s] = x /\ \A t \in Slots(a) \ {s} : cache'[a][t] = cache[a][t]
      /\ \A b \in Actors \ {a} : cache'[b] = cache[b]
  BY SlotChangeFacts DEF SlotChange
<1>2. \A b \in Actors \ {a} : Dirty(b)' = Dirty(b)
  BY <1>1 DEF Dirty, Slots
<1>3. \A b \in Actors : Dirty(b) \subseteq Slots(b)
  BY DEF Dirty
<1>4. \A c : Batched(p, c)' <=> Batched(p, c)
  BY DEF Batched
<1>5. ASSUME NEW c, Held0(p, c)'
      PROVE  Held0(p, c) \/ (x.dirty /\ x.page = p /\ c = x.content)
  <2>0. PICK b \in Actors : \E t \in Dirty(b)' : cache'[b][t].page = p /\ cache'[b][t].content = c
    BY <1>5 DEF Held0
  <2>1. PICK t \in Dirty(b)' : cache'[b][t].page = p /\ cache'[b][t].content = c
    BY <2>0
  <2>2. CASE b = a /\ t = s
    BY <1>1, <2>1, <2>2
  <2>3. CASE ~(b = a /\ t = s)
    <3>1. t \in Dirty(b) /\ cache'[b][t] = cache[b][t]
      BY <1>1, <1>2, <1>3, <2>1, <2>3
    <3> QED BY <2>1, <3>1 DEF Held0
  <2> QED BY <2>2, <2>3
<1>6. ASSUME x.dirty, x.page = p
      PROVE  x.content \in Pending(p)'
  <2>1. s \in Dirty(a)' /\ cache'[a][s].page = p /\ cache'[a][s].content = x.content
    BY <1>1, <1>6
  <2>2. \A b \in Actors : \A t \in Dirty(b)' : cache'[b][t].content \in Pending(cache[b][t].page)'
    BY PendingNext
  <2> QED BY <2>1, <2>2 DEF Pending, Held0, Batched
<1>7. ASSUME NEW c, Held0(p, c), ~(s \in Dirty(a) /\ cache[a][s].page = p)
      PROVE  Held0(p, c)'
  <2>0. PICK b \in Actors : \E t \in Dirty(b) : cache[b][t].page = p /\ cache[b][t].content = c
    BY <1>7 DEF Held0
  <2>1. PICK t \in Dirty(b) : cache[b][t].page = p /\ cache[b][t].content = c
    BY <2>0
  <2>2. ~(b = a /\ t = s)
    BY <1>7, <2>1
  <2>3. t \in Dirty(b)' /\ cache'[b][t] = cache[b][t]
    BY <1>1, <1>2, <1>3, <2>1, <2>2
  <2> QED BY <2>1, <2>3 DEF Held0
<1> QED BY <1>4, <1>5, <1>6, <1>7 DEF Pending

LEMMA BatchSame ==
  ASSUME UNCHANGED <<batch, nextPlane>>, NEW v \in Views, BatchRight(v)
  PROVE  BatchRight(v)'
BY DEF BatchRight, PlaneOf

LEMMA PendingSame ==
  ASSUME UNCHANGED <<cache, batch>>, NEW p PROVE Pending(p)' = Pending(p)
<1>1. \A a : Dirty(a)' = Dirty(a)
  BY DEF Dirty, Slots
<1>2. \A c : Held0(p, c)' <=> Held0(p, c)
  BY <1>1 DEF Held0
<1>3. \A c : Batched(p, c)' <=> Batched(p, c)
  BY DEF Batched
<1> QED BY <1>2, <1>3 DEF Pending

(* Where nothing of a page is pending, its entry tells what it holds. *)
LEMMA LatestDecodes ==
  ASSUME StoreConstants, StoreInv, HistoryInv, mode # "closed", NEW p \in Pages, Pending(p) = {}
  PROVE  Latest(p) = Decode(file, dir[p])
BY LatestFacts DEF HistoryInv

--------------------
(* Storing a page.                                                         *)

(* Who writes the directory owns no page that another stores. *)
LEMMA DirectoryApart ==
  ASSUME StoreConstants, StoreInv, NEW a \in Actors, Storing(a),
         NEW b \in Actors, task[b].step = "directory"
  PROVE  b # a /\ ~Owns(b, PageOf(a))
<1>1. StoreTypeOK /\ ActorsInv /\ CoherenceInv
  BY DEF StoreInv
<1>2. /\ PageOf(a) \in Pages /\ Owns(a, PageOf(a)) /\ task[a].step # "directory"
      /\ (a = Main => NoViews) /\ (a # Main => a \in Views /\ view[a] = "write")
  BY <1>1, StoringFacts DEF Storing
<1>3. /\ b = Main => NoWritable
      /\ b # Main => b \in Views /\ view[b] = "write"
  BY FlushFacts
<1>4. b # a /\ b # Main /\ a # Main
  BY <1>2, <1>3 DEF NoWritable, NoViews
<1>5. ~Overlaps(b, a)
  BY <1>1, <1>2, <1>3, <1>4 DEF ActorsInv, ViewsApart
<1>6. ~Owns(b, PageOf(a))
  BY <1>2, <1>3, <1>4, <1>5, OwnersOverlap
<1> QED BY <1>4, <1>6

LEMMA StoringDirectory ==
  ASSUME StoreConstants, StoreInv, DirectoryRight, NEW a \in Actors, Storing(a), disk' = disk,
         \A q \in Pages \ {PageOf(a)} : dir'[q] = dir[q],
         \A b \in Actors \ {a} : task'[b] = task[b],
         task'[a].step # "directory", task'[a].next = 0 \/ task'[a].next = task[a].next
  PROVE  DirectoryRight'
<1>1. \A b, p : Owns(b, p)' = Owns(b, p)
  BY DEF Owns, Logical
<1>2. task'[a].next = 0
  BY DEF DirectoryRight, Storing
<1>3. ASSUME NEW b \in Actors, b # a, task[b].step = "directory", NEW p \in Pages, p < task[b].next,
             Owns(b, p)
      PROVE  disk'[p] = dir'[p]
  <2>1. disk[p] = dir[p]
    BY <1>3 DEF DirectoryRight
  <2>2. p # PageOf(a)
    BY <1>3, DirectoryApart
  <2> QED BY <2>1, <2>2
<1>4. ASSUME NEW b \in Actors, b # a
      PROVE  task'[b] = task[b] /\ (task[b].step # "directory" => task[b].next = 0)
  BY <1>4 DEF DirectoryRight
<1> QED BY <1>1, <1>2, <1>3, <1>4 DEF DirectoryRight

(* What is read when an actor has written to the file what it stores. *)
LEMMA StoresReadable ==
  ASSUME StoreConstants, StoreInv, HistoryInv, NEW a \in Actors, Storing(a), StoresOwn(a),
         Content(a) # Draw, file' \in Seq(Cell), exact' = exact
  PROVE  \A p \in Pages :
           /\ Readable(possible[p], file', dir[p]) /\ Readable(possible[p], file', disk[p])
           /\ p # PageOf(a) => Decode(file', dir[p]) = Decode(file, dir[p])
<1>1. StoreTypeOK /\ ActorsInv /\ CoherenceInv
  BY DEF StoreInv
<1>2. PICK q \in Pages, c \in Contents : q = PageOf(a) /\ c = Content(a)
  <2>1. PageOf(a) \in Pages /\ Content(a) \in Values
    BY <1>1, StoringFacts
  <2> QED BY <2>1 DEF Values
<1>3. mode # "closed" /\ c \in possible[q]
  <2>1. mode = "write" /\ task[a].slot \in Dirty(a)
    BY <1>1, StoringFacts
  <2>2. c \in Pending(q)
    BY <1>2, <2>1, PendingFacts DEF PageOf, Content, Stored
  <2> QED BY <2>1, <2>2 DEF HistoryInv
<1>4. PICK own \in [Nat -> Pages], own2 \in [Nat -> Pages] :
        /\ OwnInv(own) /\ WritesOnly(file, file', own, own2, q)
        /\ Stores(file, file', c, dir[q].at)
  BY <1>2 DEF StoresOwn
<1>5. \A p \in Pages : /\ Readable(possible[p], file, dir[p]) /\ Readable(possible[p], file, disk[p])
                       /\ dir[p] \in Entry /\ disk[p] \in Entry
                       /\ EntryInside(own, p, dir[p]) /\ EntryInside(own, p, disk[p])
  BY <1>1, <1>3, <1>4 DEF HistoryInv, AllReadable, StoreTypeOK, OwnInv, EntriesInside
<1>6. file \in Seq(Cell) /\ Len(file) <= Len(file')
  BY <1>1, <1>4 DEF StoreTypeOK, WritesOnly
<1>7. ASSUME NEW p \in Pages, NEW e \in Entry, EntryInside(own, p, e), Readable(possible[p], file, e)
      PROVE  Readable(possible[p], file', e) /\ (p # q => Decode(file', e) = Decode(file, e))
  <2>1. /\ e.at # 0 => e.at + Reach(e) <= Len(file)
        /\ p # q => Decode(file', e) = Decode(file, e)
    BY <1>4, <1>6, <1>7, EntryFrame
  <2>2. CASE p # q
    BY <1>7, <2>1, <2>2, ReadableSame
  <2>3. CASE p = q
    <3>1. dir[q] \in Entry /\ Readable(possible[q], file, dir[q])
      BY <1>5
    <3> QED BY <1>3, <1>4, <1>6, <1>7, <2>1, <2>3, <3>1, ReadableStores
  <2> QED BY <2>2, <2>3
<1> QED BY <1>2, <1>5, <1>7

LEMMA StoringQuiet ==
  ASSUME StoreConstants, StoreInv, HistoryInv, StoreInv', NEW a \in Actors, Storing(a),
         UNCHANGED <<disk, mode, cache, batch, nextPlane, history>>,
         \A q \in Pages \ {PageOf(a)} : /\ dir'[q] = dir[q]
                                        /\ Decode(file', dir[q]) = Decode(file, dir[q]),
         \A p \in Pages : Entries2(p),
         \A b \in Actors \ {a} : task'[b] = task[b],
         task'[a].step # "directory", task'[a].next = task[a].next
  PROVE  StepRight
<1>1. mode # "closed" /\ mode' # "closed" /\ task[a].slot \in Dirty(a)
  BY StoringFacts DEF StoreInv
<1>2. Content(a) \in Pending(PageOf(a))
  BY <1>1, PendingFacts DEF PageOf, Content, Stored
<1>3. ASSUME NEW p \in Pages PROVE Reads2(p)
  <2>1. Pending(p)' = Pending(p)
    BY PendingSame
  <2>2. CASE p = PageOf(a)
    BY <1>2, <2>1, <2>2 DEF Reads2
  <2>3. CASE p # PageOf(a)
    <3>1. Pending(p) = {} => Latest(p) = Decode(file, dir[p])
      BY <1>1, LatestDecodes
    <3> QED BY <2>1, <2>3, <3>1 DEF Reads2
  <2> QED BY <2>2, <2>3
<1>4. DirectoryRight'
  BY StoringDirectory DEF HistoryInv
<1>5. \A v \in Views : BatchRight(v)'
  BY BatchSame DEF HistoryInv
<1> QED BY <1>1, <1>3, <1>4, <1>5, QuietRight

(* What the actor that stores a page writes is one of the page's contents. *)
LEMMA StoringPossible ==
  ASSUME StoreConstants, StoreInv, HistoryInv, NEW a \in Actors, Storing(a)
  PROVE  /\ PageOf(a) \in Pages /\ Content(a) \in Values /\ Content(a) \in possible[PageOf(a)]
         /\ mode # "closed" /\ AllReadable /\ task \in [Actors -> Task]
         /\ file \in Seq(Cell) /\ dir \in [Pages -> Entry] /\ disk \in [Pages -> Entry]
<1>1. StoreTypeOK /\ ActorsInv /\ CoherenceInv
  BY DEF StoreInv
<1>2. /\ PageOf(a) \in Pages /\ Content(a) \in Values /\ mode = "write"
      /\ task[a].slot \in Dirty(a)
  BY <1>1, StoringFacts
<1>3. Content(a) \in Pending(PageOf(a))
  BY <1>2, PendingFacts DEF PageOf, Content, Stored
<1> QED BY <1>1, <1>2, <1>3 DEF HistoryInv, StoreTypeOK

LEMMA StoreDrawStep ==
  ASSUME StoreConstants, StoreInv, HistoryInv, StoreInv', NEW a \in Actors, StoreDraw(a)
  PROVE  StepRight
<1> DEFINE q == PageOf(a)
<1>1. Storing(a) /\ Content(a) = Draw
  BY DEF StoreDraw, Storing, Content
<1>2. /\ q \in Pages /\ Draw \in possible[q] /\ mode # "closed" /\ AllReadable
      /\ task \in [Actors -> Task] /\ dir \in [Pages -> Entry] /\ disk \in [Pages -> Entry]
  BY <1>1, StoringPossible
<1>3. /\ dir' = [dir EXCEPT ![q].at = 0] /\ file' = file
      /\ UNCHANGED <<disk, mode, cache, batch, nextPlane, history>>
      /\ task' = [task EXCEPT ![a].step = "length"]
  BY DEF StoreDraw, PageOf, Advance, stored, writers
<1>4. /\ \A p \in Pages \ {q} : dir'[p] = dir[p]
      /\ dir'[q].at = 0 /\ dir'[q].len = dir[q].len
      /\ \A b \in Actors \ {a} : task'[b] = task[b]
      /\ task'[a].step = "length" /\ task'[a].next = task[a].next
  BY <1>2, <1>3 DEF Entry, Task
<1>5. ASSUME NEW p \in Pages PROVE Entries2(p)
  <2>1. /\ Readable(possible[p], file, dir[p]) /\ Readable(possible[p], file, disk[p])
        /\ file' = file /\ disk' = disk
    BY <1>2, <1>3 DEF AllReadable
  <2>2. CASE p # q
    BY <1>4, <2>1, <2>2 DEF Entries2
  <2>3. CASE p = q
    <3>1. Decode(file, dir'[q]) = Draw
      BY <1>4 DEF Decode
    <3>2. ASSUME Single(possible[q]) PROVE dir'[q].len = 0
      <4>1. Decode(file, dir[q]) = Draw
        BY <1>2, <2>1, <2>3, <3>2 DEF Single, Readable, Returns
      <4>2. dir[q].at = 0
        BY <4>1, DecodeDraw
      <4> QED BY <1>4, <2>1, <2>3, <3>2, <4>2 DEF Readable
    <3>3. Readable(possible[q], file, dir'[q])
      BY <1>2, <1>4, <3>1, <3>2 DEF Readable, Returns
    <3> QED BY <2>1, <2>3, <3>3 DEF Entries2
  <2> QED BY <2>2, <2>3
<1>6. \A p \in Pages \ {PageOf(a)} : dir'[p] = dir[p] /\ Decode(file', dir[p]) = Decode(file, dir[p])
  BY <1>3, <1>4
<1>7. task'[a].step # "directory"
  BY <1>4
<1> QED BY <1>1, <1>3, <1>4, <1>5, <1>6, <1>7, StoringQuiet

LEMMA StoreHeaderStep ==
  ASSUME StoreConstants, StoreInv, HistoryInv, StoreInv', NEW a \in Actors,
         StoreInPlace(a) \/ StoreAppend(a)
  PROVE  StepRight
<1>1. Storing(a) /\ Content(a) # Draw /\ StoresOwn(a)
  BY StoreInPlaceRight, StoreAppendRight DEF StoreInPlace, StoreAppend, Storing, Content
<1>2. task \in [Actors -> Task]
  BY <1>1, StoringPossible
<1>3. /\ UNCHANGED <<disk, dir, exact, mode, cache, batch, nextPlane, history>>
      /\ \/ task' = [task EXCEPT ![a].step = "payload", ![a].at = dir[Stored(a).page].at,
                                 ![a].appended = FALSE]
         \/ task' = [task EXCEPT ![a].step = "payload", ![a].at = Len(file) + 1, ![a].appended = TRUE]
  BY DEF StoreInPlace, StoreAppend, writers
<1>4. /\ \A b \in Actors \ {a} : task'[b] = task[b]
      /\ task'[a].step = "payload" /\ task'[a].next = task[a].next
  BY <1>2, <1>3 DEF Task
<1>5. file' \in Seq(Cell)
  BY DEF StoreInv, StoreTypeOK
<1>6. \A p \in Pages :
        /\ Readable(possible[p], file', dir[p]) /\ Readable(possible[p], file', disk[p])
        /\ p # PageOf(a) => Decode(file', dir[p]) = Decode(file, dir[p])
  BY <1>1, <1>3, <1>5, StoresReadable
<1>7. /\ \A p \in Pages : Entries2(p)
      /\ \A p \in Pages \ {PageOf(a)} : dir'[p] = dir[p] /\ Decode(file', dir[p]) = Decode(file, dir[p])
  BY <1>3, <1>6 DEF Entries2
<1>8. task'[a].step # "directory"
  BY <1>4
<1> QED BY <1>1, <1>3, <1>4, <1>7, <1>8, StoringQuiet

LEMMA StorePayloadStep ==
  ASSUME StoreConstants, StoreInv, HistoryInv, StoreInv', NEW a \in Actors, StorePayload(a)
  PROVE  StepRight
<1> DEFINE q == PageOf(a)
<1>1. StoreTypeOK /\ Storing(a) /\ StoresOwn(a)
  BY StorePayloadRight DEF StorePayload, Storing, StoreInv
<1>2. /\ q \in Pages /\ Content(a) \in Values /\ Content(a) \in possible[q] /\ AllReadable
      /\ task \in [Actors -> Task] /\ dir \in [Pages -> Entry] /\ disk \in [Pages -> Entry]
  BY <1>1, StoringPossible
<1>3. /\ dir' = [dir EXCEPT ![q].at = task[a].at]
      /\ UNCHANGED <<disk, exact, mode, cache, batch, nextPlane, history>>
      /\ task' = [task EXCEPT ![a].step = "length"]
  BY DEF StorePayload, PageOf, Advance, stored, writers
<1>4. /\ \A p \in Pages \ {q} : dir'[p] = dir[p]
      /\ dir'[q].at = task[a].at /\ dir'[q].len = dir[q].len /\ dir'[q] \in Entry
      /\ \A b \in Actors \ {a} : task'[b] = task[b]
      /\ task'[a].step = "length" /\ task'[a].next = task[a].next
  BY <1>2, <1>3 DEF Entry, Task
<1>5. Content(a) # Draw /\ task[a].at # 0
  <2>1. PICK own \in [Nat -> Pages] : OwnInv(own)
    BY DEF StoreInv
  <2>2. PayloadRight(own, a)
    BY <2>1 DEF OwnInv, StoresRight, StorePayload
  <2> QED BY <1>1, <2>2 DEF PayloadRight, StoreTypeOK
<1>6. PICK c \in Contents : c = Content(a)
  BY <1>2, <1>5 DEF Values
<1>7. Whole(file', task[a].at, c)
  <2>1. PICK own \in [Nat -> Pages] : OwnInv(own)'
    BY DEF StoreInv
  <2>2. LengthRight(own, a)'
    BY <1>4, <2>1 DEF OwnInv, StoresRight
  <2>3. PageOf(a)' = q /\ Content(a)' = c
    <3>1. task'[a].slot = task[a].slot
      BY <1>2, <1>3 DEF Task
    <3> QED BY <1>3, <1>6, <3>1 DEF PageOf, Content, Stored
  <2>4. Whole(file, dir[PageOf(a)].at, Content(a))'
    BY <1>5, <1>6, <2>2, <2>3 DEF LengthRight
  <2> QED BY <1>4, <2>3, <2>4 DEF Whole
<1>8. file' \in Seq(Cell)
  BY DEF StoreInv, StoreTypeOK
<1>9. \A p \in Pages :
        /\ Readable(possible[p], file', dir[p]) /\ Readable(possible[p], file', disk[p])
        /\ p # PageOf(a) => Decode(file', dir[p]) = Decode(file, dir[p])
  BY <1>1, <1>3, <1>5, <1>8, StoresReadable
<1>10. Readable(possible[q], file', dir'[q])
  <2>1. Decode(file', dir'[q]) \in {c, Err}
    <3>1. Size[c] \in Nat /\ 0 \in 0 .. Size[c] /\ task[a].at + 0 = task[a].at
      BY <1>1, <1>4 DEF StoreConstants, Entry
    <3>2. file'[dir'[q].at] = <<c, 0>>
      BY <1>4, <1>7, <3>1 DEF Whole
    <3> QED BY <1>4, <1>5, <3>2, DecodeHeader
  <2>2. ASSUME Single(possible[q])
        PROVE  Decode(file', dir'[q]) = c /\ dir'[q].at # 0 /\ dir'[q].len # 0
    <3>1. Decode(file, dir[q]) = c
      BY <1>2, <1>6, <2>2 DEF Single, AllReadable, Readable, Returns
    <3>2. Size[c] = dir[q].len /\ Size[c] # 0
      BY <3>1, DecodeFacts DEF StoreConstants
    <3> QED BY <1>4, <1>5, <1>7, <3>2, DecodeWhole
  <2> QED BY <1>2, <1>6, <2>1, <2>2 DEF Readable, Returns
<1>11. ASSUME NEW p \in Pages PROVE Entries2(p)
  BY <1>3, <1>4, <1>9, <1>10 DEF Entries2
<1>12. \A p \in Pages \ {PageOf(a)} : dir'[p] = dir[p] /\ Decode(file', dir[p]) = Decode(file, dir[p])
  BY <1>4, <1>9
<1>13. task'[a].step # "directory"
  BY <1>4
<1> QED BY <1>1, <1>3, <1>4, <1>11, <1>12, <1>13, StoringQuiet

LEMMA DirectoryKept ==
  ASSUME DirectoryRight, UNCHANGED <<disk, dir>>, NEW a \in Actors,
         \A b \in Actors \ {a} : task'[b] = task[b],
         task'[a] = task[a] \/ (task'[a].step # "directory" /\ task'[a].next = 0)
  PROVE  DirectoryRight'
<1>1. \A b, p : Owns(b, p)' = Owns(b, p)
  BY DEF Owns, Logical
<1>2. \A b \in Actors : task'[b] = task[b] \/ (task'[b].step # "directory" /\ task'[b].next = 0)
  OBVIOUS
<1> QED BY <1>1, <1>2 DEF DirectoryRight

(* A step that changes neither what is stored nor what is pending. *)
LEMMA SameTable ==
  ASSUME StoreConstants, StoreInv, HistoryInv, StoreInv', mode # "closed", mode' # "closed",
         UNCHANGED <<file, disk, dir, history>>, \A p \in Pages : Pending(p)' = Pending(p),
         DirectoryRight', \A v \in Views : BatchRight(v)'
  PROVE  StepRight
<1>1. ASSUME NEW p \in Pages PROVE Reads2(p) /\ Entries2(p)
  <2>1. Pending(p) = {} => Latest(p) = Decode(file, dir[p])
    BY LatestDecodes
  <2>2. Readable(possible[p], file, dir[p]) /\ Readable(possible[p], file, disk[p])
    BY DEF HistoryInv, AllReadable
  <2> QED BY <2>1, <2>2 DEF Reads2, Entries2
<1> QED BY <1>1, QuietRight

(* An actor changes one slot. *)
LEMMA SlotStep ==
  ASSUME StoreConstants, StoreInv, HistoryInv, StoreInv', mode # "closed",
         UNCHANGED <<file, disk, mode, batch, nextPlane>>,
         NEW a \in Actors, NEW s \in Slots(a), NEW x \in Slot, SlotChange(a, s, x),
         x.dirty => x.content # Err,
         IF x.dirty THEN Noted(x.page, x.content) ELSE UNCHANGED history,
         \A p \in Pages : \/ x.dirty /\ x.page = p
                          \/ Decode(file, dir'[p]) = Latest(p)
                          \/ dir'[p] = dir[p] /\ ~(s \in Dirty(a) /\ cache[a][s].page = p),
         \A p \in Pages : Readable(possible[p], file, dir'[p]),
         DirectoryRight'
  PROVE  StepRight
<1>1. ASSUME NEW p \in Pages PROVE Entries2(p)
  <2>1. Readable(possible[p], file, disk[p])
    BY DEF HistoryInv, AllReadable
  <2> QED BY <2>1 DEF Entries2
<1>2. \A v \in Views : BatchRight(v)'
  BY BatchSame DEF HistoryInv
<1>3. ASSUME NEW p \in Pages
      PROVE  /\ Pending(p)' \subseteq Pending(p) \cup (IF x.dirty /\ x.page = p THEN {x.content} ELSE {})
             /\ x.dirty /\ x.page = p => x.content \in Pending(p)'
             /\ ~(s \in Dirty(a) /\ cache[a][s].page = p) => Pending(p) \subseteq Pending(p)'
  BY SlotPending
<1>4. ASSUME NEW p \in Pages, ~(x.dirty /\ x.page = p) PROVE Reads2(p)
  <2>1. Pending(p) = {} => Latest(p) = Decode(file, dir[p])
    BY LatestDecodes
  <2>2. Pending(p)' \subseteq Pending(p)
    BY <1>3, <1>4
  <2>3. CASE Decode(file, dir'[p]) = Latest(p)
    BY <2>2, <2>3 DEF Reads2
  <2>4. CASE dir'[p] = dir[p] /\ ~(s \in Dirty(a) /\ cache[a][s].page = p)
    <3>1. Pending(p) \subseteq Pending(p)'
      BY <1>3, <2>4
    <3> QED BY <2>1, <2>2, <2>4, <3>1 DEF Reads2
  <2> QED BY <1>4, <2>3, <2>4
<1>5. CASE x.dirty
  <2>1. PICK q \in Pages, c \in Values : q = x.page /\ c = x.content
    BY <1>5 DEF Slot
  <2>2. c \in Pending(q)' /\ Pending(q)' \subseteq Pending(q) \cup {c}
    BY <1>3, <1>5, <2>1
  <2>3. \A p \in Pages \ {q} : Reads2(p)
    BY <1>4, <2>1
  <2>4. Noted(q, c)
    BY <1>5, <2>1
  <2> QED BY <1>1, <1>2, <2>2, <2>3, <2>4, PutRight
<1>6. CASE ~x.dirty
  BY <1>1, <1>2, <1>4, <1>6, QuietRight
<1> QED BY <1>5, <1>6

LEMMA StoreLengthStep ==
  ASSUME StoreConstants, StoreInv, HistoryInv, StoreInv', NEW a \in Actors, StoreLength(a)
  PROVE  StepRight
<1> DEFINE q == PageOf(a)
           c == Content(a)
           s == task[a].slot
<1>1. StoreTypeOK /\ ActorsInv /\ CoherenceInv /\ Storing(a)
  BY DEF StoreInv, StoreLength, Storing
<1>2. /\ q \in Pages /\ c \in Values /\ c \in possible[q] /\ AllReadable /\ mode # "closed"
      /\ dir \in [Pages -> Entry]
  BY <1>1, StoringPossible
<1>3. s \in Slots(a) /\ s \in Dirty(a)
  BY <1>1, StoringFacts
<1>4. /\ dir' = [dir EXCEPT ![q].len = IF c = Draw THEN 0 ELSE Size[c]]
      /\ UNCHANGED <<file, disk, mode, batch, nextPlane>>
  BY DEF StoreLength, PageOf, Content, stored, writers
<1>5. /\ \A p \in Pages \ {q} : dir'[p] = dir[p]
      /\ dir'[q].at = dir[q].at /\ dir'[q].len = IF c = Draw THEN 0 ELSE Size[c]
  BY <1>2, <1>4 DEF Entry
<1>6. Decode(file, dir'[q]) = c /\ (dir'[q].at = 0 <=> dir'[q].len = 0)
  <2>1. PICK own \in [Nat -> Pages] : OwnInv(own)
    BY DEF StoreInv
  <2>2. LengthRight(own, a)
    BY <2>1 DEF OwnInv, StoresRight, StoreLength
  <2>3. CASE c = Draw
    BY <1>5, <2>2, <2>3 DEF LengthRight, Decode
  <2>4. CASE c # Draw
    <3>1. PICK d \in Contents : d = c
      BY <1>2, <2>4 DEF Values
    <3>2. Whole(file, dir[q].at, d) /\ dir[q].at # 0
      BY <2>2, <2>4, <3>1 DEF LengthRight, Inside
    <3>3. dir'[q] \in Entry /\ Size[d] # 0
      BY <1>2 DEF StoreConstants, StoreInv, StoreTypeOK
    <3>4. Decode(file, dir'[q]) = d
      BY <1>5, <2>4, <3>1, <3>2, <3>3, DecodeWhole
    <3> QED BY <1>5, <2>4, <3>1, <3>2, <3>3, <3>4
  <2> QED BY <2>3, <2>4
<1>7. Latest(q) = c
  <2>1. c \in Pending(q)
    BY <1>3, PendingFacts DEF PageOf, Content, Stored
  <2> QED BY <1>2, <2>1, LatestFacts DEF HistoryInv
<1>8. PICK x \in Slot :
        /\ SlotChange(a, s, x)
        /\ x.dirty => x.content # Err
        /\ IF x.dirty THEN Noted(x.page, x.content) ELSE UNCHANGED history
        /\ task'[a].step \in {"none", "block", "slots"}
        /\ (task'[a].next = 0 \/ task'[a].next = task[a].next)
        /\ \A b \in Actors \ {a} : task'[b] = task[b]
  BY <1>1, <1>3, LengthCases
<1>9. DirectoryRight'
  <2>1. task'[a].step # "directory"
    BY <1>8
  <2> QED BY <1>1, <1>4, <1>5, <1>8, <2>1, StoringDirectory DEF HistoryInv
<1>10. ASSUME NEW p \in Pages PROVE Readable(possible[p], file, dir'[p])
  BY <1>2, <1>5, <1>6 DEF AllReadable, Readable, Returns
<1>11. ASSUME NEW p \in Pages
       PROVE  \/ Decode(file, dir'[p]) = Latest(p)
              \/ dir'[p] = dir[p] /\ ~(s \in Dirty(a) /\ cache[a][s].page = p)
  BY <1>5, <1>6, <1>7 DEF PageOf, Stored
<1> HIDE DEF q, c, s
<1> QED BY <1>2, <1>3, <1>4, <1>8, <1>9, <1>10, <1>11, SlotStep

LEMMA AccessStep ==
  ASSUME StoreConstants, StoreInv, HistoryInv, StoreInv', NEW a \in Actors, NEW q \in Pages,
         NEW put \in Values \cup {Err}, Access(a, q, put)
  PROVE  StepRight
<1>1. StoreTypeOK /\ ActorsInv /\ CoherenceInv /\ MayRead(a, q) /\ task \in [Actors -> Task]
  BY DEF StoreInv, Access, StoreTypeOK
<1>2. PICK s \in Slots(a) : /\ s = SlotOf(a, q) /\ mode # "closed"
                            /\ Hit(a, s, q, put) \/ Evict(a, s, q, put) \/ Miss(a, s, q, put)
  BY <1>1, ReadFacts DEF Access
<1>3. UNCHANGED <<file, disk, dir, mode, batch, nextPlane>>
  BY DEF Access, stored, writers
<1>4. \A v \in Views : BatchRight(v)'
  BY <1>3, BatchSame DEF HistoryInv
<1>5. \A p \in Pages : Readable(possible[p], file, dir'[p])
  BY <1>2, <1>3 DEF HistoryInv, AllReadable
<1>6. CASE Hit(a, s, q, put)
  <2> DEFINE x == [page |-> q, content |-> put, dirty |-> TRUE]
  <2>1. x \in Slot /\ put # Err /\ SlotChange(a, s, x) /\ Noted(q, put) /\ cache[a][s].page = q
    BY <1>1, <1>6 DEF Hit, Slot, SlotChange, StoreTypeOK, Holds
  <2>2. x.dirty /\ x.page = q /\ x.content = put
    OBVIOUS
  <2>3. DirectoryRight'
    BY <1>3, <1>6, DirectoryKept DEF Hit, HistoryInv
  <2> HIDE DEF x
  <2>4. \A p \in Pages : \/ x.dirty /\ x.page = p
                         \/ dir'[p] = dir[p] /\ ~(s \in Dirty(a) /\ cache[a][s].page = p)
    BY <1>3, <2>1, <2>2
  <2> QED BY <1>2, <1>3, <1>5, <2>1, <2>2, <2>3, <2>4, SlotStep
<1>7. CASE Evict(a, s, q, put)
  <2>1. UNCHANGED <<cache, history>> /\ task'[a].step = "block" /\ task'[a].next = 0
        /\ \A b \in Actors \ {a} : task'[b] = task[b]
    BY <1>1, <1>7 DEF Evict, Idle
  <2>2. DirectoryRight'
    BY <1>3, <2>1, DirectoryKept DEF HistoryInv
  <2>3. \A p \in Pages : Pending(p)' = Pending(p)
    BY <1>3, <2>1, PendingSame
  <2> QED BY <1>2, <1>3, <1>4, <2>1, <2>2, <2>3, SameTable
<1>8. CASE Miss(a, s, q, put)
  <2>1. /\ s \notin Dirty(a) /\ Fetched(a, s, q, put, cache) /\ UNCHANGED task
    BY <1>8 DEF Miss, Dirty
  <2>2. PICK x \in Slot :
          /\ SlotChange(a, s, x)
          /\ x.dirty => x.content # Err
          /\ x.content # Err => x.page = q
          /\ IF x.dirty THEN x.content = put /\ Noted(q, put) ELSE UNCHANGED history
    BY <1>1, <2>1, AlikeSelf, FetchedFacts
  <2>3. IF x.dirty THEN Noted(x.page, x.content) ELSE UNCHANGED history
    BY <2>2
  <2>4. DirectoryRight'
    BY <1>3, <2>1, DirectoryKept DEF HistoryInv
  <2>5. \A p \in Pages : dir'[p] = dir[p] /\ ~(s \in Dirty(a) /\ cache[a][s].page = p)
    BY <1>3, <2>1
  <2> QED BY <1>2, <1>3, <1>5, <2>2, <2>3, <2>4, <2>5, SlotStep
<1> QED BY <1>2, <1>6, <1>7, <1>8

LEMMA ReplaceStep ==
  ASSUME StoreConstants, StoreInv, HistoryInv, StoreInv', NEW a \in Views, NEW q \in Pages,
         NEW put \in Values, Replace(a, q, put)
  PROVE  StepRight
<1>1. /\ StoreTypeOK /\ ActorsInv /\ CoherenceInv /\ MayRead(a, q) /\ task \in [Actors -> Task]
      /\ a \in Actors
  BY DEF StoreInv, Replace, MayPut, StoreTypeOK, Actors
<1>2. SlotOf(a, q) \in Slots(a) /\ mode # "closed"
  BY <1>1, ReadFacts
<1>3. PICK s \in Slots(a) : s = SlotOf(a, q)
  BY <1>2
<1>4. UNCHANGED <<file, disk, dir, mode, batch, nextPlane>>
  BY DEF Replace, stored, writers
<1>5. \A p \in Pages : Readable(possible[p], file, dir'[p])
  BY <1>2, <1>4 DEF HistoryInv, AllReadable
<1>6. CASE cache[a][s].dirty
  <2>1. UNCHANGED <<cache, history>> /\ task'[a].step = "block" /\ task'[a].next = 0
        /\ \A b \in Actors \ {a} : task'[b] = task[b]
    BY <1>1, <1>3, <1>6 DEF Replace, Idle
  <2>2. DirectoryRight'
    BY <1>1, <1>4, <2>1, DirectoryKept DEF HistoryInv
  <2>3. \A p \in Pages : Pending(p)' = Pending(p)
    BY <1>4, <2>1, PendingSame
  <2>4. \A v \in Views : BatchRight(v)'
    BY <1>4, BatchSame DEF HistoryInv
  <2> QED BY <1>2, <1>4, <2>1, <2>2, <2>3, <2>4, SameTable
<1>7. CASE ~cache[a][s].dirty
  <2> DEFINE x == [page |-> q, content |-> put, dirty |-> TRUE]
  <2>1. Replaced(a, s, q, put) /\ s \notin Dirty(a)
    BY <1>3, <1>7 DEF Replace, Dirty
  <2>2. x \in Slot /\ put # Err /\ SlotChange(a, s, x) /\ Noted(q, put)
    <3>1. put # Err
      BY DEF Values, StoreConstants, Draw, Err
    <3> QED BY <1>1, <2>1, <3>1 DEF Replaced, Slot, SlotChange, StoreTypeOK
  <2>3. x.dirty /\ x.page = q /\ x.content = put
    OBVIOUS
  <2>4. DirectoryRight'
    <3>1. /\ task'[a].step = "block" /\ task'[a].next = 0
          /\ \A b \in Actors \ {a} : task'[b] = task[b]
      BY <1>1, <2>1 DEF Replaced, Idle
    <3> QED BY <1>1, <1>4, <3>1, DirectoryKept DEF HistoryInv
  <2> HIDE DEF x
  <2>5. \A p \in Pages : dir'[p] = dir[p] /\ ~(s \in Dirty(a) /\ cache[a][s].page = p)
    BY <1>4, <2>1
  <2> QED BY <1>1, <1>2, <1>4, <1>5, <2>2, <2>3, <2>4, <2>5, SlotStep
<1> QED BY <1>6, <1>7

(* What is pending when no dirty slot changes. *)
LEMMA PendingKept ==
  ASSUME batch' = batch,
         \A b \in Actors : cache'[b] = cache[b] \/ (cache'[b] = NoSlots(b) /\ Dirty(b) = {}),
         NEW p
  PROVE  Pending(p)' = Pending(p)
<1>1. ASSUME NEW b \in Actors
      PROVE  Dirty(b)' = Dirty(b) /\ \A s \in Dirty(b) : cache'[b][s] = cache[b][s]
  <2>1. CASE cache'[b] = cache[b]
    BY <2>1 DEF Dirty, Slots
  <2>2. CASE cache'[b] = NoSlots(b) /\ Dirty(b) = {}
    <3>1. \A s \in Slots(b) : cache'[b][s].dirty = FALSE
      BY <2>2 DEF NoSlots, Empty
    <3> QED BY <2>2, <3>1 DEF Dirty, Slots
  <2> QED BY <1>1, <2>1, <2>2
<1>2. \A c : Held0(p, c)' <=> Held0(p, c)
  BY <1>1 DEF Held0
<1>3. \A c : Batched(p, c)' <=> Batched(p, c)
  BY DEF Batched
<1> QED BY <1>2, <1>3 DEF Pending

(* A step that only says what an actor does next. *)
LEMMA TaskStep ==
  ASSUME StoreConstants, StoreInv, HistoryInv, StoreInv', mode # "closed",
         UNCHANGED <<file, disk, dir, mode, batch, nextPlane, history>>,
         \A b \in Actors : cache'[b] = cache[b] \/ (cache'[b] = NoSlots(b) /\ Dirty(b) = {}),
         NEW a \in Actors, \A b \in Actors \ {a} : task'[b] = task[b],
         task'[a] = task[a] \/ (task'[a].step # "directory" /\ task'[a].next = 0)
  PROVE  StepRight
<1>1. DirectoryRight'
  BY DirectoryKept DEF HistoryInv
<1>2. \A v \in Views : BatchRight(v)'
  BY BatchSame DEF HistoryInv
<1>3. \A p \in Pages : Pending(p)' = Pending(p)
  BY PendingKept
<1> QED BY <1>1, <1>2, <1>3, SameTable

LEMMA FlushSlotStep ==
  ASSUME StoreConstants, StoreInv, HistoryInv, StoreInv', NEW a \in Actors, FlushSlot(a)
  PROVE  StepRight
<1>1. mode # "closed" /\ task \in [Actors -> Task]
  BY FlushFacts DEF FlushSlot, StoreInv, StoreTypeOK
<1>2. UNCHANGED <<file, disk, dir, mode, cache, batch, nextPlane, history>>
  BY DEF FlushSlot, stored, writers
<1>3. /\ task'[a].step # "directory" /\ task'[a].next = task[a].next
      /\ \A b \in Actors \ {a} : task'[b] = task[b]
  BY <1>1 DEF FlushSlot, Task
<1>4. task[a].next = 0
  BY DEF FlushSlot, HistoryInv, DirectoryRight
<1> QED BY <1>1, <1>2, <1>3, <1>4, TaskStep

LEMMA FlushingStep ==
  ASSUME StoreConstants, StoreInv, HistoryInv, StoreInv', mode # "closed", NEW a \in Actors,
         NEW goal, NEW who, NEW size, Flushing(a, goal, who, size),
         UNCHANGED <<stored, mode, dir, cache, writers, history>>
  PROVE  StepRight
<1>1. task \in [Actors -> Task]
  BY DEF StoreInv, StoreTypeOK
<1>2. UNCHANGED <<file, disk, dir, mode, cache, batch, nextPlane, history>>
  BY DEF stored, writers
<1>3. /\ task'[a].step # "directory" /\ task'[a].next = 0
      /\ \A b \in Actors \ {a} : task'[b] = task[b]
  BY <1>1 DEF Flushing, Idle
<1> QED BY <1>2, <1>3, TaskStep

LEMMA FlushHandleStep ==
  ASSUME StoreConstants, StoreInv, HistoryInv, StoreInv', FlushHandle
  PROVE  StepRight
<1>1. Main \in Actors /\ mode # "closed" /\ Flushing(Main, "flush", Main, 0)
      /\ UNCHANGED <<stored, mode, dir, cache, writers, history>>
  BY DEF FlushHandle, Actors
<1> QED BY <1>1, FlushingStep

LEMMA CreateViewStep ==
  ASSUME StoreConstants, StoreInv, HistoryInv, StoreInv', NEW v \in Views, NEW kind,
         CreateView(v, kind)
  PROVE  StepRight
<1>1. Main \in Actors /\ mode # "closed" /\ UNCHANGED <<stored, mode, dir, cache, writers, history>>
  BY DEF CreateView, Actors
<1>2. CASE Flushing(Main, "create", v, 0)
  BY <1>1, <1>2, FlushingStep
<1>3. CASE UNCHANGED task
  <2>1. UNCHANGED <<file, disk, dir, mode, cache, batch, nextPlane, history>>
    BY <1>1 DEF stored, writers
  <2> QED BY <1>1, <1>3, <2>1, TaskStep
<1> QED BY <1>2, <1>3 DEF CreateView

(* A view that has nothing to write goes. *)
LEMMA ViewGoneKeeps ==
  ASSUME StoreConstants, StoreInv, NEW v \in Views, view[v] # "none", Dirty(v) = {}, ViewGone(v)
  PROVE  \A b \in Actors : cache'[b] = cache[b] \/ (cache'[b] = NoSlots(b) /\ Dirty(b) = {})
<1>1. Dirty(Main) = {}
  BY DEF StoreInv, ActorsInv, MainRight, NoViews
<1> QED BY <1>1 DEF ViewGone

LEMMA CloseViewStep ==
  ASSUME StoreConstants, StoreInv, HistoryInv, StoreInv', NEW v \in Views, CloseView(v)
  PROVE  StepRight
<1>1. /\ v \in Actors /\ UNCHANGED <<stored, mode, dir, writers, history>> /\ view[v] # "none"
  BY DEF CloseView, Actors
<1>2. mode # "closed"
  BY <1>1 DEF StoreInv, ActorsInv, ClosedRight, NoViews
<1>3. CASE view[v] = "read" /\ ViewGone(v) /\ UNCHANGED task
  <2>1. Dirty(v) = {}
    BY <1>3 DEF StoreInv, ActorsInv, ViewRight
  <2>2. \A b \in Actors : cache'[b] = cache[b] \/ (cache'[b] = NoSlots(b) /\ Dirty(b) = {})
    BY <1>1, <1>3, <2>1, ViewGoneKeeps
  <2>3. UNCHANGED <<file, disk, dir, mode, batch, nextPlane, history>>
    BY <1>1 DEF stored, writers
  <2> QED BY <1>1, <1>2, <1>3, <2>2, <2>3, TaskStep
<1>4. CASE Flushing(v, "close", v, 0) /\ UNCHANGED cache
  BY <1>1, <1>2, <1>4, FlushingStep
<1> QED BY <1>3, <1>4 DEF CloseView

LEMMA ResizeCacheStep ==
  ASSUME StoreConstants, StoreInv, HistoryInv, StoreInv', NEW c \in Caps, ResizeCache(c)
  PROVE  StepRight
<1>1. Main \in Actors /\ mode # "closed" /\ UNCHANGED <<stored, mode, dir, writers, history>>
  BY DEF ResizeCache, Actors
<1>2. CASE Flushing(Main, "resize", Main, c) /\ UNCHANGED cache
  BY <1>1, <1>2, FlushingStep
<1>3. CASE mode # "write" /\ cache' = [cache EXCEPT ![Main] = NoSlots(Main)] /\ UNCHANGED task
  <2>1. Dirty(Main) = {} /\ DOMAIN cache = Actors
    BY <1>3 DEF StoreInv, ActorsInv, MainRight, StoreTypeOK
  <2>2. \A b \in Actors : cache'[b] = cache[b] \/ (cache'[b] = NoSlots(b) /\ Dirty(b) = {})
    BY <1>3, <2>1
  <2>3. UNCHANGED <<file, disk, dir, mode, batch, nextPlane, history>>
    BY <1>1 DEF stored, writers
  <2> QED BY <1>1, <1>3, <2>2, <2>3, TaskStep
<1> QED BY <1>2, <1>3 DEF ResizeCache

LEMMA OpenAgainStep ==
  ASSUME StoreConstants, StoreInv, HistoryInv, StoreInv', OpenAgain
  PROVE  StepRight
<1>1. /\ Main \in Actors /\ mode # "closed"
      /\ UNCHANGED <<file, disk, dir, mode, cache, task, batch, nextPlane, history>>
  BY DEF OpenAgain, Actors, stored, writers
<1> QED BY <1>1, TaskStep

LEMMA CreateWriterStep ==
  ASSUME StoreConstants, StoreInv, HistoryInv, StoreInv', NEW v \in Views, CreateWriter(v)
  PROVE  StepRight
<1>1. /\ Main \in Actors
      /\ UNCHANGED <<file, disk, dir, mode, cache, task, batch, nextPlane, history>>
  BY DEF CreateWriter, Actors, stored, writers
<1>2. mode # "closed"
  BY DEF CreateWriter, StoreInv, ActorsInv, ClosedRight
<1> QED BY <1>1, <1>2, TaskStep

LEMMA CloseWriterStep ==
  ASSUME StoreConstants, StoreInv, HistoryInv, StoreInv', NEW v \in Views, CloseWriter(v)
  PROVE  StepRight
<1>1. /\ v \in Actors /\ mode # "closed"
      /\ batch \in [Views -> Seq(Pages \X Contents)] /\ nextPlane \in [Views -> Nat]
      /\ task \in [Actors -> Task]
  BY DEF CloseWriter, Actors, StoreInv, ActorsInv, ClosedRight, NoViews, StoreTypeOK
<1>2. batch' = batch /\ nextPlane' = nextPlane
  BY <1>1 DEF CloseWriter, WriterGone
<1>3. UNCHANGED <<file, disk, dir, mode, cache, batch, nextPlane, history>>
  BY <1>2 DEF CloseWriter, WriterGone, stored, history
<1>4. task' = task
  BY <1>1 DEF CloseWriter, WriterGone
<1> QED BY <1>1, <1>3, <1>4, TaskStep

LEMMA ReserveExtentStep ==
  ASSUME StoreConstants, StoreInv, HistoryInv, StoreInv', NEW v \in Views, ReserveExtent(v)
  PROVE  StepRight
<1>1. /\ v \in Actors /\ mode # "closed" /\ task \in [Actors -> Task]
  BY DEF ReserveExtent, Actors, StoreInv, ActorsInv, ClosedRight, NoViews, StoreTypeOK
<1>2. UNCHANGED <<file, disk, dir, mode, cache, batch, nextPlane, history>>
  BY DEF ReserveExtent, stored
<1>3. /\ task'[v].step # "directory" /\ task'[v].next = 0
      /\ \A b \in Actors \ {v} : task'[b] = task[b]
  BY <1>1 DEF ReserveExtent, Idle
<1> QED BY <1>1, <1>2, <1>3, TaskStep

(* A step that changes nothing but the count of what was asked for. *)
LEMMA AskedStep ==
  ASSUME HistoryInv, HistoryInv', Held' = Held,
         possible' = possible, changes' = changes + 1, gaveUp' = gaveUp
  PROVE  StepRight
<1>1. DOMAIN possible = Pages
  BY DEF HistoryInv
<1>2. Table!Put
  BY DEF Table!Put, Table!Pages
<1> QED BY <1>1, <1>2 DEF StepRight, Table!Next, Table!Pages

LEMMA PrepareStep ==
  ASSUME StoreConstants, StoreInv, HistoryInv, StoreInv', Prepare
  PROVE  StepRight
<1>1. /\ Main \in Actors /\ mode # "closed" /\ mode' = mode
      /\ UNCHANGED <<file, disk, dir, cache, task, batch, nextPlane, possible, gaveUp>>
      /\ changes' = changes + 1
  BY DEF Prepare, Actors
<1>2. \A v \in Views : BatchRight(v)'
  BY <1>1, BatchSame DEF HistoryInv
<1>3. \A p \in Pages : Pending(p)' = Pending(p)
  BY <1>1, PendingSame
<1>4. DirectoryRight'
  BY <1>1, DirectoryKept DEF HistoryInv
<1>5. ASSUME NEW p \in Pages PROVE Reads2(p)
  BY <1>1, <1>3, LatestDecodes DEF Reads2
<1>6. Held' = Held
  BY <1>1, <1>2, <1>5, Reads2Facts, HeldSame
<1>7. AllReadable'
  BY <1>1 DEF HistoryInv, AllReadable
<1>8. HistoryInv'
  BY <1>1, <1>2, <1>3, <1>4, <1>7 DEF HistoryInv
<1> QED BY <1>1, <1>6, <1>8, AskedStep

LEMMA UnchangedStep ==
  ASSUME StoreConstants, HistoryInv, UNCHANGED vars
  PROVE  StepRight
<1>1. UNCHANGED <<file, disk, exact, mode, dir, cap, cache, task, batch, nextPlane, possible, changes, gaveUp>>
  BY DEF vars, stored, writers, history
<1>2. \A v \in Views : BatchRight(v)'
  BY <1>1, BatchSame DEF HistoryInv
<1>3. \A p \in Pages : Pending(p)' = Pending(p)
  BY <1>1, PendingSame
<1>4. DirectoryRight'
  BY <1>1 DEF HistoryInv, DirectoryRight, Owns, Logical
<1>5. AllReadable' = AllReadable
  BY <1>1 DEF AllReadable
<1>6. \A p \in Pages : Durable(file, disk, p)' = Durable(file, disk, p)
  BY <1>1 DEF Durable
<1>7. HistoryInv'
  BY <1>1, <1>2, <1>3, <1>4, <1>5, <1>6 DEF HistoryInv
<1>8. Held' = Held
  BY <1>1 DEF Held, Latest, Durable, Owns, Logical, Holds, SlotOf, HandleSlot, ViewSlot, SideOf
<1> QED BY <1>1, <1>7, <1>8 DEF StepRight

LEMMA OpenRefusedStep ==
  ASSUME StoreConstants, HistoryInv, OpenRefused
  PROVE  StepRight
BY UnchangedStep DEF OpenRefused

--------------------
(* What is lost.                                                           *)
LEMMA PendingLess ==
  ASSUME \A b \in Actors : cache'[b] = cache[b] \/ cache'[b] = NoSlots(b),
         \A v \in Views : batch'[v] = batch[v] \/ batch'[v] = <<>>,
         NEW p
  PROVE  Pending(p)' \subseteq Pending(p)
<1>1. ASSUME NEW b \in Actors, NEW s \in Dirty(b)'
      PROVE  s \in Dirty(b) /\ cache'[b][s] = cache[b][s]
  <2>1. CASE cache'[b] = cache[b]
    BY <1>1, <2>1 DEF Dirty, Slots
  <2>2. CASE cache'[b] = NoSlots(b)
    <3>1. s \in Slots(b) /\ cache'[b][s].dirty
      BY <1>1 DEF Dirty, Slots
    <3>2. cache'[b][s].dirty = FALSE
      BY <2>2, <3>1 DEF NoSlots, Empty
    <3> QED BY <3>1, <3>2
  <2> QED BY <1>1, <2>1, <2>2
<1>2. \A c : Held0(p, c)' => Held0(p, c)
  BY <1>1 DEF Held0
<1>3. \A c : Batched(p, c)' => Batched(p, c)
  <2>1. ASSUME NEW v \in Views, NEW i \in DOMAIN batch'[v]
        PROVE  i \in DOMAIN batch[v] /\ batch'[v][i] = batch[v][i]
    OBVIOUS
  <2> QED BY <2>1 DEF Batched
<1> QED BY <1>2, <1>3 DEF Pending

LEMMA ClosedLatest == mode = "closed" => \A p : Latest(p) = Durable(file, disk, p)
<1> SUFFICES ASSUME mode = "closed", NEW p PROVE Latest(p) = Durable(file, disk, p)
  OBVIOUS
<1> QED BY Zenon DEF Latest

LEMMA ClosedLatestNext ==
  mode' = "closed" => \A p : Latest(p)' = Durable(file', disk', p)
<1>1. (mode = "closed" => \A p : Latest(p) = Durable(file, disk, p))'
  BY ClosedLatest, PTL
<1> QED BY <1>1

(* The handle is gone, and what was only in memory with it. *)
LEMMA DroppedStep ==
  ASSUME StoreConstants, StoreInv, HistoryInv, mode # "closed",
         UNCHANGED file, Dropped(file, disk'), disk' \in [Pages -> Entry],
         \A p \in Pages : disk'[p] = disk[p] \/ disk'[p] = dir[p]
  PROVE  StepRight
<1>1. /\ mode' = "closed" /\ task' = [a \in Actors |-> Idle]
      /\ cache' = [a \in Actors |-> NoSlots(a)] /\ batch' = [v \in Views |-> <<>>]
      /\ possible' = [p \in Pages |-> {Durable(file, disk', p)}]
      /\ gaveUp' = FALSE /\ changes' = changes
  BY DEF Dropped
<1>2. \A p \in Pages : Latest(p)' = Durable(file, disk', p)
  BY <1>1, ClosedLatestNext
<1>3. DirectoryRight'
  BY <1>1 DEF DirectoryRight, Idle
<1>4. \A v \in Views : BatchRight(v)'
  BY <1>1 DEF BatchRight
<1>5. ASSUME NEW p \in Pages PROVE Pending(p)' = {}
  <2>1. \A a \in Actors : Dirty(a)' = {}
    BY <1>1 DEF Dirty, NoSlots, Empty
  <2>2. \A v \in Views : DOMAIN batch'[v] = {}
    BY <1>1
  <2> QED BY <2>1, <2>2 DEF Pending, Held0, Batched
<1>6. HistoryInv'
  <2>1. DOMAIN possible' = Pages /\ \A p \in Pages : possible'[p] # {}
    BY <1>1
  <2>2. \A p \in Pages : possible'[p] = {Durable(file', disk', p)}
    BY <1>1
  <2> QED BY <1>1, <1>3, <1>4, <1>5, <2>1, <2>2 DEF HistoryInv
<1>7. ASSUME NEW p \in Pages
      PROVE  /\ Readable(possible[p], file, disk'[p])
             /\ Table!After(p) = Returns(possible[p]) /\ (Table!Settled(p) <=> Single(possible[p]))
  BY DEF HistoryInv, AllReadable, Table!After, Table!Settled, Returns, Single
<1>8. DOMAIN possible = Pages /\ DOMAIN possible' = Pages
  BY <1>1 DEF HistoryInv
<1>9. \A p \in Pages : Held'[p] = Durable(file, disk', p) /\ possible'[p] = {Held'[p]}
  BY <1>1, <1>2, HeldFacts
<1>10. possible' = [p \in Pages |-> {Held'[p]}]
  BY <1>1, <1>9
<1>11. CASE Valid(disk')
  <2>1. \A p \in Pages : Held'[p] \in Table!After(p)
    BY <1>7, <1>9, <1>11 DEF Durable, Readable
  <2> QED BY <1>1, <1>6, <1>8, <1>10, <2>1 DEF StepRight, Table!Next, Table!Crash, Table!Pages
<1>12. CASE ~Valid(disk')
  <2>1. PICK p \in Pages : ~(disk'[p].at = 0 <=> disk'[p].len = 0)
    BY <1>12 DEF Valid
  <2>2. ~Table!Settled(p)
    BY <1>7, <2>1 DEF Readable
  <2>3. \A q \in Pages : Held'[q] = Err
    BY <1>9, <1>12 DEF Durable
  <2> QED BY <1>1, <1>6, <1>8, <1>10, <2>2, <2>3 DEF StepRight, Table!Next, Table!Crash, Table!Pages
<1> QED BY <1>11, <1>12

LEMMA CrashStep ==
  ASSUME StoreConstants, StoreInv, HistoryInv, Crash
  PROVE  StepRight
<1>1. mode # "closed" /\ Dropped(file, disk) /\ UNCHANGED <<file, disk>> /\ disk \in [Pages -> Entry]
  BY DEF Crash, stored, StoreInv, StoreTypeOK
<1>2. Dropped(file, disk')
  BY <1>1
<1> QED BY <1>1, <1>2, DroppedStep

(* What could not be written is given up. *)
LEMMA LoseStep ==
  ASSUME StoreConstants, StoreInv, HistoryInv, StoreInv', mode # "closed", mode' # "closed",
         UNCHANGED <<file, disk, dir, possible, changes>>, gaveUp' = TRUE,
         \A p \in Pages : Pending(p)' \subseteq Pending(p),
         DirectoryRight', \A v \in Views : BatchRight(v)'
  PROVE  StepRight
<1>1. \A p \in Pages : Readable(possible[p], file, dir[p]) /\ Readable(possible[p], file, disk[p])
  BY DEF HistoryInv, AllReadable
<1>2. HistoryInv'
  BY <1>1 DEF HistoryInv, AllReadable
<1>3. ASSUME NEW p \in Pages PROVE Held'[p] \in Table!After(p) \cup {Held[p]}
  <2>1. Latest(p)' = Latest(p) \/ Latest(p)' = Decode(file, dir[p])
    BY LatestCarried
  <2>2. Table!After(p) = Returns(possible[p])
    BY DEF Table!After, Table!Settled, Returns, Single
  <2> QED BY <1>1, <2>1, <2>2, HeldFacts DEF Readable
<1>4. DOMAIN possible = Pages
  BY DEF HistoryInv
<1> QED BY <1>2, <1>3, <1>4 DEF StepRight, Table!Next, Table!Lose, Table!Pages

LEMMA StoreFailsStep ==
  ASSUME StoreConstants, StoreInv, HistoryInv, StoreInv', NEW a \in Actors, StoreFails(a)
  PROVE  StepRight
<1>1. task[a].step \in {"block", "payload"} /\ Storing(a)
  BY DEF StoreFails, Storing
<1>2. mode # "closed" /\ task \in [Actors -> Task] /\ disk \in [Pages -> Entry]
  BY <1>1, StoringPossible
<1>3. UNCHANGED <<file, disk>>
  BY DEF StoreFails, stored
<1>4. CASE task[a].goal = "close" /\ a = Main
  <2>1. Dropped(file, disk')
    BY <1>3, <1>4 DEF StoreFails
  <2> QED BY <1>2, <1>3, <2>1, DroppedStep
<1>5. CASE ~(task[a].goal = "close" /\ a = Main)
  <2>1. /\ task'[a] = Idle /\ \A b \in Actors \ {a} : task'[b] = task[b]
        /\ UNCHANGED <<mode, dir, batch, nextPlane, possible, changes>>
        /\ IF task[a].goal = "close" THEN ViewGone(a) /\ gaveUp' = TRUE
           ELSE UNCHANGED <<view, cache, gaveUp>>
    BY <1>2, <1>5 DEF StoreFails, writers
  <2>2. task'[a].step # "directory" /\ task'[a].next = 0
    BY <2>1 DEF Idle
  <2>3. CASE task[a].goal = "close"
    <3>1. \A b \in Actors : cache'[b] = cache[b] \/ cache'[b] = NoSlots(b)
      BY <2>1, <2>3 DEF ViewGone
    <3>2. \A p \in Pages : Pending(p)' \subseteq Pending(p)
      BY <2>1, <3>1, PendingLess
    <3>3. DirectoryRight'
      BY <1>3, <2>1, <2>2, DirectoryKept DEF HistoryInv
    <3>4. \A v \in Views : BatchRight(v)'
      BY <2>1, BatchSame DEF HistoryInv
    <3> QED BY <1>2, <1>3, <2>1, <2>3, <3>2, <3>3, <3>4, LoseStep
  <2>4. CASE task[a].goal # "close"
    <3>1. UNCHANGED <<file, disk, dir, mode, cache, batch, nextPlane, history>>
      BY <1>3, <2>1, <2>4 DEF history
    <3> QED BY <1>2, <2>1, <2>2, <3>1, TaskStep
  <2> QED BY <2>3, <2>4
<1> QED BY <1>4, <1>5

LEMMA WriterFailsStep ==
  ASSUME StoreConstants, StoreInv, HistoryInv, StoreInv', NEW v \in Views, WriterFails(v)
  PROVE  StepRight
<1>1. /\ v \in Actors /\ batch \in [Views -> Seq(Pages \X Contents)] /\ nextPlane \in [Views -> Nat]
      /\ task \in [Actors -> Task]
  BY DEF Actors, StoreInv, StoreTypeOK
<1>2. task[v].step = "extent" /\ WriterGone(v) /\ gaveUp' = TRUE
  BY DEF WriterFails
<1>3. mode # "closed" /\ mode' # "closed"
  <2>1. task[v] # Idle
    BY <1>2 DEF Idle
  <2> QED BY <1>1, <1>2, <2>1 DEF StoreInv, ActorsInv, ClosedRight, WriterGone
<1>4. /\ UNCHANGED <<file, disk, dir, possible, changes, cache>>
      /\ task'[v].step # "directory" /\ task'[v].next = 0
      /\ \A b \in Actors \ {v} : task'[b] = task[b]
      /\ batch'[v] = <<>> /\ \A o \in Views \ {v} : batch'[o] = batch[o] /\ nextPlane'[o] = nextPlane[o]
  BY <1>1, <1>2 DEF WriterGone, stored, Idle
<1>5. \A p \in Pages : Pending(p)' \subseteq Pending(p)
  BY <1>4, PendingLess
<1>6. DirectoryRight'
  BY <1>1, <1>4, DirectoryKept DEF HistoryInv
<1>7. ASSUME NEW o \in Views PROVE BatchRight(o)'
  <2>1. CASE o = v
    BY <1>4, <2>1 DEF BatchRight
  <2>2. CASE o # v
    BY <1>4, <2>2 DEF BatchRight, PlaneOf, HistoryInv
  <2> QED BY <2>1, <2>2
<1> QED BY <1>2, <1>3, <1>4, <1>5, <1>6, <1>7, LoseStep

--------------------
(* Writing the directory.                                                  *)

(* A flush reaches the directory when nothing of its pages is pending. *)
LEMMA FlushClean ==
  ASSUME StoreConstants, StoreInv, NEW a \in Actors, task[a].step \in {"slots", "directory"},
         Dirty(a) = {}, NEW p \in Pages, Owns(a, p)
  PROVE  Pending(p) = {}
<1>1. StoreTypeOK /\ ActorsInv /\ CoherenceInv
  BY DEF StoreInv
<1>2. /\ a = Main => NoWritable /\ (compile => NoViews)
      /\ a # Main => a \in Views /\ view[a] = "write"
  BY FlushFacts
<1>3. ASSUME NEW b \in Actors, NEW s \in Dirty(b), cache[b][s].page = p PROVE FALSE
  <2>1. Owns(b, p) /\ (b = Main => NoViews) /\ (b # Main => b \in Views /\ view[b] = "write")
    BY <1>1, <1>3, DirtyFacts
  <2>2. b # a
    BY <1>3
  <2>3. CASE a = Main
    BY <1>2, <2>1, <2>2, <2>3 DEF NoWritable
  <2>4. CASE b = Main
    BY <1>2, <2>1, <2>2, <2>4 DEF NoViews
  <2>5. CASE a # Main /\ b # Main
    <3>1. Overlaps(a, b)
      BY <1>2, <2>1, <2>5, OwnersOverlap
    <3> QED BY <1>1, <1>2, <2>1, <2>2, <2>5, <3>1 DEF ActorsInv, ViewsApart
  <2> QED BY <2>3, <2>4, <2>5
<1>4. ASSUME NEW v \in Views, NEW i \in DOMAIN batch[v] PROVE FALSE
  <2>1. view[v] = "writer" /\ compile
    <3>1. batch[v] \in Seq(Pages \X Contents) /\ ViewRight(v)
      BY <1>1 DEF StoreTypeOK, ActorsInv
    <3>2. batch[v] # <<>>
      BY <3>1
    <3> QED BY <3>1, <3>2 DEF ViewRight
  <2>2. CASE a = Main
    BY <1>2, <2>1, <2>2 DEF NoViews
  <2>3. CASE a # Main
    BY <1>1, <1>2, <2>1, <2>3 DEF ActorsInv, CompileRight
  <2> QED BY <2>2, <2>3
<1> QED BY <1>3, <1>4 DEF Pending, Held0, Batched

LEMMA WriteDirectoryStep ==
  ASSUME StoreConstants, StoreInv, HistoryInv, StoreInv', NEW a \in Actors, WriteDirectory(a)
  PROVE  StepRight
<1>1. StoreTypeOK /\ ActorsInv /\ CoherenceInv /\ TaskRight(a)
  BY DEF StoreInv, ActorsInv
<1>2. PICK last : last = Min({task[a].next + Chunk, Sides * PerSide})
  OBVIOUS
<1>3. PICK d : d = [p \in Pages |-> IF p \in task[a].next .. last - 1 THEN dir[p] ELSE disk[p]]
  OBVIOUS
<1>4. /\ task[a].step = "directory" \/ (task[a].step = "slots" /\ Dirty(a) = {})
      /\ disk' = d /\ UNCHANGED <<file, exact>>
      /\ IF last < Sides * PerSide
         THEN /\ task' = [task EXCEPT ![a] = [@ EXCEPT !.step = "directory", !.next = last]]
              /\ UNCHANGED <<mode, refs, dir, cap, cache, view, writers, history>>
         ELSE Flushed(a, d)
  BY <1>2, <1>3 DEF WriteDirectory
<1>5. task[a].step \in {"slots", "directory"} /\ Dirty(a) = {}
  BY <1>1, <1>4 DEF TaskRight
<1>6. disk' \in [Pages -> Entry] /\ \A p \in Pages : disk'[p] = disk[p] \/ disk'[p] = dir[p]
  BY <1>1, <1>3, <1>4 DEF StoreTypeOK
<1>7. /\ task[a] \in Task /\ task[a].goal \in {"flush", "close", "create", "resize"}
      /\ mode # "closed" /\ (a # Main => a \in Views /\ view[a] = "write")
      /\ task \in [Actors -> Task]
  BY <1>1, <1>5, FlushFacts DEF StoreTypeOK
<1>8. PICK n \in Nat : n = Sides * PerSide /\ last \in Nat /\ last <= n
  <2>1. PerSide \in Nat \ {0} /\ Sides \in {1, 2} /\ Chunk \in Nat
    BY DEF StoreConstants
  <2>2. PICK n \in Nat : n = Sides * PerSide
    BY <2>1
  <2>3. PICK m \in Nat : m = task[a].next + Chunk
    BY <1>7, <2>1 DEF Task
  <2>4. Min({m, n}) \in {m, n} /\ Min({m, n}) <= n
    BY MinPair
  <2> QED BY <1>2, <2>2, <2>3, <2>4
<1>9. ASSUME NEW p \in Pages, p < last, Owns(a, p) PROVE disk'[p] = dir[p]
  <2>1. p \in Nat /\ task[a].next \in Nat
    BY <1>7, <1>8 DEF Pages, Task
  <2>2. CASE p < task[a].next
    <3>1. disk[p] = dir[p]
      BY <1>5, <1>9, <2>1, <2>2 DEF HistoryInv, DirectoryRight
    <3> QED BY <1>6, <3>1
  <2>3. CASE ~(p < task[a].next)
    <3>1. p \in task[a].next .. last - 1
      BY <1>8, <1>9, <2>1, <2>3
    <3> QED BY <1>3, <1>4, <3>1
  <2> QED BY <2>2, <2>3
<1>10. \A b, p : Owns(b, p)' = Owns(b, p)
  BY DEF Owns, Logical
<1>11. ASSUME NEW b \in Actors, task'[b] = task[b], dir' = dir
       PROVE  IF task'[b].step = "directory"
              THEN \A p \in Pages : p < task'[b].next /\ Owns(b, p) => disk'[p] = dir'[p]
              ELSE task'[b].next = 0
  BY <1>6, <1>11 DEF HistoryInv, DirectoryRight
<1>12. \A p \in Pages : Readable(possible[p], file, dir[p]) /\ Readable(possible[p], file, disk'[p])
  BY <1>6, <1>7 DEF HistoryInv, AllReadable
<1>13. CASE last < n
  <2>1. /\ UNCHANGED <<file, dir, mode, cache, batch, nextPlane, history>>
        /\ task' = [task EXCEPT ![a] = [@ EXCEPT !.step = "directory", !.next = last]]
    BY <1>4, <1>8, <1>13 DEF writers
  <2>2. /\ task'[a].step = "directory" /\ task'[a].next = last
        /\ \A b \in Actors \ {a} : task'[b] = task[b]
    BY <1>7, <2>1 DEF Task
  <2>3. DirectoryRight'
    <3> SUFFICES ASSUME NEW b \in Actors
                 PROVE  IF task'[b].step = "directory"
                        THEN \A p \in Pages : p < task'[b].next /\ Owns(b, p) => disk'[p] = dir'[p]
                        ELSE task'[b].next = 0
      BY <1>10 DEF DirectoryRight
    <3>1. CASE b = a
      BY <1>9, <2>1, <2>2, <3>1
    <3>2. CASE b # a
      BY <1>11, <2>1, <2>2, <3>2
    <3> QED BY <3>1, <3>2
  <2>4. ASSUME NEW p \in Pages PROVE Reads2(p) /\ Entries2(p)
    <3>1. Pending(p)' = Pending(p)
      BY <2>1, PendingSame
    <3> QED BY <1>7, <1>12, <2>1, <3>1, LatestDecodes DEF Reads2, Entries2
  <2>5. \A v \in Views : BatchRight(v)'
    BY <2>1, BatchSame DEF HistoryInv
  <2> QED BY <1>7, <2>1, <2>3, <2>4, <2>5, QuietRight
<1>14. CASE ~(last < n)
  <2>1. Flushed(a, d)
    BY <1>4, <1>8, <1>14
  <2>2. CASE task[a].goal = "close" /\ a = Main
    <3>1. Dropped(file, disk')
      BY <1>4, <2>1, <2>2 DEF Flushed
    <3> QED BY <1>4, <1>6, <1>7, <3>1, DroppedStep
  <2>3. CASE ~(task[a].goal = "close" /\ a = Main)
    <3>1. /\ possible' = [p \in Pages |-> IF Owns(a, p) THEN {Decode(file, dir[p])} ELSE possible[p]]
          /\ UNCHANGED <<changes, gaveUp>>
          /\ task' = [task EXCEPT ![a] = Idle] /\ UNCHANGED <<mode, dir, writers>>
          /\ CASE task[a].goal = "close" -> ViewGone(a) /\ UNCHANGED cap
               [] task[a].goal = "create" ->
                    view' = [view EXCEPT ![task[a].who] = "write"] /\ UNCHANGED <<cache, cap>>
               [] task[a].goal = "resize" ->
                    /\ cap' = task[a].size /\ cache' = [cache EXCEPT ![Main] = NoSlots(Main)]
                    /\ UNCHANGED view
               [] OTHER -> UNCHANGED <<view, cache, cap>>
      BY <2>1, <2>3 DEF Flushed
    <3>2. \A b \in Actors : cache'[b] = cache[b] \/ (cache'[b] = NoSlots(b) /\ Dirty(b) = {})
      <4>1. CASE task[a].goal = "close"
        <5>1. a \in Views /\ view[a] = "write" /\ ViewGone(a)
          BY <1>7, <2>3, <3>1, <4>1
        <5> QED BY <1>5, <5>1, ViewGoneKeeps
      <4>2. CASE task[a].goal = "resize"
        <5>1. a = Main /\ cache' = [cache EXCEPT ![Main] = NoSlots(Main)]
          BY <1>1, <3>1, <4>2 DEF TaskRight
        <5> QED BY <1>1, <1>5, <5>1 DEF StoreTypeOK
      <4>3. CASE task[a].goal \in {"create", "flush"}
        BY <3>1, <4>3
      <4> QED BY <1>7, <4>1, <4>2, <4>3
    <3>3. \A p \in Pages : Pending(p)' = Pending(p)
      BY <3>1, <3>2, PendingKept DEF writers
    <3>4. \A v \in Views : BatchRight(v)'
      BY <3>1, BatchSame DEF HistoryInv, writers
    <3>5. DirectoryRight'
      <4> SUFFICES ASSUME NEW b \in Actors
                   PROVE  IF task'[b].step = "directory"
                          THEN \A p \in Pages : p < task'[b].next /\ Owns(b, p) => disk'[p] = dir'[p]
                          ELSE task'[b].next = 0
        BY <1>10 DEF DirectoryRight
      <4>1. CASE b = a
        BY <1>7, <3>1, <4>1 DEF Idle
      <4>2. CASE b # a
        BY <1>7, <1>11, <3>1, <4>2
      <4> QED BY <4>1, <4>2
    <3>6. \A p \in Pages : Reads2(p)
      BY <1>4, <1>7, <3>1, <3>3, LatestDecodes DEF Reads2
    <3>7. \A p \in Pages : Latest(p)' = Latest(p)
      BY <1>7, <3>1, <3>4, <3>6, Reads2Facts
    <3>8. ASSUME NEW p \in Pages, Owns(a, p)
          PROVE  /\ Pending(p) = {} /\ disk'[p] = dir[p] /\ Latest(p) = Decode(file, dir[p])
                 /\ Readable({Decode(file, dir[p])}, file, dir[p])
      <4>1. Pending(p) = {} /\ Latest(p) = Decode(file, dir[p])
        BY <1>5, <1>7, <3>8, FlushClean, LatestDecodes
      <4>2. disk'[p] = dir[p]
        <5>1. p \in Nat /\ p < last
          BY <1>8, <1>14 DEF Pages
        <5> QED BY <1>9, <3>8, <5>1
      <4>3. ~Settling(p)
        <5> SUFFICES ASSUME NEW b \in Actors, task[b].step = "length", PageOf(b) = p PROVE FALSE
          BY DEF Settling
        <5>1. task[b].slot \in Dirty(b)
          BY <1>1, StoringFacts DEF Storing
        <5>2. Content(b) \in Pending(p)
          BY <5>1, PendingFacts DEF PageOf, Content, Stored
        <5> QED BY <4>1, <5>2
      <4>4. dir[p].at = 0 <=> dir[p].len = 0
        <5>1. PICK own \in [Nat -> Pages] : OwnInv(own)
          BY DEF StoreInv
        <5> QED BY <4>3, <5>1 DEF OwnInv, EntriesComplete
      <4> QED BY <4>1, <4>2, <4>4 DEF Readable, Returns
    <3>9. ASSUME NEW p \in Pages
          PROVE  /\ possible'[p] # {} /\ Pending(p)' \subseteq possible'[p]
                 /\ Readable(possible'[p], file', dir'[p]) /\ Readable(possible'[p], file', disk'[p])
      BY <1>4, <1>12, <3>1, <3>3, <3>8 DEF HistoryInv
    <3>10. DOMAIN possible = Pages /\ DOMAIN possible' = Pages
      BY <3>1 DEF HistoryInv
    <3>11. HistoryInv'
      BY <1>7, <3>1, <3>4, <3>5, <3>9, <3>10 DEF HistoryInv, AllReadable
    <3>12. Table!Sync
      <4>1. Held' = Held
        BY <3>7, HeldSame
      <4>2. \A p \in Pages : possible'[p] \in {possible[p], {Held[p]}}
        BY <3>1, <3>8, HeldFacts
      <4> QED BY <3>1, <3>10, <4>1, <4>2 DEF Table!Sync, Table!Pages
    <3> QED BY <3>10, <3>11, <3>12 DEF StepRight, Table!Next, Table!Pages
  <2> QED BY <2>2, <2>3
<1> QED BY <1>8, <1>13, <1>14

--------------------
(* What blocks written one after the other hold.                           *)
LEMMA ConcatFacts ==
  ASSUME NEW R, NEW s \in Seq(R), NEW t \in Seq(R)
  PROVE  /\ s \o t \in Seq(R) /\ Len(s \o t) = Len(s) + Len(t) /\ Len(s) \in Nat /\ Len(t) \in Nat
         /\ \A k \in 1 .. Len(s) : (s \o t)[k] = s[k]
         /\ \A k \in 1 .. Len(t) : (s \o t)[Len(s) + k] = t[k]
OBVIOUS

Chained(n, C, B) == \A j \in 1 .. n : C[j] = C[j - 1] \o B[j]

LEMMA Joined ==
  ASSUME NEW n \in Nat, NEW C \in [0 .. n -> Seq(Cell)], NEW B \in [1 .. n -> Seq(Cell)],
         Chained(n, C, B), NEW i \in 1 .. n
  PROVE  /\ Len(C[i - 1]) + Len(B[i]) <= Len(C[n])
         /\ \A k \in 1 .. Len(B[i]) : C[n][Len(C[i - 1]) + k] = B[i][k]
<1>1. PICK x \in Seq(Cell), y \in Seq(Cell) : x = C[i - 1] /\ y = B[i] /\ C[i] = x \o y
  BY i - 1 \in 0 .. n DEF Chained
<1>2. PICK l \in Nat, m \in Nat : l = Len(x) /\ m = Len(y)
  OBVIOUS
<1> DEFINE Right(s) == l + m <= Len(s) /\ \A k \in 1 .. m : s[l + k] = y[k]
           Wrong == {j \in i .. n : ~Right(C[j])}
<1>3. Right(C[i])
  <2>1. Len(x \o y) = l + m /\ \A k \in 1 .. m : (x \o y)[l + k] = y[k]
    BY <1>2, ConcatFacts
  <2>2. Right(x \o y)
    BY <2>1
  <2> QED BY <1>1, <2>2
<1>4. ASSUME NEW j \in 1 .. n, Right(C[j - 1]) PROVE Right(C[j])
  <2>1. PICK s \in Seq(Cell), t \in Seq(Cell) : s = C[j - 1] /\ t = B[j] /\ C[j] = s \o t
    BY j - 1 \in 0 .. n DEF Chained
  <2>2. PICK h \in Nat, g \in Nat : h = Len(s) /\ g = Len(t)
    OBVIOUS
  <2>3. l + m <= h /\ \A k \in 1 .. m : s[l + k] = y[k]
    BY <1>4, <2>1, <2>2
  <2>4. Len(s \o t) = h + g /\ \A k \in 1 .. h : (s \o t)[k] = s[k]
    BY <2>2, ConcatFacts
  <2>5. \A k \in 1 .. m : l + k \in 1 .. h
    BY <2>3
  <2>6. l + m <= h + g
    BY <2>3
  <2>7. \A k \in 1 .. m : (s \o t)[l + k] = y[k]
    BY <2>3, <2>4, <2>5
  <2> QED BY <2>1, <2>4, <2>6, <2>7
<1> HIDE DEF Right
<1>5. Wrong = {}
  <2> SUFFICES ASSUME Wrong # {} PROVE FALSE
    OBVIOUS
  <2>1. PICK k \in Wrong : \A j \in Wrong : k <= j
    <3>1. Wrong \in SUBSET Nat
      OBVIOUS
    <3> HIDE DEF Wrong
    <3> QED BY <3>1, LeastNatural
  <2>2. k \in i .. n /\ ~Right(C[k])
    OBVIOUS
  <2>3. k - 1 \in i .. n /\ k \in 1 .. n /\ ~(k <= k - 1)
    BY <1>3, <2>2
  <2>4. k - 1 \notin Wrong
    <3> HIDE DEF Wrong
    <3> QED BY <2>1, <2>3
  <2>5. Right(C[k - 1])
    BY <2>3, <2>4
  <2> QED BY <1>4, <2>2, <2>3, <2>5
<1>6. Right(C[n])
  <2>1. n \in i .. n
    OBVIOUS
  <2> QED BY <1>5, <2>1
<1> QED BY <1>1, <1>2, <1>6 DEF Right

(* A block that is in the file whole. *)
LEMMA BlockWhole ==
  ASSUME StoreConstants, NEW f \in Seq(Cell), NEW c \in Contents, NEW kept \in Nat, NEW at \in Nat,
         at + Len(Block(c, kept)) <= Len(f),
         \A k \in 1 .. Len(Block(c, kept)) : f[at + k] = Block(c, kept)[k]
  PROVE  Whole(f, at + 1, c)
<1>1. PICK s \in Nat : s = Size[c]
  BY DEF StoreConstants
<1>2. PICK room \in Nat : room = Max({s, kept}) /\ s <= room
  BY MaxPair
<1>3. c # Draw
  BY DEF StoreConstants
<1>4. PICK x \in Seq(Cell) : /\ x = Padded(c, room) /\ Len(x) = room
                             /\ \A k \in 1 .. room : k <= s => x[k] = <<c, k>>
  BY <1>1, PaddedFacts
<1>5. PICK y \in Seq(Cell) : y = << <<c, 0>> >> /\ Len(y) = 1 /\ y[1] = <<c, 0>>
  BY HeaderFacts
<1>6. Block(c, kept) = y \o x
  BY <1>1, <1>2, <1>3, <1>4, <1>5 DEF Block
<1>7. /\ Len(y \o x) = 1 + room /\ (y \o x)[1] = <<c, 0>>
      /\ \A k \in 1 .. room : (y \o x)[1 + k] = x[k]
  BY <1>4, <1>5, ConcatFacts
<1>8. at + (1 + room) <= Len(f) /\ \A k \in 1 .. 1 + room : f[at + k] = (y \o x)[k]
  BY <1>6, <1>7
<1>9. Len(f) \in Nat /\ DOMAIN f = 1 .. Len(f)
  OBVIOUS
<1>10. ASSUME NEW k \in 0 .. s
       PROVE  (at + 1) + k \in DOMAIN f /\ f[(at + 1) + k] = <<c, k>>
  <2>1. k \in Nat /\ k <= room /\ k + 1 \in 1 .. 1 + room /\ (at + 1) + k = at + (k + 1)
    BY <1>2
  <2>2. (at + 1) + k \in 1 .. Len(f)
    BY <1>8, <1>9, <2>1
  <2>3. f[(at + 1) + k] = (y \o x)[k + 1]
    BY <1>8, <2>1
  <2>4. CASE k = 0
    BY <1>7, <1>9, <2>2, <2>3, <2>4
  <2>5. CASE k # 0
    <3>1. k \in 1 .. room /\ k <= s /\ k + 1 = 1 + k
      BY <2>1, <2>5
    <3> QED BY <1>4, <1>7, <1>9, <2>2, <2>3, <3>1
  <2> QED BY <2>4, <2>5
<1> QED BY <1>1, <1>10 DEF Whole

(* A batch that is written leaves every record of it whole. *)
LEMMA BatchWhole ==
  ASSUME StoreConstants, NEW f \in Seq(Cell), NEW at \in Nat \ {0}, NEW b \in Seq(Record),
         NEW j \in 1 .. Len(b)
  PROVE  Whole(Write(f, at, BatchCells(b)), RangeAt(at, b, j), b[j][2])
<1>1. PICK n \in Nat : n = Len(b)
  OBVIOUS
<1> DEFINE C == [i \in 0 .. n |-> BatchCells(SubSeq(b, 1, i))]
           B == [i \in 1 .. n |-> Block(b[i][2], 0)]
<1>2. SubSeq(b, 1, 0) = <<>> /\ SubSeq(b, 1, n) = b
      /\ \A i \in 1 .. n : /\ SubSeq(b, 1, i - 1) \in Seq(Record) /\ b[i] \in Record
                           /\ SubSeq(b, 1, i) = Append(SubSeq(b, 1, i - 1), b[i])
  BY <1>1, SubSeqFacts
<1>3. \A i \in 0 .. n : C[i] \in Seq(Cell)
  <2> SUFFICES ASSUME NEW i \in 0 .. n PROVE BatchCells(SubSeq(b, 1, i)) \in Seq(Cell)
    OBVIOUS
  <2>1. SubSeq(b, 1, i) \in Seq(Record)
    BY <1>1
  <2> QED BY <2>1, RowsType
<1>4. \A i \in 1 .. n : B[i] \in Seq(Cell) /\ C[i] = C[i - 1] \o B[i]
  <2> SUFFICES ASSUME NEW i \in 1 .. n PROVE B[i] \in Seq(Cell) /\ C[i] = C[i - 1] \o B[i]
    OBVIOUS
  <2>1. PICK t \in Seq(Record), e \in Record : t = SubSeq(b, 1, i - 1) /\ e = b[i]
    BY <1>2
  <2>2. BatchCells(Append(t, e)) = BatchCells(t) \o Block(e[2], 0) /\ Block(e[2], 0) \in Seq(Cell)
    BY BatchAppend, RecordBlock
  <2>3. i - 1 \in 0 .. n /\ i \in 0 .. n
    OBVIOUS
  <2> QED BY <1>2, <2>1, <2>2, <2>3
<1>5. PICK cells \in Seq(Cell) : cells = BatchCells(b) /\ cells = C[n]
  <2>1. n \in 0 .. n
    OBVIOUS
  <2>2. C[n] = BatchCells(SubSeq(b, 1, n))
    BY <2>1
  <2> QED BY <1>2, <1>3, <2>1, <2>2
<1>6. PICK e \in Record : e = b[j]
  OBVIOUS
<1>7. PICK block \in Seq(Cell), l \in Nat, m \in Nat :
        block = Block(e[2], 0) /\ block = B[j] /\ m = Len(block) /\ l = Len(C[j - 1])
  <2>1. PICK u \in Seq(Cell) : u = C[j - 1]
    <3>1. j - 1 \in 0 .. n
      BY <1>1
    <3> QED BY <1>3, <3>1
  <2>2. PICK w \in Seq(Cell) : w = Block(e[2], 0) /\ w = B[j]
    <3>1. j \in 1 .. n
      BY <1>1
    <3> QED BY <1>6, <3>1, RecordBlock
  <2>3. PICK l \in Nat, m \in Nat : l = Len(u) /\ m = Len(w)
    OBVIOUS
  <2> QED BY <2>1, <2>2, <2>3
<1>8. RangeAt(at, b, j) = at + l
  <2>1. C[j - 1] = BatchCells(SubSeq(b, 1, j - 1))
    BY <1>1
  <2> QED BY <1>7, <2>1 DEF RangeAt
<1>9. l + m <= Len(cells) /\ \A k \in 1 .. m : cells[l + k] = block[k]
  <2> HIDE DEF C, B
  <2>1. j \in 1 .. n
    BY <1>1
  <2>3. Chained(n, C, B)
    BY <1>3, <1>4 DEF Chained
  <2>4. C \in [0 .. n -> Seq(Cell)] /\ B \in [1 .. n -> Seq(Cell)]
    BY <1>3, <1>4 DEF C, B
  <2>2. /\ Len(C[j - 1]) + Len(B[j]) <= Len(C[n])
        /\ \A k \in 1 .. Len(B[j]) : C[n][Len(C[j - 1]) + k] = B[j][k]
    BY <2>1, <2>3, <2>4, Joined
  <2> QED BY <1>5, <1>7, <2>2
<1>10. PICK g \in Seq(Cell), h \in Nat : /\ g = Write(f, at, cells) /\ h = Len(cells)
                                         /\ Len(g) >= at + h - 1
                                         /\ \A k \in 1 .. h : g[at + k - 1] = cells[k]
  <2>1. PICK g \in Seq(Cell) : g = Write(f, at, cells)
    BY WriteFacts
  <2>2. PICK h \in Nat : h = Len(cells)
    OBVIOUS
  <2>3. Len(Write(f, at, cells)) >= at + Len(cells) - 1
    BY WriteFacts
  <2>4. \A k \in 1 .. Len(cells) : Write(f, at, cells)[at + k - 1] = cells[k]
    BY ONLY f \in Seq(Cell), at \in Nat \ {0}, cells \in Seq(Cell), WriteCells
  <2>5. Len(g) >= at + h - 1 /\ \A k \in 1 .. h : g[at + k - 1] = cells[k]
    BY <2>1, <2>2, <2>3, <2>4
  <2> QED BY <2>1, <2>2, <2>5
<1>11. PICK from \in Nat : from = at + l - 1
  OBVIOUS
<1>12. from + m <= Len(g)
  <2>1. l + m <= h /\ Len(g) \in Nat
    BY <1>9, <1>10
  <2> QED BY <1>10, <1>11, <2>1
<1>13. ASSUME NEW k \in 1 .. m PROVE g[from + k] = block[k]
  <2>1. l + k \in 1 .. h /\ at + (l + k) - 1 = from + k
    BY <1>9, <1>10, <1>11
  <2> QED BY <1>9, <1>10, <2>1
<1>14. e[2] \in Contents
  BY RecordBlock
<1>15. PICK zero \in Nat : zero = 0
  OBVIOUS
<1>16. Whole(g, from + 1, e[2])
  <2>1. Block(e[2], zero) = block /\ m = Len(block)
    BY <1>7, <1>15
  <2>2. from + Len(Block(e[2], zero)) <= Len(g)
    BY <1>12, <2>1
  <2>3. \A k \in 1 .. Len(Block(e[2], zero)) : g[from + k] = Block(e[2], zero)[k]
    BY <1>13, <2>1
  <2> QED BY ONLY StoreConstants, g \in Seq(Cell), from \in Nat, zero \in Nat, <1>14, <2>2, <2>3, BlockWhole
<1>17. from + 1 = at + l
  BY <1>11
<1> QED BY <1>5, <1>6, <1>8, <1>10, <1>16, <1>17

(* A table is read from its blocks as it was. *)
LEMMA TableRead ==
  ASSUME StoreConstants, NEW t \in [Pages -> Values], NEW kept \in Nat
  PROVE  /\ Valid(Directory(t, kept))
         /\ \A p \in Pages : Decode(Blocks(t, kept), Directory(t, kept)[p]) = t[p]
<1>1. Valid(Directory(t, kept))
  BY TableOwned DEF TableEntries, Valid
<1>2. PICK n \in Nat : n = Sides * PerSide /\ Pages = 0 .. n - 1
  <2>1. PerSide \in Nat /\ (Sides = 1 \/ Sides = 2)
    BY DEF StoreConstants
  <2>2. Sides * PerSide \in Nat
    BY <2>1
  <2> QED BY <2>2 DEF Pages
<1> DEFINE C == [i \in 0 .. n |-> Before(t, kept, i)]
           B == [i \in 1 .. n |-> Block(t[i - 1], kept)]
<1>3. \A i \in 0 .. n : C[i] \in Seq(Cell)
  BY <1>2, BeforeFacts
<1>4. \A i \in 1 .. n : B[i] \in Seq(Cell) /\ C[i] = C[i - 1] \o B[i]
  <2> SUFFICES ASSUME NEW i \in 1 .. n PROVE B[i] \in Seq(Cell) /\ C[i] = C[i - 1] \o B[i]
    OBVIOUS
  <2>1. PICK p \in Pages : p = i - 1 /\ p + 1 = i /\ p \in 0 .. n
    BY <1>2
  <2>2. Before(t, kept, p + 1) = Before(t, kept, p) \o Block(t[p], kept) /\ Block(t[p], kept) \in Seq(Cell)
    BY BeforeFacts, BlockFacts
  <2>3. C[i] = Before(t, kept, i) /\ C[i - 1] = Before(t, kept, p) /\ B[i] = Block(t[p], kept)
    BY <2>1
  <2> QED BY <2>1, <2>2, <2>3
<1>5. PICK f \in Seq(Cell) : f = Blocks(t, kept) /\ f = C[n]
  BY <1>2, <1>3 DEF Blocks
<1>6. ASSUME NEW p \in Pages PROVE Decode(f, Directory(t, kept)[p]) = t[p]
  <2>1. PICK e \in Entry : e = Directory(t, kept)[p]
    BY TableOwned
  <2>2. CASE t[p] = Draw
    <3>1. e.at = 0
      BY <2>1, <2>2 DEF Directory, NoBlock
    <3> QED BY <2>1, <2>2, <3>1 DEF Decode
  <2>3. CASE t[p] # Draw
    <3>1. PICK c \in Contents : c = t[p]
      BY <2>3 DEF Values
    <3>2. PICK l \in Nat : l = Len(C[p]) /\ l = Len(Before(t, kept, p))
      <4>1. p \in 0 .. n
        BY <1>2
      <4>2. PICK u \in Seq(Cell) : u = C[p] /\ u = Before(t, kept, p)
        BY <1>3, <4>1
      <4>3. PICK l \in Nat : l = Len(u)
        OBVIOUS
      <4> QED BY <4>2, <4>3
    <3>3. e.at = l + 1 /\ e.len = Size[c]
      BY <2>1, <2>3, <3>1, <3>2 DEF Directory
    <3>4. PICK i \in 1 .. n : i - 1 = p /\ i = p + 1
      BY <1>2
    <3>5. B[i] = Block(c, kept)
      BY <3>1, <3>4
    <3>6. l + Len(Block(c, kept)) <= Len(f) /\ \A k \in 1 .. Len(Block(c, kept)) : f[l + k] = Block(c, kept)[k]
      <4> HIDE DEF C, B
      <4>2. Chained(n, C, B)
        BY <1>3, <1>4 DEF Chained
      <4>3. C \in [0 .. n -> Seq(Cell)] /\ B \in [1 .. n -> Seq(Cell)]
        BY <1>3, <1>4 DEF C, B
      <4>1. /\ Len(C[i - 1]) + Len(B[i]) <= Len(C[n])
            /\ \A k \in 1 .. Len(B[i]) : C[n][Len(C[i - 1]) + k] = B[i][k]
        BY <4>2, <4>3, Joined
      <4> QED BY <1>5, <3>2, <3>4, <3>5, <4>1
    <3>7. Whole(f, l + 1, c)
      BY <3>6, BlockWhole
    <3>8. l + 1 # 0
      OBVIOUS
    <3> QED BY <2>1, <3>1, <3>3, <3>7, <3>8, DecodeWhole
  <2> QED BY <2>2, <2>3
<1> QED BY <1>1, <1>5, <1>6

--------------------
(* Opening and closing the file, and compacting it.                        *)
LEMMA ClosedFacts ==
  ASSUME StoreConstants, StoreInv, mode = "closed"
  PROVE  /\ \A p \in Pages : Pending(p) = {}
         /\ \A a \in Actors : task[a] = Idle /\ Dirty(a) = {}
         /\ \A v \in Views : batch[v] = <<>>
<1>1. NoViews /\ \A a \in Actors : task[a] = Idle /\ cache[a] = NoSlots(a)
  BY DEF StoreInv, ActorsInv, ClosedRight
<1>2. \A a \in Actors : Dirty(a) = {}
  BY <1>1, EmptySlots
<1>3. \A v \in Views : batch[v] = <<>>
  BY <1>1 DEF StoreInv, ActorsInv, ViewRight, NoViews
<1>4. \A p \in Pages : Pending(p) = {}
  BY <1>2, <1>3 DEF Pending, Held0, Batched
<1> QED BY <1>1, <1>2, <1>3, <1>4

LEMMA OpenStep ==
  ASSUME StoreConstants, StoreInv, HistoryInv, StoreInv', NEW kind \in {"read", "write"}, Open(kind)
  PROVE  StepRight
<1>1. /\ mode = "closed" /\ Valid(disk) /\ mode' = kind /\ mode' # "closed" /\ dir' = disk
      /\ UNCHANGED <<file, disk, cache, task, batch, nextPlane, history>>
  BY DEF Open, stored, writers
<1>2. \A p \in Pages : Pending(p)' = {}
  BY <1>1, ClosedFacts, PendingSame
<1>3. \A v \in Views : BatchRight(v)'
  BY <1>1, BatchSame DEF HistoryInv
<1>4. \A p \in Pages : Latest(p)' = Decode(file, disk[p])
  BY <1>1, <1>2, <1>3, LatestNext
<1>5. \A p \in Pages : Durable(file, disk, p) = Decode(file, disk[p])
  BY <1>1 DEF Durable
<1>6. \A p \in Pages : Latest(p) = Decode(file, disk[p])
  BY <1>1, <1>5, ClosedLatest
<1>7. Held' = Held
  BY <1>4, <1>6, HeldSame
<1>8. ASSUME NEW p \in Pages PROVE Readable(possible[p], file, disk[p])
  <2>1. possible[p] = {Decode(file, disk[p])}
    BY <1>1, <1>5 DEF HistoryInv
  <2> QED BY <1>1, <2>1 DEF Readable, Returns, Valid
<1>9. DirectoryRight'
  <2>1. \A a \in Actors : task'[a] = Idle
    BY <1>1, ClosedFacts
  <2> QED BY <2>1 DEF DirectoryRight, Idle
<1>10. HistoryInv'
  <2>1. possible' = possible /\ DOMAIN possible = Pages /\ \A p \in Pages : possible[p] # {}
    BY <1>1 DEF HistoryInv, history
  <2>2. AllReadable'
    BY <1>1, <1>8, <2>1 DEF AllReadable
  <2> QED BY <1>1, <1>2, <1>3, <1>9, <2>1, <2>2 DEF HistoryInv
<1> QED BY <1>1, <1>7, <1>10 DEF StepRight, history

LEMMA CloseStep ==
  ASSUME StoreConstants, StoreInv, HistoryInv, StoreInv', Close
  PROVE  StepRight
<1>1. Main \in Actors /\ mode # "closed" /\ task[Main] = Idle /\ disk \in [Pages -> Entry]
  BY DEF Close, Actors, StoreInv, StoreTypeOK
<1>2. CASE /\ refs = 2 /\ refs' = 1
           /\ UNCHANGED <<stored, mode, dir, cap, cache, view, task, mutex, writers, history>>
  <2>1. UNCHANGED <<file, disk, dir, mode, cache, task, batch, nextPlane, history>>
    BY <1>2 DEF stored, writers
  <2> QED BY <1>1, <2>1, TaskStep
<1>3. CASE refs = 1 /\ NoViews /\ Dropped(file, disk) /\ UNCHANGED <<stored, cap>>
  <2>1. disk' = disk /\ file' = file
    BY <1>3 DEF stored
  <2>2. Dropped(file, disk')
    BY <1>3, <2>1
  <2> QED BY <1>1, <2>1, <2>2, DroppedStep
<1>4. CASE /\ mode = "write" /\ NoViews
           /\ Flushing(Main, "close", Main, 0)
           /\ UNCHANGED <<stored, mode, refs, dir, cap, cache, view, mutex, writers, history>>
  BY <1>1, <1>4, FlushingStep
<1> QED BY <1>2, <1>3, <1>4 DEF Close

(* The new file reads as the old one did. *)
LEMMA CompactStep ==
  ASSUME StoreConstants, StoreInv, HistoryInv, StoreInv', Compact
  PROVE  StepRight
<1>1. PICK t : /\ t = [p \in Pages |-> Decode(file, disk[p])] /\ mode = "closed" /\ Valid(disk)
               /\ \A p \in Pages : t[p] # Err
               /\ file' = Blocks(t, 0) /\ disk' = Directory(t, 0)
               /\ changes' = changes + 1
               /\ UNCHANGED <<mode, cache, task, batch, nextPlane, possible, gaveUp>>
  BY DEF Compact, writers
<1>2. t \in [Pages -> Values]
  <2>1. \A p \in Pages : t[p] \in Values
    BY <1>1, DecodeType
  <2> QED BY <1>1, <2>1
<1>3. Valid(disk') /\ \A p \in Pages : Decode(file', disk'[p]) = t[p]
  <2>1. PICK zero \in Nat : zero = 0
    OBVIOUS
  <2>2. /\ Valid(Directory(t, zero))
        /\ \A p \in Pages : Decode(Blocks(t, zero), Directory(t, zero)[p]) = t[p]
    BY <1>2, TableRead
  <2> QED BY <1>1, <2>1, <2>2
<1>4. \A p \in Pages : Durable(file', disk', p) = t[p] /\ Durable(file, disk, p) = t[p]
  BY <1>1, <1>3 DEF Durable
<1>5. mode' = "closed"
  BY <1>1
<1>6. Held' = Held
  <2>1. \A p \in Pages : Latest(p)' = t[p]
    BY <1>4, <1>5, ClosedLatestNext
  <2>2. \A p \in Pages : Latest(p) = t[p]
    BY <1>1, <1>4, ClosedLatest
  <2> QED BY <2>1, <2>2, HeldSame
<1>7. HistoryInv'
  <2>1. \A p \in Pages : possible[p] = {Durable(file', disk', p)}
    BY <1>1, <1>4 DEF HistoryInv
  <2>2. DirectoryRight'
    <3>1. \A a \in Actors : task'[a] = Idle
      BY <1>1, ClosedFacts
    <3> QED BY <3>1 DEF DirectoryRight, Idle
  <2>3. \A v \in Views : BatchRight(v)'
    BY <1>1, BatchSame DEF HistoryInv
  <2>4. \A p \in Pages : Pending(p)' = {}
    BY <1>1, ClosedFacts, PendingSame
  <2>5. DOMAIN possible = Pages
    BY DEF HistoryInv
  <2> QED BY <1>1, <1>5, <2>1, <2>2, <2>3, <2>4, <2>5 DEF HistoryInv
<1> QED BY <1>1, <1>6, <1>7, AskedStep

--------------------
(* The planes of a writer.                                                 *)
LEMMA PlaneParts ==
  ASSUME StoreConstants, NEW v \in Views, NEW k \in Nat, k < Planes(v)
  PROVE  \E x \in Nat, r \in Nat :
           /\ x < PerSide /\ x >= First[v] /\ r < Sides
           /\ k = (x - First[v]) * Sides + r /\ PlaneOf(v, k) = x + r * PerSide
<1>1. /\ First[v] \in Nat /\ First[v] < End[v] /\ End[v] <= PerSide /\ End[v] \in Nat
      /\ PerSide \in Nat \ {0} /\ (Sides = 1 \/ Sides = 2)
  BY DEF StoreConstants
<1>2. PICK q \in Nat, r \in Nat : /\ q = k \div Sides /\ r = k % Sides /\ r < Sides /\ k = q * Sides + r
  <2>1. Sides \in Nat \ {0}
    BY <1>1
  <2>2. k \div Sides \in Nat /\ k % Sides \in 0 .. Sides - 1
    BY <2>1, DivFacts
  <2>3. k = (k \div Sides) * Sides + (k % Sides)
    BY <2>1, DivFacts
  <2>4. k % Sides \in Nat /\ k % Sides < Sides
    BY <2>1, <2>2
  <2> QED BY <2>2, <2>3, <2>4
<1>3. q < End[v] - First[v]
  <2>1. k < Sides * (End[v] - First[v])
    BY DEF Planes
  <2>2. CASE Sides = 1
    BY <1>1, <1>2, <2>1, <2>2
  <2>3. CASE Sides = 2
    BY <1>1, <1>2, <2>1, <2>3
  <2> QED BY <1>1, <2>2, <2>3
<1>4. PICK x \in Nat : x = First[v] + q /\ x < PerSide /\ x >= First[v] /\ x - First[v] = q
  BY <1>1, <1>3
<1>5. PlaneOf(v, k) = x + r * PerSide
  BY <1>2, <1>4 DEF PlaneOf
<1> QED BY <1>2, <1>4, <1>5

LEMMA PlaneOnce ==
  ASSUME StoreConstants, NEW v \in Views, NEW k \in Nat, k < Planes(v), NEW n \in Nat, n < Planes(v),
         PlaneOf(v, k) = PlaneOf(v, n)
  PROVE  k = n
<1>1. PICK x \in Nat, r \in Nat :
           /\ x < PerSide /\ x >= First[v] /\ r < Sides
           /\ k = (x - First[v]) * Sides + r /\ PlaneOf(v, k) = x + r * PerSide
  BY PlaneParts
<1>2. PICK y \in Nat, s \in Nat :
           /\ y < PerSide /\ y >= First[v] /\ s < Sides
           /\ n = (y - First[v]) * Sides + s /\ PlaneOf(v, n) = y + s * PerSide
  BY PlaneParts
<1>3. PerSide \in Nat /\ (Sides = 1 \/ Sides = 2) /\ First[v] \in Nat
  BY DEF StoreConstants
<1>4. r \in {0, 1} /\ s \in {0, 1}
  BY <1>1, <1>2, <1>3
<1>5. /\ r = 0 => r * PerSide = 0
      /\ r = 1 => r * PerSide = PerSide
      /\ s = 0 => s * PerSide = 0
      /\ s = 1 => s * PerSide = PerSide
  BY <1>3
<1>6. x + r * PerSide = y + s * PerSide
  BY <1>1, <1>2
<1>7. PICK w \in Nat : w = PerSide /\ x < w /\ y < w
  BY <1>1, <1>2, <1>3
<1>8. r = s /\ x = y
  <2>1. CASE r = 0 /\ s = 0
    BY <1>5, <1>6, <2>1
  <2>2. CASE r = 0 /\ s = 1
    <3>1. x = y + w
      BY <1>5, <1>6, <1>7, <2>2
    <3> QED BY ONLY <1>7, <3>1, x \in Nat, y \in Nat, w \in Nat
  <2>3. CASE r = 1 /\ s = 0
    <3>1. x + w = y
      BY <1>5, <1>6, <1>7, <2>3
    <3> QED BY ONLY <1>7, <3>1, x \in Nat, y \in Nat, w \in Nat
  <2>4. CASE r = 1 /\ s = 1
    <3>1. x + w = y + w
      BY <1>5, <1>6, <1>7, <2>4
    <3> QED BY ONLY <2>4, <3>1, x \in Nat, y \in Nat, w \in Nat
  <2> QED BY <1>4, <2>1, <2>2, <2>3, <2>4
<1> QED BY ONLY <1>1, <1>2, <1>8

(* What a record put into a batch adds. *)
Added(v, q, c) ==
  /\ DOMAIN batch'[v] = DOMAIN batch[v] \cup {Len(batch[v]) + 1}
  /\ \A i \in DOMAIN batch[v] : batch'[v][i] = batch[v][i]
  /\ batch'[v][Len(batch[v]) + 1] = <<q, c>>
  /\ \A o \in Views \ {v} : batch'[o] = batch[o]
  /\ \A p : Pending(p)' = Pending(p) \cup (IF p = q THEN {c} ELSE {})

LEMMA BatchAdds ==
  ASSUME StoreTypeOK, NEW v \in Views, NEW q \in Pages, NEW c \in Contents, cache' = cache,
         batch' = [batch EXCEPT ![v] = Append(@, <<q, c>>)]
  PROVE  Added(v, q, c)
<1>1. PICK b \in Seq(Pages \X Contents), n \in Nat : b = batch[v] /\ n = Len(b)
  <2>1. PICK b \in Seq(Pages \X Contents) : b = batch[v]
    BY DEF StoreTypeOK
  <2> QED BY <2>1
<1>2. PICK e : e = <<q, c>>
  OBVIOUS
<1>3. e \in Pages \X Contents /\ e[1] = q /\ e[2] = c
  BY <1>2
<1>4. /\ Append(b, e) \in Seq(Pages \X Contents) /\ DOMAIN Append(b, e) = 1 .. n + 1
      /\ \A i \in 1 .. n : Append(b, e)[i] = b[i]
      /\ Append(b, e)[n + 1] = e /\ DOMAIN b = 1 .. n
  BY <1>1, <1>3, LongerSeq
<1>5. batch'[v] = Append(b, e) /\ \A o \in Views \ {v} : batch'[o] = batch[o]
  BY <1>1, <1>2 DEF StoreTypeOK
<1>6. 1 .. n + 1 = (1 .. n) \cup {n + 1} /\ \A i \in 1 .. n : i # n + 1
  OBVIOUS
<1>7. /\ DOMAIN batch'[v] = DOMAIN batch[v] \cup {n + 1}
      /\ \A i \in DOMAIN batch[v] : batch'[v][i] = batch[v][i]
      /\ batch'[v][n + 1] = e
  BY <1>1, <1>4, <1>5, <1>6
<1>8. ASSUME NEW p, NEW d
      PROVE  /\ Held0(p, d)' <=> Held0(p, d)
             /\ Batched(p, d)' <=> Batched(p, d) \/ (p = q /\ d = c)
  <2>1. Held0(p, d)' <=> Held0(p, d)
    BY DEF Held0, Dirty, Slots
  <2>2. ASSUME NEW o \in Views, NEW i \in DOMAIN batch'[o], batch'[o][i][1] = p, batch'[o][i][2] = d
        PROVE  Batched(p, d) \/ (p = q /\ d = c)
    <3>1. CASE o # v
      BY <1>5, <2>2, <3>1 DEF Batched
    <3>2. CASE o = v /\ i = n + 1
      BY <1>7, <1>3, <2>2, <3>2
    <3>3. CASE o = v /\ i # n + 1
      BY <1>7, <2>2, <3>3 DEF Batched
    <3> QED BY <3>1, <3>2, <3>3
  <2>3. ASSUME NEW o \in Views, NEW i \in DOMAIN batch[o], batch[o][i][1] = p, batch[o][i][2] = d
        PROVE  Batched(p, d)'
    <3>1. i \in DOMAIN batch'[o] /\ batch'[o][i] = batch[o][i]
      BY <1>5, <1>7
    <3> QED BY <2>3, <3>1 DEF Batched
  <2>4. p = q /\ d = c => Batched(p, d)'
    <3>1. n + 1 \in DOMAIN batch'[v]
      BY <1>7
    <3> QED BY <1>7, <1>3, <3>1 DEF Batched
  <2>5. Batched(p, d)' => Batched(p, d) \/ (p = q /\ d = c)
    BY <2>2 DEF Batched
  <2>6. Batched(p, d) => Batched(p, d)'
    BY <2>3 DEF Batched
  <2> QED BY <2>1, <2>4, <2>5, <2>6
<1>9. c \in Values
  BY DEF Values
<1>10. \A p : Pending(p)' = Pending(p) \cup (IF p = q THEN {c} ELSE {})
  BY <1>8, <1>9 DEF Pending
<1> QED BY <1>1, <1>2, <1>5, <1>7, <1>10 DEF Added

LEMMA PutPlaneStep ==
  ASSUME StoreConstants, StoreInv, HistoryInv, StoreInv', NEW v \in Views, NEW c \in Values,
         PutPlane(v, c)
  PROVE  StepRight
<1>1. StoreTypeOK /\ v \in Actors /\ nextPlane \in [Views -> Nat]
  BY DEF StoreInv, StoreTypeOK, Actors
<1>2. /\ view[v] = "writer" /\ task[v] = Idle /\ nextPlane[v] < Planes(v)
      /\ nextPlane' = [nextPlane EXCEPT ![v] = @ + 1]
      /\ UNCHANGED <<file, disk, mode, dir, cache, task>>
      /\ IF c = Draw THEN UNCHANGED <<batch, history>>
         ELSE /\ batch' = [batch EXCEPT ![v] = Append(@, <<NextPage(v), c>>)]
              /\ Noted(NextPage(v), c)
  BY DEF PutPlane, stored
<1>3. mode # "closed" /\ mode' # "closed"
  <2>1. mode = "write"
    BY <1>2, WriterFacts, WritingFacts
  <2> QED BY <1>2, <2>1
<1>4. PICK n \in Nat : n = nextPlane[v] /\ n < Planes(v) /\ nextPlane'[v] = n + 1
  BY <1>1, <1>2
<1>5. \A o \in Views \ {v} : nextPlane'[o] = nextPlane[o]
  BY <1>1, <1>2
<1>6. DirectoryRight'
  BY <1>1, <1>2, DirectoryKept DEF HistoryInv
<1>7. \A k \in 0 .. n - 1 : k \in 0 .. (n + 1) - 1
  BY ONLY n \in Nat
<1>8. BatchRight(v) /\ \A o \in Views : BatchRight(o)
  BY DEF HistoryInv
<1>9. CASE c = Draw
  <2>1. UNCHANGED <<batch, history>>
    BY <1>2, <1>9
  <2>2. ASSUME NEW o \in Views PROVE BatchRight(o)'
    <3>1. CASE o # v
      BY <1>5, <1>8, <2>1, <3>1 DEF BatchRight, PlaneOf
    <3>2. CASE o = v
      BY <1>4, <1>7, <1>8, <2>1, <3>2 DEF BatchRight, PlaneOf
    <3> QED BY <3>1, <3>2
  <2>3. \A p \in Pages : Pending(p)' = Pending(p)
    BY <1>2, <2>1, PendingSame
  <2> QED BY <1>2, <1>3, <1>6, <2>1, <2>2, <2>3, SameTable
<1>10. CASE c # Draw
  <2>1. PICK q \in Pages : q = NextPage(v) /\ q = PlaneOf(v, n)
    <3>1. NextPage(v) \in Pages
      BY <1>4, NextPageFacts
    <3> QED BY <1>4, <3>1 DEF NextPage, PlaneOf
  <2>2. c \in Contents /\ batch' = [batch EXCEPT ![v] = Append(@, <<q, c>>)] /\ Noted(q, c)
    BY <1>2, <1>10, <2>1 DEF Values
  <2>3. PICK m : m = Len(batch[v]) + 1
    OBVIOUS
  <2>4. /\ DOMAIN batch'[v] = DOMAIN batch[v] \cup {m}
        /\ \A i \in DOMAIN batch[v] : batch'[v][i] = batch[v][i]
        /\ batch'[v][m] = <<q, c>>
        /\ \A o \in Views \ {v} : batch'[o] = batch[o]
        /\ \A p : Pending(p)' = Pending(p) \cup (IF p = q THEN {c} ELSE {})
    <3>1. PICK d \in Contents : d = c
      BY <2>2
    <3>2. cache' = cache /\ batch' = [batch EXCEPT ![v] = Append(@, <<q, d>>)]
      BY <1>2, <2>2, <3>1
    <3>3. Added(v, q, d)
      BY <1>1, <3>2, BatchAdds
    <3> QED BY <2>3, <3>1, <3>3 DEF Added
  <2>5. BatchRight(v)'
    <3>1. ASSUME NEW i \in DOMAIN batch[v] PROVE batch[v][i][1] # q
      <4>1. PICK k \in 0 .. n - 1 : batch[v][i][1] = PlaneOf(v, k)
        BY <1>4, <1>8 DEF BatchRight
      <4>2. k \in Nat /\ k < n /\ k # n /\ Planes(v) \in Nat
        BY PlanesType
      <4>3. k < Planes(v)
        BY ONLY <4>2, <1>4
      <4> QED BY <1>4, <2>1, <4>1, <4>2, <4>3, PlaneOnce
    <3>2. \A i \in DOMAIN batch'[v] : \E k \in 0 .. (n + 1) - 1 : batch'[v][i][1] = PlaneOf(v, k)
      <4> SUFFICES ASSUME NEW i \in DOMAIN batch'[v]
                   PROVE  \E k \in 0 .. (n + 1) - 1 : batch'[v][i][1] = PlaneOf(v, k)
        OBVIOUS
      <4>1. CASE i \in DOMAIN batch[v]
        <5>1. PICK k \in 0 .. n - 1 : batch[v][i][1] = PlaneOf(v, k)
          BY <1>4, <1>8, <4>1 DEF BatchRight
        <5> QED BY <1>7, <2>4, <4>1, <5>1
      <4>2. CASE i = m
        <5>1. batch'[v][i][1] = PlaneOf(v, n)
          BY <2>1, <2>4, <4>2
        <5>2. n \in 0 .. (n + 1) - 1
          OBVIOUS
        <5> QED BY <5>1, <5>2
      <4> QED BY <2>4, <4>1, <4>2
    <3>3. \A i, j \in DOMAIN batch'[v] : batch'[v][i][1] = batch'[v][j][1] => i = j
      <4> SUFFICES ASSUME NEW i \in DOMAIN batch'[v], NEW j \in DOMAIN batch'[v],
                          batch'[v][i][1] = batch'[v][j][1]
                   PROVE  i = j
        OBVIOUS
      <4>1. batch'[v][m][1] = q
        BY <2>4
      <4>2. CASE i \in DOMAIN batch[v] /\ j \in DOMAIN batch[v]
        BY <1>8, <2>4, <4>2 DEF BatchRight
      <4>3. CASE i = m /\ j \in DOMAIN batch[v]
        BY <2>4, <3>1, <4>1, <4>3
      <4>4. CASE i \in DOMAIN batch[v] /\ j = m
        BY <2>4, <3>1, <4>1, <4>4
      <4>5. CASE i = m /\ j = m
        BY <4>5
      <4> QED BY <2>4, <4>2, <4>3, <4>4, <4>5
    <3> QED BY <1>4, <3>2, <3>3 DEF BatchRight, PlaneOf
  <2>6. ASSUME NEW o \in Views PROVE BatchRight(o)'
    <3>1. CASE o # v
      BY <1>5, <1>8, <2>4, <3>1 DEF BatchRight, PlaneOf
    <3> QED BY <2>5, <3>1
  <2>7. ASSUME NEW p \in Pages PROVE Entries2(p)
    BY <1>2, <1>3 DEF Entries2, HistoryInv, AllReadable
  <2>8. ASSUME NEW p \in Pages \ {q} PROVE Reads2(p)
    <3>1. Pending(p)' = Pending(p)
      BY <2>4
    <3> QED BY <1>2, <1>3, <3>1, LatestDecodes DEF Reads2
  <2>9. c \in Pending(q)' /\ Pending(q)' \subseteq Pending(q) \cup {c}
    BY <2>4
  <2> QED BY <1>3, <1>6, <2>2, <2>6, <2>7, <2>8, <2>9, PutRight
<1> QED BY <1>9, <1>10

--------------------
(* The extents of the page writers meet neither a block that a directory   *)
(* leads to nor each other, so a batch is written over nothing.            *)
Clear(e, at, end) == e.at = 0 \/ e.at + Reach(e) < at \/ end < e.at
ExtentsApart == \A v \in Views : task[v].step = "extent" =>
  /\ \A p \in Pages : Clear(dir[p], task[v].at, BatchEnd(v)) /\ Clear(disk[p], task[v].at, BatchEnd(v))
  /\ \A o \in Views \ {v} : task[o].step = "extent" =>
       BatchEnd(o) < task[v].at \/ BatchEnd(v) < task[o].at

LEMMA NoExtent ==
  ASSUME \A v \in Views : task'[v].step # "extent"
  PROVE  ExtentsApart'
BY DEF ExtentsApart

LEMMA ApartKept ==
  ASSUME ExtentsApart, exact' = exact,
         \A v \in Views : task'[v].step = "extent" => task'[v] = task[v] /\ batch'[v] = batch[v],
         \A p \in Pages : /\ dir'[p] = dir[p] \/ dir'[p] = disk[p]
                          /\ disk'[p] = dir[p] \/ disk'[p] = disk[p]
  PROVE  ExtentsApart'
<1>1. \A e : Reach(e)' = Reach(e)
  BY DEF Reach, Kept
<1>2. \A v \in Views : task'[v].step = "extent" => task'[v].at = task[v].at /\ BatchEnd(v)' = BatchEnd(v)
  BY DEF BatchEnd
<1>3. ASSUME NEW v \in Views, task'[v].step = "extent", NEW p \in Pages
      PROVE  Clear(dir[p], task[v].at, BatchEnd(v))' /\ Clear(disk[p], task[v].at, BatchEnd(v))'
  <2>1. task[v].step = "extent"
    BY <1>3
  <2>2. Clear(dir[p], task[v].at, BatchEnd(v)) /\ Clear(disk[p], task[v].at, BatchEnd(v))
    BY <2>1 DEF ExtentsApart
  <2>3. /\ Clear(dir'[p], task[v].at, BatchEnd(v)) /\ Clear(disk'[p], task[v].at, BatchEnd(v))
    BY <2>2
  <2> QED BY <1>1, <1>2, <1>3, <2>3 DEF Clear
<1>4. ASSUME NEW v \in Views, NEW o \in Views \ {v}, task'[v].step = "extent", task'[o].step = "extent"
      PROVE  BatchEnd(o)' < task'[v].at \/ BatchEnd(v)' < task'[o].at
  <2>1. task[v].step = "extent" /\ task[o].step = "extent"
    BY <1>4
  <2>2. BatchEnd(o) < task[v].at \/ BatchEnd(v) < task[o].at
    BY <2>1 DEF ExtentsApart
  <2> QED BY <1>2, <1>4, <2>2
<1> QED BY <1>3, <1>4 DEF ExtentsApart

(* Whatever happens outside a compilation leaves no extent. *)
LEMMA NoneOpen ==
  ASSUME StoreConstants, StoreInv, ~Writing,
         \A v \in Views : task'[v] = task[v] \/ task'[v].step # "extent"
  PROVE  ExtentsApart'
<1>1. \A v \in Views : task[v].step # "extent"
  BY ExtentOpen, WriterFacts
<1> QED BY <1>1, NoExtent

LEMMA StoringClear ==
  ASSUME StoreConstants, StoreInv, NEW a \in Actors, Storing(a),
         \A v \in Views : task'[v] = task[v] \/ task'[v].step # "extent"
  PROVE  ExtentsApart'
<1>1. ~Writing
  BY WritingFacts
<1> QED BY <1>1, NoneOpen

(* The steps of the store. *)
LEMMA StoreApart ==
  ASSUME StoreConstants, StoreInv, NEW a \in Actors, Store(a)
  PROVE  ExtentsApart'
<1>1. task \in [Actors -> Task] /\ \A v \in Views : v \in Actors
  BY DEF StoreInv, StoreTypeOK, Actors
<1>2. Storing(a)
  BY DEF Store, StoreDraw, StoreInPlace, StoreAppend, StorePayload, StoreLength, StoreFails, Storing
<1>3. task[a].step # "extent" /\ Idle.step = "none"
  BY <1>2 DEF Storing, Idle
<1>4. \A v \in Views : task'[v] = task[v] \/ task'[v].step # "extent"
  <2>1. CASE StoreDraw(a)
    <3>1. task' = [task EXCEPT ![a].step = "length"]
      BY <2>1 DEF StoreDraw, Advance
    <3> QED BY <1>1, <3>1 DEF Task
  <2>2. CASE StoreInPlace(a)
    <3>1. PICK at : task' = [task EXCEPT ![a].step = "payload", ![a].at = at, ![a].appended = FALSE]
      BY <2>2 DEF StoreInPlace
    <3> QED BY <1>1, <3>1 DEF Task
  <2>3. CASE StoreAppend(a)
    <3>1. PICK at : task' = [task EXCEPT ![a].step = "payload", ![a].at = at, ![a].appended = TRUE]
      BY <2>3 DEF StoreAppend
    <3> QED BY <1>1, <3>1 DEF Task
  <2>4. CASE StorePayload(a)
    <3>1. task' = [task EXCEPT ![a].step = "length"]
      BY <2>4 DEF StorePayload, Advance
    <3> QED BY <1>1, <3>1 DEF Task
  <2>5. CASE StoreLength(a)
    <3>1. \/ task' = [task EXCEPT ![a] = Idle]
          \/ \E s : task' = [task EXCEPT ![a] = [Idle EXCEPT !.goal = "replaced", !.step = "block", !.slot = s]]
          \/ task' = [task EXCEPT ![a].step = "slots"]
      BY <2>5 DEF StoreLength, Replaced, Advance
    <3>2. CASE task' = [task EXCEPT ![a] = Idle]
      BY <1>1, <1>3, <3>2 DEF Idle
    <3>3. ASSUME NEW s, task' = [task EXCEPT ![a] = [Idle EXCEPT !.goal = "replaced", !.step = "block",
                                                                 !.slot = s]]
          PROVE  \A v \in Views : task'[v].step = "extent" => task'[v] = task[v]
      BY <1>1, <1>3, <3>3 DEF Idle
    <3>4. CASE task' = [task EXCEPT ![a].step = "slots"]
      BY <1>1, <1>3, <3>4 DEF Task
    <3> QED BY <3>1, <3>2, <3>3, <3>4
  <2>6. CASE StoreFails(a)
    <3>1. task' = [task EXCEPT ![a] = Idle] \/ task' = [b \in Actors |-> Idle]
      BY <2>6 DEF StoreFails, Dropped
    <3> QED BY <1>1, <1>3, <3>1
  <2> QED BY <2>1, <2>2, <2>3, <2>4, <2>5, <2>6 DEF Store
<1> QED BY <1>2, <1>4, StoringClear

(* The steps that write no block of their own. *)
LEMMA QuietApart ==
  ASSUME StoreConstants, StoreInv, ExtentsApart, UNCHANGED <<disk, exact, dir, batch>>,
         \A v \in Views : task'[v] = task[v] \/ task'[v].step # "extent"
  PROVE  ExtentsApart'
BY ApartKept

LEMMA AccessApart ==
  ASSUME StoreConstants, StoreInv, ExtentsApart, NEW a \in Actors, NEW p, NEW put, Access(a, p, put)
  PROVE  ExtentsApart'
<1>1. task \in [Actors -> Task] /\ \A v \in Views : v \in Actors
  BY DEF StoreInv, StoreTypeOK, Actors
<1>2. UNCHANGED <<disk, exact, dir, batch>>
  BY DEF Access, stored, writers
<1>3. \/ task' = task
      \/ \E s : task' = [task EXCEPT ![a] = [Idle EXCEPT !.goal = "access", !.step = "block",
                                                         !.slot = s, !.want = p, !.put = put]]
  BY DEF Access, Hit, Evict, Miss
<1>4. \A v \in Views : task'[v] = task[v] \/ task'[v].step # "extent"
  BY <1>1, <1>3 DEF Idle
<1> QED BY <1>2, <1>4, QuietApart

LEMMA FlushSlotApart ==
  ASSUME StoreConstants, StoreInv, ExtentsApart, NEW a \in Actors, FlushSlot(a)
  PROVE  ExtentsApart'
<1>1. task \in [Actors -> Task] /\ \A v \in Views : v \in Actors
  BY DEF StoreInv, StoreTypeOK, Actors
<1>2. UNCHANGED <<disk, exact, dir, batch>>
  BY DEF FlushSlot, stored, writers
<1>3. PICK s : task' = [task EXCEPT ![a].step = "block", ![a].slot = s]
  BY DEF FlushSlot
<1>4. \A v \in Views : task'[v] = task[v] \/ task'[v].step # "extent"
  BY <1>1, <1>3 DEF Task
<1> QED BY <1>2, <1>4, QuietApart

LEMMA DroppedApart ==
  ASSUME NEW f, NEW d, Dropped(f, d)
  PROVE  ExtentsApart'
<1>1. \A v \in Views : task'[v] = Idle
  BY DEF Dropped, Actors
<1> QED BY <1>1, NoExtent DEF Idle

LEMMA WriteDirectoryApart ==
  ASSUME StoreConstants, StoreInv, ExtentsApart, NEW a \in Actors, WriteDirectory(a)
  PROVE  ExtentsApart'
<1>1. task \in [Actors -> Task] /\ disk \in [Pages -> Entry] /\ \A v \in Views : v \in Actors
  BY DEF StoreInv, StoreTypeOK, Actors
<1>2. PICK last : last = Min({task[a].next + Chunk, Sides * PerSide})
  OBVIOUS
<1>3. PICK d : d = [p \in Pages |-> IF p \in task[a].next .. last - 1 THEN dir[p] ELSE disk[p]]
  OBVIOUS
<1>4. /\ disk' = d /\ UNCHANGED <<file, exact>>
      /\ IF last < Sides * PerSide
         THEN /\ task' = [task EXCEPT ![a].step = "directory", ![a].next = last]
              /\ UNCHANGED <<mode, refs, dir, cap, cache, view, writers, history>>
         ELSE Flushed(a, d)
  BY <1>2, <1>3 DEF WriteDirectory
<1>5. \A p \in Pages : disk'[p] = dir[p] \/ disk'[p] = disk[p]
  BY <1>3, <1>4
<1>6. CASE last < Sides * PerSide
  <2>1. dir' = dir /\ batch' = batch /\ task' = [task EXCEPT ![a].step = "directory", ![a].next = last]
    BY <1>4, <1>6 DEF writers
  <2>2. \A v \in Views : task'[v] = task[v] \/ task'[v].step # "extent"
    BY <1>1, <2>1 DEF Task
  <2> QED BY <1>4, <1>5, <2>1, <2>2, ApartKept
<1>7. CASE ~(last < Sides * PerSide)
  <2>1. CASE task[a].goal = "close" /\ a = Main
    <3>1. Dropped(file, d)
      BY <1>4, <1>7, <2>1 DEF Flushed
    <3> QED BY <3>1, DroppedApart
  <2>2. CASE ~(task[a].goal = "close" /\ a = Main)
    <3>1. dir' = dir /\ batch' = batch /\ task' = [task EXCEPT ![a] = Idle]
      BY <1>4, <1>7, <2>2 DEF Flushed, writers
    <3>2. \A v \in Views : task'[v] = task[v] \/ task'[v].step # "extent"
      BY <1>1, <3>1 DEF Idle
    <3> QED BY <1>4, <1>5, <3>1, <3>2, ApartKept
  <2> QED BY <2>1, <2>2
<1> QED BY <1>6, <1>7

LEMMA FlushingApart ==
  ASSUME StoreConstants, StoreInv, ExtentsApart, UNCHANGED <<disk, exact, dir, batch>>,
         task' = task \/ \E a, goal, who, size : Flushing(a, goal, who, size)
  PROVE  ExtentsApart'
<1>1. task \in [Actors -> Task] /\ \A v \in Views : v \in Actors
  BY DEF StoreInv, StoreTypeOK, Actors
<1>2. \A v \in Views : task'[v] = task[v] \/ task'[v].step # "extent"
  BY <1>1 DEF Flushing, Idle
<1> QED BY <1>2, QuietApart

LEMMA HandleApart ==
  ASSUME StoreConstants, StoreInv, ExtentsApart,
         \/ OpenAgain \/ OpenRefused \/ FlushHandle \/ Close \/ Crash \/ UNCHANGED vars
         \/ \E c \in Caps : ResizeCache(c)
         \/ \E kind : Open(kind)
         \/ \E v \in Views : CloseView(v) \/ \E kind : CreateView(v, kind)
  PROVE  ExtentsApart'
<1>1. CASE OpenAgain \/ OpenRefused \/ UNCHANGED vars
  <2>1. UNCHANGED <<disk, exact, dir, batch, task>>
    BY <1>1 DEF OpenAgain, OpenRefused, vars, stored, writers
  <2> QED BY <2>1, FlushingApart
<1>2. CASE FlushHandle
  <2>1. UNCHANGED <<disk, exact, dir, batch>> /\ Flushing(Main, "flush", Main, 0)
    BY <1>2 DEF FlushHandle, stored, writers
  <2> QED BY <2>1, FlushingApart
<1>3. CASE Close
  <2>1. \/ UNCHANGED <<disk, exact, dir, batch, task>>
        \/ Dropped(file, disk)
        \/ UNCHANGED <<disk, exact, dir, batch>> /\ Flushing(Main, "close", Main, 0)
    BY <1>3 DEF Close, stored, writers
  <2> QED BY <2>1, FlushingApart, DroppedApart
<1>4. CASE Crash
  BY <1>4, DroppedApart DEF Crash
<1>5. ASSUME NEW c \in Caps, ResizeCache(c) PROVE ExtentsApart'
  <2>1. UNCHANGED <<disk, exact, dir, batch>> /\ (task' = task \/ Flushing(Main, "resize", Main, c))
    BY <1>5 DEF ResizeCache, stored, writers
  <2> QED BY <2>1, FlushingApart
<1>6. ASSUME NEW kind, Open(kind) PROVE ExtentsApart'
  <2>1. UNCHANGED <<disk, exact, batch, task>> /\ dir' = disk
    BY <1>6 DEF Open, stored, writers
  <2> QED BY <2>1, ApartKept
<1>7. ASSUME NEW v \in Views, CloseView(v) PROVE ExtentsApart'
  <2>1. UNCHANGED <<disk, exact, dir, batch>> /\ (task' = task \/ Flushing(v, "close", v, 0))
    BY <1>7 DEF CloseView, stored, writers
  <2> QED BY <2>1, FlushingApart
<1>8. ASSUME NEW v \in Views, NEW kind, CreateView(v, kind) PROVE ExtentsApart'
  <2>1. UNCHANGED <<disk, exact, dir, batch>> /\ (task' = task \/ Flushing(Main, "create", v, 0))
    BY <1>8 DEF CreateView, stored, writers
  <2> QED BY <2>1, FlushingApart
<1> QED BY <1>1, <1>2, <1>3, <1>4, <1>5, <1>6, <1>7, <1>8

LEMMA ReplaceApart ==
  ASSUME StoreConstants, StoreInv, ExtentsApart, NEW a \in Views, NEW p, NEW put, Replace(a, p, put)
  PROVE  ExtentsApart'
<1>1. task \in [Actors -> Task] /\ \A v \in Views : v \in Actors
  BY DEF StoreInv, StoreTypeOK, Actors
<1>2. UNCHANGED <<disk, exact, dir, batch>>
  BY DEF Replace, stored, writers
<1>3. \E t : t.step = "block" /\ task' = [task EXCEPT ![a] = t]
  <2>1. PICK s : \/ task' = [task EXCEPT ![a] = [Idle EXCEPT !.goal = "replace", !.step = "block",
                                                             !.slot = s, !.want = p, !.put = put]]
                 \/ task' = [task EXCEPT ![a] = [Idle EXCEPT !.goal = "replaced", !.step = "block",
                                                             !.slot = s]]
    BY DEF Replace, Replaced
  <2> QED BY <2>1 DEF Idle
<1>4. \A v \in Views : task'[v] = task[v] \/ task'[v].step # "extent"
  BY <1>1, <1>3
<1> QED BY <1>2, <1>4, QuietApart

(* The steps of a writer that reserve and write nothing, a compilation that   *)
(* begins, and a file that is compacted.                                      *)
LEMMA WriterApart ==
  ASSUME StoreConstants, StoreInv, ExtentsApart, NEW v \in Views,
         CreateWriter(v) \/ (\E c : PutPlane(v, c)) \/ WriterFails(v) \/ CloseWriter(v)
  PROVE  ExtentsApart'
<1>1. task \in [Actors -> Task] /\ batch \in [Views -> Seq(Pages \X Contents)] /\ \A o \in Views : o \in Actors
  BY DEF StoreInv, StoreTypeOK, Actors
<1>2. UNCHANGED <<disk, exact, dir>>
  BY DEF CreateWriter, PutPlane, WriterFails, CloseWriter, WriterGone, stored
<1>3. task'[v] = Idle \/ (task'[v] = task[v] /\ batch'[v] = batch[v])
  <2>1. CASE CreateWriter(v)
    BY <2>1 DEF CreateWriter, writers
  <2>2. ASSUME NEW c, PutPlane(v, c) PROVE task'[v] = Idle
    BY <2>2 DEF PutPlane
  <2>3. CASE WriterFails(v) \/ CloseWriter(v)
    BY <1>1, <2>3 DEF WriterFails, CloseWriter, WriterGone
  <2> QED BY <2>1, <2>2, <2>3
<1>5. Idle.step # "extent"
  BY DEF Idle
<1>4. \A o \in Views \ {v} : task'[o] = task[o] /\ batch'[o] = batch[o]
  <2>1. CASE CreateWriter(v)
    BY <2>1 DEF CreateWriter, writers
  <2>2. ASSUME NEW c, PutPlane(v, c) PROVE \A o \in Views \ {v} : task'[o] = task[o] /\ batch'[o] = batch[o]
    BY <1>1, <2>2 DEF PutPlane
  <2>3. CASE WriterFails(v) \/ CloseWriter(v)
    BY <1>1, <2>3 DEF WriterFails, CloseWriter, WriterGone
  <2> QED BY <2>1, <2>2, <2>3
<1> QED BY <1>2, <1>3, <1>4, <1>5, ApartKept

LEMMA WholeApart ==
  ASSUME StoreConstants, StoreInv, ExtentsApart, Prepare \/ Compact
  PROVE  ExtentsApart'
<1>1. CASE Prepare
  <2>1. ~Writing /\ task' = task
    BY <1>1 DEF Prepare, Writing
  <2> QED BY <2>1, NoneOpen
<1>2. CASE Compact
  <2>1. mode = "closed" /\ task' = task
    BY <1>2 DEF Compact
  <2>2. ~Writing
    BY <2>1 DEF StoreInv, ActorsInv, ClosedRight, Writing
  <2> QED BY <2>1, <2>2, NoneOpen
<1> QED BY <1>1, <1>2

--------------------
(* A batch: its extent is reserved beyond everything, and written over     *)
(* nothing.                                                                *)
LEMMA ReserveApart ==
  ASSUME StoreConstants, StoreInv, ExtentsApart, NEW v \in Views, ReserveExtent(v)
  PROVE  ExtentsApart'
<1>1. StoreTypeOK /\ v \in Actors /\ task \in [Actors -> Task] /\ \A o \in Views : o \in Actors
  BY DEF StoreInv, StoreTypeOK, Actors
<1>2. PICK own \in [Nat -> Pages] : OwnInv(own)
  BY DEF StoreInv
<1>3. /\ view[v] = "writer" /\ UNCHANGED <<file, disk, exact, dir, batch>>
      /\ task' = [task EXCEPT ![v] = [Idle EXCEPT !.goal = "writer", !.step = "extent",
                                                  !.at = compileEnd + 1]]
  BY DEF ReserveExtent, stored
<1>4. Writing
  BY <1>3, WriterFacts
<1>5. PICK from \in Nat, l \in Nat : from = compileEnd /\ l = Len(file) /\ l <= from
  <2>1. PICK f \in Seq(Cell) : f = file
    BY <1>1 DEF StoreTypeOK
  <2>2. Len(f) \in Nat /\ compileEnd \in Nat
    BY <1>1 DEF StoreTypeOK
  <2> QED BY <1>2, <1>4, <2>1, <2>2 DEF OwnInv
<1>6. task'[v].at = from + 1 /\ \A o \in Views \ {v} : task'[o] = task[o]
  BY <1>1, <1>3, <1>5 DEF Idle
<1>7. \A e : Reach(e)' = Reach(e)
  BY <1>3 DEF Reach, Kept
<1>8. ASSUME NEW e \in Entry, NEW p \in Pages, EntryInside(own, p, e)
      PROVE  e.at = 0 \/ e.at + Reach(e) < from + 1
  <2>1. e.at \in Nat /\ Reach(e) \in Nat
    BY ReachFacts
  <2>2. e.at # 0 => e.at + Reach(e) <= l
    BY <1>5, <1>8 DEF EntryInside, Inside
  <2>3. PICK m \in Nat : m = e.at + Reach(e)
    BY <2>1
  <2> QED BY <1>5, <2>2, <2>3
<1>9. ASSUME NEW p \in Pages
      PROVE  /\ dir[p].at = 0 \/ dir[p].at + Reach(dir[p]) < from + 1
             /\ disk[p].at = 0 \/ disk[p].at + Reach(disk[p]) < from + 1
  BY <1>1, <1>2, <1>8 DEF StoreTypeOK, OwnInv, EntriesInside
<1>10. ASSUME NEW o \in Views \ {v}, task'[o].step = "extent"
       PROVE  /\ task[o].step = "extent" /\ BatchEnd(o)' = BatchEnd(o) /\ task'[o].at = task[o].at
              /\ BatchEnd(o) < from + 1
  <2>1. task[o].step = "extent" /\ task'[o] = task[o]
    BY <1>6, <1>10
  <2>2. BatchEnd(o)' = BatchEnd(o)
    BY <1>3, <2>1 DEF BatchEnd
  <2>3. BatchEnd(o) <= from
    BY <1>2, <1>5, <2>1 DEF OwnInv, ExtentsRight, ExtentRight
  <2>4. PICK at \in Nat, n \in Nat : BatchEnd(o) = at + n - 1
    <3>1. task[o].at \in Nat
      BY <1>1 DEF Task
    <3>2. batch[o] \in Seq(Record)
      BY <1>1 DEF StoreTypeOK, Record
    <3>3. PICK cells \in Seq(Cell) : cells = BatchCells(batch[o])
      BY <3>2, RowsType
    <3>4. Len(cells) \in Nat
      OBVIOUS
    <3> QED BY <3>1, <3>3, <3>4 DEF BatchEnd
  <2>5. BatchEnd(o) < from + 1
    BY <2>3, <2>4
  <2> QED BY <2>1, <2>2, <2>5
<1>11. ASSUME NEW o \in Views, task'[o].step = "extent", NEW p \in Pages
       PROVE  Clear(dir[p], task[o].at, BatchEnd(o))' /\ Clear(disk[p], task[o].at, BatchEnd(o))'
  <2>1. CASE o = v
    BY <1>3, <1>6, <1>7, <1>9, <2>1 DEF Clear
  <2>2. CASE o # v
    <3>1. task[o].step = "extent" /\ BatchEnd(o)' = BatchEnd(o) /\ task'[o].at = task[o].at
      BY <1>10, <1>11, <2>2
    <3>2. Clear(dir[p], task[o].at, BatchEnd(o)) /\ Clear(disk[p], task[o].at, BatchEnd(o))
      BY <3>1 DEF ExtentsApart
    <3> QED BY <1>3, <1>7, <3>1, <3>2 DEF Clear
  <2> QED BY <2>1, <2>2
<1>12. ASSUME NEW o \in Views, NEW x \in Views \ {o}, task'[o].step = "extent", task'[x].step = "extent"
       PROVE  BatchEnd(x)' < task'[o].at \/ BatchEnd(o)' < task'[x].at
  <2>1. CASE o = v
    <3>1. BatchEnd(x)' = BatchEnd(x) /\ BatchEnd(x) < from + 1
      BY <1>10, <1>12, <2>1
    <3> QED BY <1>6, <2>1, <3>1
  <2>2. CASE x = v
    <3>1. BatchEnd(o)' = BatchEnd(o) /\ BatchEnd(o) < from + 1
      BY <1>10, <1>12, <2>2
    <3> QED BY <1>6, <2>2, <3>1
  <2>3. CASE o # v /\ x # v
    <3>1. /\ task[o].step = "extent" /\ BatchEnd(o)' = BatchEnd(o) /\ task'[o].at = task[o].at
          /\ task[x].step = "extent" /\ BatchEnd(x)' = BatchEnd(x) /\ task'[x].at = task[x].at
      BY <1>10, <1>12, <2>3
    <3> QED BY <3>1 DEF ExtentsApart
  <2> QED BY <2>1, <2>2, <2>3
<1> QED BY <1>11, <1>12 DEF ExtentsApart

(* What is written of a batch: the entries of its pages, and no other. *)
BatchWritten(v, f, b, at, cells) ==
  /\ f = file /\ b = batch[v] /\ at = task[v].at /\ cells = BatchCells(b)
  /\ file' = Write(f, at, cells) /\ BatchEnd(v) = at + Len(cells) - 1
  /\ UNCHANGED <<disk, exact, mode, cache, nextPlane, history>>
  /\ task'[v] = Idle /\ \A o \in Actors \ {v} : task'[o] = task[o]
  /\ batch'[v] = <<>> /\ \A o \in Views \ {v} : batch'[o] = batch[o]
  /\ Writing /\ task[v].step = "extent" /\ task[Main] = Idle /\ Kept = 0
  /\ \A p \in Pages :
       \/ dir'[p] = dir[p] /\ \A i \in DOMAIN b : b[i][1] # p
       \/ \E j \in 1 .. Len(b) :
            b[j][1] = p /\ dir'[p] = [at |-> RangeAt(at, b, j), len |-> Size[b[j][2]]]

LEMMA WriteBatchFacts ==
  ASSUME StoreConstants, StoreInv, ExtentsApart, NEW v \in Views, WriteBatch(v)
  PROVE  \E f \in Seq(Cell), b \in Seq(Record), at \in Nat \ {0}, cells \in Seq(Cell) :
           BatchWritten(v, f, b, at, cells)
<1>1. StoreTypeOK /\ v \in Actors
  BY DEF StoreInv, Actors
<1>2. PICK own \in [Nat -> Pages] : OwnInv(own)
  BY DEF StoreInv
<1>3. PICK b \in Seq(Record) : b = batch[v]
  BY <1>1 DEF StoreTypeOK, Record
<1>4. PICK f \in Seq(Cell) : f = file
  BY <1>1 DEF StoreTypeOK
<1>5. PICK cells \in Seq(Cell) : cells = BatchCells(b)
  BY RowsType
<1>6. /\ task[v].step = "extent" /\ file' = Write(file, task[v].at, BatchCells(b))
      /\ batch' = [batch EXCEPT ![v] = <<>>] /\ task' = [task EXCEPT ![v] = Idle]
      /\ UNCHANGED <<disk, exact, mode, cache, nextPlane, history>>
  BY <1>3 DEF WriteBatch
<1>7. dir' = [p \in Pages |->
                IF {i \in DOMAIN b : b[i][1] = p} = {} THEN dir[p]
                ELSE [at |-> RangeAt(task[v].at, b, Max({i \in DOMAIN b : b[i][1] = p})),
                      len |-> Size[b[Max({i \in DOMAIN b : b[i][1] = p})][2]]]]
  BY <1>3 DEF WriteBatch, RangeAt
<1>8. Writing /\ task[Main] = Idle /\ Kept = 0
  <2>1. view[v] = "writer"
    BY <1>6, ExtentOpen
  <2> QED BY <2>1, WriterFacts, WritingFacts
<1>9. PICK at \in Nat \ {0} : at = task[v].at
  <2>1. ExtentRight(own, v)
    BY <1>2, <1>6 DEF OwnInv, ExtentsRight
  <2> QED BY <1>1, <2>1 DEF StoreTypeOK, Task, ExtentRight
<1>10. BatchEnd(v) = at + Len(cells) - 1
  BY <1>3, <1>5, <1>9 DEF BatchEnd
<1>11. /\ task'[v] = Idle /\ \A o \in Actors \ {v} : task'[o] = task[o]
       /\ batch'[v] = <<>> /\ \A o \in Views \ {v} : batch'[o] = batch[o]
  BY <1>1, <1>6 DEF StoreTypeOK
<1>12. ASSUME NEW p \in Pages
       PROVE  \/ dir'[p] = dir[p] /\ \A i \in DOMAIN b : b[i][1] # p
              \/ \E j \in 1 .. Len(b) :
                   b[j][1] = p /\ dir'[p] = [at |-> RangeAt(at, b, j), len |-> Size[b[j][2]]]
  <2>1. PICK mine : mine = {i \in DOMAIN b : b[i][1] = p}
    OBVIOUS
  <2>2. CASE mine = {}
    BY <1>7, <2>1, <2>2
  <2>3. CASE mine # {}
    <3>1. mine \in SUBSET (1 .. Len(b)) /\ Len(b) \in Nat
      BY <2>1
    <3>2. PICK j \in 1 .. Len(b) : j = Max(mine) /\ b[j][1] = p
      BY <2>1, <2>3, <3>1, GreatestFacts
    <3>3. dir'[p] = [at |-> RangeAt(at, b, j), len |-> Size[b[j][2]]]
      BY <1>7, <1>9, <2>1, <2>3, <3>2
    <3> QED BY <3>2, <3>3
  <2> QED BY <2>2, <2>3
<1>13. BatchWritten(v, f, b, at, cells)
  BY <1>3, <1>4, <1>5, <1>6, <1>8, <1>9, <1>10, <1>11, <1>12 DEF BatchWritten
<1> QED BY <1>13

(* A record's block lies in the extent of its batch. *)
LEMMA RecordInside ==
  ASSUME StoreConstants, Kept = 0, NEW at \in Nat \ {0}, NEW b \in Seq(Record), NEW j \in 1 .. Len(b),
         NEW e, e = [at |-> RangeAt(at, b, j), len |-> Size[b[j][2]]]
  PROVE  /\ e \in Entry /\ e.at # 0 /\ e.len # 0 /\ e.at = RangeAt(at, b, j) /\ e.len = Size[b[j][2]]
         /\ b[j][2] \in Contents
         /\ e.at >= at /\ e.at + Reach(e) <= at + Len(BatchCells(b)) - 1
<1>1. b[j] \in Record
  OBVIOUS
<1>2. PICK s \in Nat \ {0} : s = Size[b[j][2]]
  BY <1>1, RecordBlock
<1>3. RangeRight(Starts(at - 1, b), at, b, j)
  BY RangeFacts
<1>4. PICK r \in Nat \ {0} : r = RangeAt(at, b, j) /\ r + s <= at + Len(BatchCells(b)) - 1
  BY <1>2, <1>3 DEF RangeRight
<1>5. r >= at
  <2>1. SubSeq(b, 1, j - 1) \in Seq(Record)
    BY SubSeqFacts
  <2>2. PICK cells \in Seq(Cell) : cells = BatchCells(SubSeq(b, 1, j - 1))
    BY <2>1, RowsType
  <2>3. PICK l \in Nat : l = Len(cells)
    OBVIOUS
  <2>4. r = at + l
    BY <1>4, <2>2, <2>3 DEF RangeAt
  <2> QED BY <2>4
<1>6. e \in Entry /\ e.at = r /\ e.len = s
  BY <1>2, <1>4 DEF Entry
<1>7. Reach(e) = s
  BY <1>6, MaxPair DEF Reach
<1> QED BY <1>1, <1>2, <1>4, <1>5, <1>6, <1>7, RecordBlock

LEMMA WriteBatchApart ==
  ASSUME StoreConstants, StoreInv, ExtentsApart, NEW v \in Views, WriteBatch(v)
  PROVE  ExtentsApart'
<1>1. PICK f \in Seq(Cell), b \in Seq(Record), at \in Nat \ {0}, cells \in Seq(Cell) :
           BatchWritten(v, f, b, at, cells)
  BY WriteBatchFacts
<1> USE DEF BatchWritten
<1>2. PICK n \in Nat : n = Len(cells)
  OBVIOUS
<1>3. \A e : Reach(e)' = Reach(e)
  BY <1>1 DEF Reach, Kept
<1>4. ASSUME NEW o \in Views, task'[o].step = "extent"
      PROVE  /\ o # v /\ task[o].step = "extent" /\ task'[o].at = task[o].at /\ BatchEnd(o)' = BatchEnd(o)
             /\ task[o].at \in Nat
  <2>1. o # v /\ o \in Actors
    BY <1>1, <1>4 DEF Idle, Actors
  <2>2. task'[o] = task[o] /\ batch'[o] = batch[o]
    BY <1>1, <2>1
  <2>3. task[o].at \in Nat
    BY <2>1 DEF StoreInv, StoreTypeOK, Task
  <2> QED BY <1>4, <2>1, <2>2, <2>3 DEF BatchEnd
<1>5. ASSUME NEW o \in Views, task'[o].step = "extent", NEW p \in Pages
      PROVE  Clear(dir[p], task[o].at, BatchEnd(o))' /\ Clear(disk[p], task[o].at, BatchEnd(o))'
  <2>1. /\ o # v /\ task[o].step = "extent" /\ task'[o].at = task[o].at /\ BatchEnd(o)' = BatchEnd(o)
        /\ task[o].at \in Nat
    BY <1>4, <1>5
  <2>2. Clear(dir[p], task[o].at, BatchEnd(o)) /\ Clear(disk[p], task[o].at, BatchEnd(o))
    BY <2>1 DEF ExtentsApart
  <2>3. Clear(disk[p], task[o].at, BatchEnd(o))'
    BY <1>1, <1>3, <2>1, <2>2 DEF Clear
  <2>4. Clear(dir[p], task[o].at, BatchEnd(o))'
    <3>1. CASE dir'[p] = dir[p]
      BY <1>3, <2>1, <2>2, <3>1 DEF Clear
    <3>2. CASE dir'[p] # dir[p]
      <4>1. PICK j \in 1 .. Len(b) : dir'[p] = [at |-> RangeAt(at, b, j), len |-> Size[b[j][2]]]
        BY <1>1, <3>2
      <4>2. PICK e : e = [at |-> RangeAt(at, b, j), len |-> Size[b[j][2]]]
        OBVIOUS
      <4>3. e \in Entry /\ e.at >= at /\ e.at + Reach(e) <= at + Len(cells) - 1
        <5>1. Kept = 0 /\ cells = BatchCells(b)
          BY <1>1
        <5> QED BY ONLY StoreConstants, <4>2, <5>1, at \in Nat \ {0}, b \in Seq(Record), j \in 1 .. Len(b),
                        RecordInside
      <4>4. e \in Entry /\ e = dir'[p] /\ e.at >= at /\ e.at + Reach(e) <= at + n - 1
        BY <1>2, <4>1, <4>2, <4>3
      <4>5. PICK x \in Nat, y \in Nat : x = e.at /\ y = e.at + Reach(e)
        BY <4>4, ReachFacts
      <4>6. PICK from \in Nat : from = task[o].at
        BY <2>1
      <4>7. BatchEnd(o) < at \/ at + n - 1 < from
        BY <1>1, <1>2, <2>1, <4>6 DEF ExtentsApart
      <4>8. CASE at + n - 1 < from
        <5>1. y < from
          BY ONLY <4>4, <4>5, <4>8, y \in Nat, at \in Nat, n \in Nat, from \in Nat
        <5> QED BY <1>3, <2>1, <4>4, <4>5, <4>6, <5>1 DEF Clear
      <4>9. CASE BatchEnd(o) < at
        <5>1. PICK last \in Int : last = BatchEnd(o)
          <6>1. batch[o] \in Seq(Record)
            BY DEF StoreInv, StoreTypeOK, Record
          <6>2. PICK row \in Seq(Cell) : row = BatchCells(batch[o])
            BY <6>1, RowsType
          <6>3. PICK l \in Nat : l = Len(row)
            OBVIOUS
          <6>4. from + l - 1 \in Int
            OBVIOUS
          <6> QED BY <4>6, <6>2, <6>3, <6>4 DEF BatchEnd
        <5>2. last < x
          BY ONLY <4>4, <4>5, <4>9, <5>1, x \in Nat, at \in Nat, last \in Int
        <5> QED BY <1>3, <2>1, <4>4, <4>5, <5>1, <5>2 DEF Clear
      <4> QED BY <4>7, <4>8, <4>9
    <3> QED BY <3>1, <3>2
  <2> QED BY <2>3, <2>4
<1>6. ASSUME NEW o \in Views, NEW x \in Views \ {o}, task'[o].step = "extent", task'[x].step = "extent"
      PROVE  BatchEnd(x)' < task'[o].at \/ BatchEnd(o)' < task'[x].at
  <2>1. /\ task[o].step = "extent" /\ BatchEnd(o)' = BatchEnd(o) /\ task'[o].at = task[o].at
        /\ task[x].step = "extent" /\ BatchEnd(x)' = BatchEnd(x) /\ task'[x].at = task[x].at
    BY <1>4, <1>6
  <2> QED BY <2>1 DEF ExtentsApart
<1> QED BY <1>5, <1>6 DEF ExtentsApart

LEMMA WriteBatchStep ==
  ASSUME StoreConstants, StoreInv, HistoryInv, ExtentsApart, StoreInv', NEW v \in Views, WriteBatch(v)
  PROVE  StepRight
<1>1. PICK f \in Seq(Cell), b \in Seq(Record), at \in Nat \ {0}, cells \in Seq(Cell) :
           BatchWritten(v, f, b, at, cells)
  BY WriteBatchFacts
<1> USE DEF BatchWritten
<1>2. PICK own \in [Nat -> Pages] : OwnInv(own)
  BY DEF StoreInv
<1>3. mode # "closed" /\ mode' # "closed"
  BY <1>1, WritingFacts
<1>4. PICK g \in Seq(Cell) : g = file'
  BY <1>1, WriteFacts
<1>5. ASSUME NEW e \in Entry, NEW p \in Pages, EntryInside(own, p, e), Clear(e, at, BatchEnd(v))
      PROVE  Decode(g, e) = Decode(f, e)
  <2>1. PICK x \in Nat, reach \in Nat : x = e.at /\ reach = Reach(e) /\ e.len <= reach
    BY ReachFacts
  <2>2. CASE x # 0
    <3>1. PICK l \in Nat, n \in Nat : l = Len(f) /\ n = Len(cells)
      OBVIOUS
    <3>2. x + reach <= l
      BY <1>1, <1>5, <2>1, <2>2, <3>1 DEF EntryInside, Inside
    <3>3. x + reach < at \/ at + n - 1 < x
      BY <1>1, <1>5, <2>1, <2>2, <3>1 DEF Clear
    <3>8. /\ Len(Write(f, at, cells)) >= Len(f)
          /\ \A i \in 1 .. Len(f) :
               i < at \/ i > at + Len(cells) - 1 => Write(f, at, cells)[i] = f[i]
      BY WriteFacts
    <3>4. /\ Len(g) >= l
          /\ \A i \in 1 .. l : i < at \/ i > at + n - 1 => g[i] = f[i]
      BY <1>1, <1>4, <3>1, <3>8
    <3>5. ASSUME NEW i \in x .. x + reach PROVE g[i] = f[i]
      <4>1. i \in 1 .. l /\ (i < at \/ i > at + n - 1)
        BY ONLY <2>2, <3>2, <3>3, i \in x .. x + reach, x \in Nat, reach \in Nat, l \in Nat, n \in Nat, at \in Nat
      <4> QED BY <3>4, <4>1
    <3>6. Len(f) <= Len(g)
      BY <3>1, <3>4
    <3>7. e.len <= reach /\ e.at + reach <= Len(f) /\ \A i \in e.at .. e.at + reach : g[i] = f[i]
      BY <2>1, <3>1, <3>2, <3>5
    <3> QED BY <3>6, <3>7, DecodeSame
  <2>3. CASE x = 0
    BY <2>1, <2>3 DEF Decode
  <2> QED BY <2>2, <2>3
<1>6. ASSUME NEW p \in Pages
      PROVE  Decode(g, dir[p]) = Decode(f, dir[p]) /\ Decode(g, disk[p]) = Decode(f, disk[p])
  <2>1. Clear(dir[p], at, BatchEnd(v)) /\ Clear(disk[p], at, BatchEnd(v))
    BY <1>1 DEF ExtentsApart
  <2>2. /\ dir[p] \in Entry /\ EntryInside(own, p, dir[p])
        /\ disk[p] \in Entry /\ EntryInside(own, p, disk[p])
    BY <1>2 DEF StoreInv, StoreTypeOK, OwnInv, EntriesInside
  <2> QED BY <1>5, <2>1, <2>2
<1>7. ASSUME NEW p \in Pages, NEW j \in 1 .. Len(b), b[j][1] = p,
             dir'[p] = [at |-> RangeAt(at, b, j), len |-> Size[b[j][2]]]
      PROVE  /\ Decode(g, dir'[p]) = b[j][2] /\ b[j][2] \in Pending(p)
             /\ dir'[p].at # 0 /\ dir'[p].len # 0
  <2>6. PICK e : e = dir'[p]
    OBVIOUS
  <2>1. /\ e \in Entry /\ e = dir'[p] /\ e.at # 0 /\ e.len # 0 /\ e.at = RangeAt(at, b, j)
        /\ e.len = Size[b[j][2]] /\ b[j][2] \in Contents
    <3>1. e = [at |-> RangeAt(at, b, j), len |-> Size[b[j][2]]]
      BY <1>7, <2>6
    <3>2. Kept = 0
      BY <1>1
    <3>3. /\ e \in Entry /\ e.at # 0 /\ e.len # 0 /\ e.at = RangeAt(at, b, j)
          /\ e.len = Size[b[j][2]] /\ b[j][2] \in Contents
      BY ONLY StoreConstants, <3>1, <3>2, at \in Nat \ {0}, b \in Seq(Record), j \in 1 .. Len(b), RecordInside
    <3> QED BY <2>6, <3>3
  <2>2. Whole(Write(f, at, BatchCells(b)), RangeAt(at, b, j), b[j][2])
    BY BatchWhole
  <2>3. Whole(g, e.at, b[j][2])
    BY <1>1, <1>4, <2>1, <2>2
  <2>4. Decode(g, e) = b[j][2]
    BY <2>1, <2>3, DecodeWhole
  <2>5. b[j][2] \in Pending(b[j][1])
    <3>1. j \in DOMAIN batch[v]
      BY <1>1
    <3> QED BY <1>1, <3>1, PendingFacts
  <2> QED BY <1>7, <2>1, <2>4, <2>5
<1>8. ASSUME NEW p \in Pages PROVE Readable(possible[p], g, dir[p]) /\ Readable(possible[p], g, disk[p])
  <2>1. Readable(possible[p], f, dir[p]) /\ Readable(possible[p], f, disk[p])
    BY <1>1, <1>3 DEF HistoryInv, AllReadable
  <2> QED BY <1>6, <2>1, ReadableSame
<1>9. ASSUME NEW p \in Pages PROVE Entries2(p)
  <2>1. Readable(possible[p], g, dir'[p])
    <3>1. CASE dir'[p] = dir[p]
      BY <1>8, <3>1
    <3>2. CASE dir'[p] # dir[p]
      <4>1. PICK j \in 1 .. Len(b) :
              b[j][1] = p /\ dir'[p] = [at |-> RangeAt(at, b, j), len |-> Size[b[j][2]]]
        BY <1>1, <3>2
      <4>2. /\ Decode(g, dir'[p]) = b[j][2] /\ b[j][2] \in Pending(p)
            /\ dir'[p].at # 0 /\ dir'[p].len # 0
        BY <1>7, <4>1
      <4>3. Decode(g, dir'[p]) \in possible[p]
        BY <4>2 DEF HistoryInv
      <4> QED BY <4>2, <4>3 DEF Readable, Returns
    <3> QED BY <3>1, <3>2
  <2> QED BY <1>1, <1>4, <1>8, <2>1 DEF Entries2
<1>10. \A p \in Pages : Pending(p)' \subseteq Pending(p)
  BY <1>1, PendingLess
<1>11. ASSUME NEW p \in Pages PROVE Reads2(p)
  <2> SUFFICES ASSUME Pending(p)' = {} PROVE Decode(file', dir'[p]) = Latest(p)
    BY <1>10 DEF Reads2
  <2>1. CASE dir'[p] = dir[p] /\ \A i \in DOMAIN b : b[i][1] # p
    <3>1. \A c : Held0(p, c) => Held0(p, c)'
      BY <1>1 DEF Held0, Dirty, Slots
    <3>2. \A c : Batched(p, c) => Batched(p, c)'
      <4>1. ASSUME NEW c, NEW o \in Views, NEW i \in DOMAIN batch[o], batch[o][i][1] = p, batch[o][i][2] = c
            PROVE  Batched(p, c)'
        <5>1. o # v
          BY <1>1, <2>1, <4>1
        <5>2. batch'[o] = batch[o]
          BY <1>1, <5>1
        <5> QED BY <4>1, <5>2 DEF Batched
      <4> QED BY <4>1 DEF Batched
    <3>3. Pending(p) = {}
      BY <3>1, <3>2 DEF Pending
    <3>4. Latest(p) = Decode(file, dir[p])
      BY <1>3, <3>3, LatestDecodes
    <3> QED BY <1>1, <1>4, <1>6, <2>1, <3>4
  <2>2. CASE \E j \in 1 .. Len(b) :
               b[j][1] = p /\ dir'[p] = [at |-> RangeAt(at, b, j), len |-> Size[b[j][2]]]
    <3>1. PICK j \in 1 .. Len(b) :
            b[j][1] = p /\ dir'[p] = [at |-> RangeAt(at, b, j), len |-> Size[b[j][2]]]
      BY <2>2
    <3>2. Decode(g, dir'[p]) = b[j][2] /\ b[j][2] \in Pending(p)
      BY <1>7, <3>1
    <3>3. Latest(p) = b[j][2]
      BY <1>3, <3>2, LatestFacts DEF HistoryInv
    <3> QED BY <1>4, <3>2, <3>3
  <2> QED BY <1>1, <2>1, <2>2
<1>12. DirectoryRight'
  <2> SUFFICES ASSUME NEW a \in Actors PROVE task'[a].step # "directory" /\ task'[a].next = 0
    BY DEF DirectoryRight
  <2>1. CASE a = v
    BY <1>1, <2>1 DEF Idle
  <2>2. CASE a # v
    <3>1. task'[a] = task[a]
      BY <1>1, <2>2
    <3>2. task[a].step # "directory"
      <4> SUFFICES ASSUME task[a].step = "directory" PROVE FALSE
        OBVIOUS
      <4>1. a # Main
        BY <1>1 DEF Idle
      <4>2. a \in Views /\ view[a] = "write"
        BY <4>1, FlushFacts
      <4> QED BY <1>1, <4>2, WritingFacts
    <3> QED BY <3>1, <3>2 DEF HistoryInv, DirectoryRight
  <2> QED BY <2>1, <2>2
<1>13. ASSUME NEW o \in Views PROVE BatchRight(o)'
  <2>1. CASE o = v
    BY <1>1, <2>1 DEF BatchRight
  <2>2. CASE o # v
    <3>1. batch'[o] = batch[o] /\ nextPlane' = nextPlane /\ BatchRight(o)
      BY <1>1, <2>2 DEF HistoryInv
    <3> QED BY <3>1 DEF BatchRight, PlaneOf
  <2> QED BY <2>1, <2>2
<1> QED BY <1>1, <1>3, <1>9, <1>11, <1>12, <1>13, QuietRight

--------------------
(* The initial states, and every step.                                     *)
LEMMA InitHistory ==
  ASSUME StoreConstants, Init
  PROVE  HistoryInv /\ ExtentsApart /\ Table!Init
<1>1. StoreInv /\ mode = "closed"
  BY InitRight DEF Init
<1>2. PICK t \in [Pages -> Values] :
           /\ file = Blocks(t, Kept) /\ disk = Directory(t, Kept)
           /\ possible = [p \in Pages |-> {t[p]}]
  BY DEF Init, StoreConstants
<1>3. Valid(disk) /\ \A p \in Pages : Decode(file, disk[p]) = t[p]
  BY <1>2, KeptFacts, TableRead
<1>4. \A p \in Pages : Durable(file, disk, p) = t[p]
  BY <1>3 DEF Durable
<1>5. \A p \in Pages : Latest(p) = t[p]
  BY <1>1, <1>4, ClosedLatest
<1>6. /\ \A p \in Pages : Pending(p) = {}
      /\ \A a \in Actors : task[a] = Idle
      /\ \A v \in Views : batch[v] = <<>>
  BY <1>1, ClosedFacts
<1>7. HistoryInv
  <2>1. DOMAIN possible = Pages /\ \A p \in Pages : possible[p] = {t[p]}
    BY <1>2
  <2>2. DirectoryRight
    BY <1>6 DEF DirectoryRight, Idle
  <2>3. \A v \in Views : BatchRight(v)
    BY <1>6 DEF BatchRight
  <2> QED BY <1>1, <1>4, <1>6, <2>1, <2>2, <2>3 DEF HistoryInv
<1>8. ExtentsApart
  BY <1>6 DEF ExtentsApart, Idle, Actors
<1>9. Table!Init
  <2>1. Held = t
    BY <1>5 DEF Held
  <2>2. Table!Pages = Pages /\ possible = [p \in Pages |-> {Held[p]}]
    BY <1>2, <2>1 DEF Table!Pages
  <2>3. changes = 0 /\ gaveUp = FALSE
    BY DEF Init
  <2> QED BY <2>1, <2>2, <2>3 DEF Table!Init
<1> QED BY <1>7, <1>8, <1>9

LEMMA ApartNext ==
  ASSUME StoreConstants, StoreInv, ExtentsApart, [Next]_vars
  PROVE  ExtentsApart'
<1>1. ASSUME NEW a \in Actors, NEW p \in Pages, NEW put \in Values \cup {Err}, Access(a, p, put)
      PROVE  ExtentsApart'
  BY <1>1, AccessApart
<1>2. ASSUME NEW a \in Actors, Store(a) PROVE ExtentsApart'
  BY <1>2, StoreApart
<1>3. ASSUME NEW a \in Actors, FlushSlot(a) PROVE ExtentsApart'
  BY <1>3, FlushSlotApart
<1>4. ASSUME NEW a \in Actors, WriteDirectory(a) PROVE ExtentsApart'
  BY <1>4, WriteDirectoryApart
<1>5. ASSUME NEW v \in Views, ViewStep(v) PROVE ExtentsApart'
  <2>1. ASSUME NEW kind \in Kinds[v], CreateView(v, kind) PROVE ExtentsApart'
    BY <2>1, HandleApart
  <2>2. CASE CloseView(v)
    BY <2>2, HandleApart
  <2>3. ASSUME NEW p \in Pages, NEW c \in Values, Replace(v, p, c) PROVE ExtentsApart'
    BY <2>3, ReplaceApart
  <2> QED BY <1>5, <2>1, <2>2, <2>3 DEF ViewStep
<1>6. ASSUME NEW v \in Views, WriterStep(v) PROVE ExtentsApart'
  <2>1. CASE CreateWriter(v) \/ (\E c \in Values : PutPlane(v, c)) \/ WriterFails(v) \/ CloseWriter(v)
    BY <2>1, WriterApart
  <2>2. CASE ReserveExtent(v)
    BY <2>2, ReserveApart
  <2>3. CASE WriteBatch(v)
    BY <2>3, WriteBatchApart
  <2> QED BY <1>6, <2>1, <2>2, <2>3 DEF WriterStep
<1>7. CASE Prepare \/ Compact
  BY <1>7, WholeApart
<1>8. ASSUME NEW kind \in {"read", "write"}, Open(kind) PROVE ExtentsApart'
  BY <1>8, HandleApart
<1>9. CASE OpenAgain \/ OpenRefused \/ FlushHandle \/ Close \/ Crash \/ UNCHANGED vars
  BY <1>9, HandleApart
<1>10. CASE \E c \in Caps : ResizeCache(c)
  BY <1>10, HandleApart
<1> QED BY <1>1, <1>2, <1>3, <1>4, <1>5, <1>6, <1>7, <1>8, <1>9, <1>10 DEF Next

LEMMA StoreStepTable ==
  ASSUME StoreConstants, StoreInv, HistoryInv, StoreInv', NEW a \in Actors,
         Store(a) \/ FlushSlot(a) \/ WriteDirectory(a)
  PROVE  StepRight
<1>1. CASE StoreDraw(a)
  BY <1>1, StoreDrawStep
<1>2. CASE StoreInPlace(a) \/ StoreAppend(a)
  BY <1>2, StoreHeaderStep
<1>3. CASE StorePayload(a)
  BY <1>3, StorePayloadStep
<1>4. CASE StoreLength(a)
  BY <1>4, StoreLengthStep
<1>5. CASE StoreFails(a)
  BY <1>5, StoreFailsStep
<1>6. CASE FlushSlot(a)
  BY <1>6, FlushSlotStep
<1>7. CASE WriteDirectory(a)
  BY <1>7, WriteDirectoryStep
<1> QED BY <1>1, <1>2, <1>3, <1>4, <1>5, <1>6, <1>7 DEF Store

LEMMA ViewStepTable ==
  ASSUME StoreConstants, StoreInv, HistoryInv, ExtentsApart, StoreInv', NEW v \in Views,
         ViewStep(v) \/ WriterStep(v)
  PROVE  StepRight
<1>1. ASSUME NEW kind \in Kinds[v], CreateView(v, kind) PROVE StepRight
  BY <1>1, CreateViewStep
<1>2. CASE CloseView(v)
  BY <1>2, CloseViewStep
<1>3. ASSUME NEW p \in Pages, NEW c \in Values, Replace(v, p, c) PROVE StepRight
  BY <1>3, ReplaceStep
<1>4. CASE CreateWriter(v)
  BY <1>4, CreateWriterStep
<1>5. ASSUME NEW c \in Values, PutPlane(v, c) PROVE StepRight
  BY <1>5, PutPlaneStep
<1>6. CASE ReserveExtent(v)
  BY <1>6, ReserveExtentStep
<1>7. CASE WriteBatch(v)
  BY <1>7, WriteBatchStep
<1>8. CASE WriterFails(v)
  BY <1>8, WriterFailsStep
<1>9. CASE CloseWriter(v)
  BY <1>9, CloseWriterStep
<1> QED BY <1>1, <1>2, <1>3, <1>4, <1>5, <1>6, <1>7, <1>8, <1>9 DEF ViewStep, WriterStep

LEMMA NextTable ==
  ASSUME StoreConstants, StoreInv, HistoryInv, ExtentsApart, StoreInv', [Next]_vars
  PROVE  StepRight
<1>1. ASSUME NEW a \in Actors, NEW p \in Pages, NEW put \in Values \cup {Err}, Access(a, p, put)
      PROVE  StepRight
  BY <1>1, AccessStep
<1>2. ASSUME NEW a \in Actors, Store(a) \/ FlushSlot(a) \/ WriteDirectory(a) PROVE StepRight
  BY <1>2, StoreStepTable
<1>3. ASSUME NEW v \in Views, ViewStep(v) \/ WriterStep(v) PROVE StepRight
  BY <1>3, ViewStepTable
<1>4. ASSUME NEW kind \in {"read", "write"}, Open(kind) PROVE StepRight
  BY <1>4, OpenStep
<1>5. ASSUME NEW c \in Caps, ResizeCache(c) PROVE StepRight
  BY <1>5, ResizeCacheStep
<1>6. CASE OpenAgain
  BY <1>6, OpenAgainStep
<1>7. CASE OpenRefused
  BY <1>7, OpenRefusedStep
<1>8. CASE FlushHandle
  BY <1>8, FlushHandleStep
<1>9. CASE Close
  BY <1>9, CloseStep
<1>10. CASE Prepare
  BY <1>10, PrepareStep
<1>11. CASE Compact
  BY <1>11, CompactStep
<1>12. CASE Crash
  BY <1>12, CrashStep
<1>13. CASE UNCHANGED vars
  BY <1>13, UnchangedStep
<1> QED BY <1>1, <1>2, <1>3, <1>4, <1>5, <1>6, <1>7, <1>8, <1>9, <1>10, <1>11, <1>12, <1>13 DEF Next

(* The store implements the durable table, for every number of pages, of     *)
(* views and of contents: reads of it never go back, what a completed flush   *)
(* or close covers (egtb.c:1318, 1700) survives any crash, and whatever is    *)
(* later than that comes back as a value it had or is refused.                *)
THEOREM StoreRefines == ASSUME StoreConstants PROVE Spec => Refines
<1> DEFINE TableInv == StoreInv /\ HistoryInv /\ ExtentsApart
<1>1. Init => TableInv /\ Table!Init
  BY InitRight, InitHistory
<1>2. TableInv /\ [Next]_vars => TableInv' /\ [Table!Next]_<<Held, possible, changes, gaveUp>>
  <2> SUFFICES ASSUME TableInv, [Next]_vars
               PROVE  TableInv' /\ [Table!Next]_<<Held, possible, changes, gaveUp>>
    OBVIOUS
  <2>1. StoreInv'
    BY NextRight
  <2>2. ExtentsApart'
    BY ApartNext
  <2>3. StepRight
    BY <2>1, NextTable
  <2> QED BY <2>1, <2>2, <2>3 DEF StepRight
<1> QED BY <1>1, <1>2, PTL DEF Spec, Refines, Table!Spec
=============================================================================
